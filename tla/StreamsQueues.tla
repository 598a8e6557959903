---------------------------- MODULE StreamsQueues ----------------------------
(***************************************************************************)
(* The queues of a stream, for any number of processes, any calls, and     *)
(* queues of any size: nothing is left behind in a queue that nobody will  *)
(* serve, and the output keeps its order, with no block missing that was   *)
(* not thrown away.  The proofs rest on who is in the stream               *)
(* (StreamsProofs).                                                        *)
(*                                                                         *)
(* The invariant has three parts: the flow control of the queues           *)
(* (Balanced), the order of the blocks (Ordered), and what the line waits  *)
(* for (Loose, Busy).  Each operation of a block or a queue is shown to    *)
(* keep them, and the steps are made of these operations.                  *)
(***************************************************************************)
EXTENDS StreamsProofs, SequenceTheorems, WellFoundedInduction

-----------------------------------------------------------------------------
(* Flow control and the order of the output: the blocks in the queues      *)

Delim == [type |-> "DELIM", n |-> 0]
Delay == [type |-> "DELAY", n |-> 0]
Ctl == [type |-> "CTL", n |-> 0]
Output == [type: {"DATA"}, n: Nat \ {0}]
Request == [type: {"IOCTL"}, n: Proc]

\* What may be in each queue.
Fit(n) == CASE n \in {"rd", "ldr"} -> {Char}
            [] n = "ldw" -> Output \cup Request \cup {Delim}
            [] n = "dzw" -> Output \cup {Ctl, Delay}
            [] OTHER -> {}
AnyBlock == {Char, Delim, Delay, Ctl} \cup Output \cup Request
Items(n) == {x \in Seq(AnyBlock) : \A i \in 1..Len(x): x[i] \in Fit(n)}

\* The order of the data, by number.
Sorted(x) == \A i, j \in 1..Len(x):
  i < j /\ x[i].type = "DATA" /\ x[j].type = "DATA" => x[i].n < x[j].n

\* What a queue may hold are blocks.
LEMMA FitBlock ==
  ASSUME NEW n
  PROVE  Fit(n) \subseteq AnyBlock
BY DEF Fit, AnyBlock

\* Blocks are put at the end, in front, and taken from the front.
LEMMA AppendItems ==
  ASSUME NEW n, NEW x \in Items(n), NEW b \in Fit(n)
  PROVE  /\ Append(x, b) \in Items(n) /\ Len(Append(x, b)) = Len(x) + 1
         /\ <<b>> \o x \in Items(n) /\ Len(<<b>> \o x) = Len(x) + 1
<1>1. b \in AnyBlock
  BY FitBlock
<1> HIDE DEF AnyBlock
<1>2. x \in Seq(AnyBlock)
  BY DEF Items
<1>3. Append(x, b) \in Seq(AnyBlock) /\ Len(Append(x, b)) = Len(x) + 1
      /\ \A i \in 1..Len(x) + 1: Append(x, b)[i] = IF i = Len(x) + 1 THEN b ELSE x[i]
  BY <1>1, <1>2, AppendProperties
<1>4. <<b>> \o x \in Seq(AnyBlock) /\ Len(<<b>> \o x) = Len(x) + 1
      /\ \A i \in 1..Len(x) + 1: (<<b>> \o x)[i] = IF i = 1 THEN b ELSE x[i - 1]
  BY <1>1, <1>2
<1>5. Len(x) \in Nat
  BY <1>2
<1>6. \A i \in 1..Len(x): x[i] \in Fit(n)
  BY DEF Items
<1>7. Append(x, b) \in Items(n)
  <2>1. PICK y : y = Append(x, b)
    OBVIOUS
  <2>2. \A i \in 1..Len(y): y[i] \in Fit(n)
    BY <1>3, <1>5, <1>6, <2>1
  <2> QED  BY <1>3, <2>1, <2>2 DEF Items
<1>8. <<b>> \o x \in Items(n)
  <2>1. PICK y : y = <<b>> \o x
    OBVIOUS
  <2>2. \A i \in 1..Len(y): y[i] \in Fit(n)
    BY <1>4, <1>5, <1>6, <2>1
  <2> QED  BY <1>4, <2>1, <2>2 DEF Items
<1> QED  BY <1>3, <1>4, <1>7, <1>8

\* Two runs of blocks, one behind the other.
LEMMA ConcatItems ==
  ASSUME NEW n, NEW x \in Items(n), NEW y \in Items(n)
  PROVE  x \o y \in Items(n) /\ Len(x \o y) = Len(x) + Len(y)
<1>1. x \in Seq(AnyBlock) /\ y \in Seq(AnyBlock)
  BY DEF Items
<1> HIDE DEF AnyBlock
<1>2. /\ x \o y \in Seq(AnyBlock) /\ Len(x \o y) = Len(x) + Len(y)
      /\ \A i \in 1..Len(x) + Len(y):
           (x \o y)[i] = IF i <= Len(x) THEN x[i] ELSE y[i - Len(x)]
      /\ Len(x) \in Nat /\ Len(y) \in Nat
  BY <1>1
<1>3. PICK z : z = x \o y
  OBVIOUS
<1>4. (\A i \in 1..Len(x): x[i] \in Fit(n)) /\ (\A i \in 1..Len(y): y[i] \in Fit(n))
  BY DEF Items
<1>5. \A i \in 1..Len(z): z[i] \in Fit(n)
  BY <1>2, <1>3, <1>4
<1> QED  BY <1>2, <1>3, <1>5 DEF Items

\* What is left when j blocks are taken from the front.
LEMMA SubItems ==
  ASSUME NEW n, NEW x \in Items(n), NEW j \in 0..Len(x)
  PROVE  /\ SubSeq(x, j + 1, Len(x)) \in Items(n)
         /\ Len(SubSeq(x, j + 1, Len(x))) = Len(x) - j
         /\ \A i \in 1..Len(x) - j: SubSeq(x, j + 1, Len(x))[i] = x[i + j]
<1>1. x \in Seq(AnyBlock)
  BY DEF Items
<1> HIDE DEF AnyBlock
<1>2. Len(x) \in Nat
  BY <1>1
<1>3. /\ SubSeq(x, j + 1, Len(x)) \in Seq(AnyBlock)
      /\ Len(SubSeq(x, j + 1, Len(x))) = Len(x) - j
      /\ \A i \in 1..Len(x) - j: SubSeq(x, j + 1, Len(x))[i] = x[i + j]
  BY <1>1, <1>2
<1>4. PICK y : y = SubSeq(x, j + 1, Len(x))
  OBVIOUS
<1>5. \A i \in 1..Len(x): x[i] \in Fit(n)
  BY DEF Items
<1>6. \A i \in 1..Len(y): y[i] \in Fit(n)
  BY <1>2, <1>3, <1>4, <1>5
<1> QED  BY <1>2, <1>3, <1>4, <1>6 DEF Items

\* The empty queue, and the length of any.
LEMMA EmptyItems ==
  ASSUME NEW n
  PROVE  /\ <<>> \in Items(n) /\ Len(<<>>) = 0
         /\ \A x \in Items(n): Len(x) \in Nat /\ (x = <<>> <=> Len(x) = 0)
BY DEF Items

\* The numbers of the data.
LEMMA InNumbers ==
  ASSUME NEW x, NEW v
  PROVE  v \in Numbers(x) <=>
           \E i \in 1..Len(x): x[i].type = "DATA" /\ x[i].n # 0 /\ v = x[i].n
BY DEF Numbers

\* The numbers of the output are not 0 ...
LEMMA NumbersNat ==
  ASSUME NEW n \in {"ldw", "dzw"}, NEW x \in Items(n)
  PROVE  /\ Numbers(x) \subseteq Nat \ {0}
         /\ \A i \in 1..Len(x): x[i].type = "DATA" => x[i].n \in Numbers(x)
<1>1. ASSUME NEW i \in 1..Len(x), x[i].type = "DATA" PROVE x[i].n \in Nat \ {0}
  BY <1>1 DEF Items, Fit, Output, Request, Delim, Delay, Ctl
<1> QED  BY <1>1, InNumbers

\* ... and what goes up has none.
LEMMA NoNumbers ==
  ASSUME NEW n \in {"rd", "ldr"}, NEW x \in Items(n)
  PROVE  Numbers(x) = {}
<1>1. \A i \in 1..Len(x): x[i].n = 0
  BY DEF Items, Fit, Char
<1> QED  BY <1>1, InNumbers

\* Nothing is in order.
LEMMA EmptyNumbers ==
  Numbers(<<>>) = {} /\ Sorted(<<>>)
BY DEF Numbers, Sorted

Num(b) == IF b.type = "DATA" THEN {b.n} ELSE {}

\* A block at the end, larger than all others, ...
LEMMA AppendNumbers ==
  ASSUME NEW n \in {"ldw", "dzw"}, NEW x \in Items(n), NEW b \in Fit(n), Sorted(x)
  PROVE  /\ Numbers(Append(x, b)) = Numbers(x) \cup Num(b)
         /\ (\A v \in Numbers(x), u \in Num(b): v < u) => Sorted(Append(x, b))
<1>0. x \in Seq(AnyBlock) /\ b \in AnyBlock /\ Len(x) \in Nat
  BY FitBlock, EmptyItems DEF Items
<1>1. PICK y : y = Append(x, b)
  OBVIOUS
<1>2. /\ Len(y) = Len(x) + 1
      /\ \A i \in 1..Len(x) + 1: y[i] = IF i = Len(x) + 1 THEN b ELSE x[i]
  BY <1>0, <1>1, AppendProperties
<1>3. /\ Len(x) + 1 \in 1..Len(y) /\ y[Len(x) + 1] = b
      /\ \A i \in 1..Len(x): i \in 1..Len(y) /\ y[i] = x[i]
      /\ \A i \in 1..Len(y): i = Len(x) + 1 \/ (i \in 1..Len(x) /\ y[i] = x[i])
  BY <1>0, <1>2
<1>4. b.type = "DATA" => b.n # 0
  BY DEF Fit, Output, Request, Delim, Delay, Ctl
<1>5. ASSUME NEW v PROVE v \in Numbers(y) <=> v \in Numbers(x) \cup Num(b)
  <2>1. ASSUME v \in Numbers(y) PROVE v \in Numbers(x) \cup Num(b)
    <3>1. PICK i \in 1..Len(y) : y[i].type = "DATA" /\ y[i].n # 0 /\ v = y[i].n
      BY <2>1, InNumbers
    <3>2. CASE i = Len(x) + 1
      BY <1>3, <3>1, <3>2 DEF Num
    <3>3. CASE i \in 1..Len(x) /\ y[i] = x[i]
      BY <3>1, <3>3, InNumbers
    <3> QED  BY <1>3, <3>2, <3>3
  <2>2. ASSUME v \in Numbers(x) PROVE v \in Numbers(y)
    <3>1. PICK i \in 1..Len(x) : x[i].type = "DATA" /\ x[i].n # 0 /\ v = x[i].n
      BY <2>2, InNumbers
    <3>2. i \in 1..Len(y) /\ y[i] = x[i]
      BY <1>3
    <3> QED  BY <3>1, <3>2, InNumbers
  <2>3. ASSUME v \in Num(b) PROVE v \in Numbers(y)
    <3>1. b.type = "DATA" /\ v = b.n
      BY <2>3 DEF Num
    <3> QED  BY <1>3, <1>4, <3>1, InNumbers
  <2> QED  BY <2>1, <2>2, <2>3
<1>6. ASSUME \A v \in Numbers(x), u \in Num(b): v < u PROVE Sorted(y)
  <2> SUFFICES ASSUME NEW i \in 1..Len(y), NEW j \in 1..Len(y), i < j,
                      y[i].type = "DATA", y[j].type = "DATA"
               PROVE  y[i].n < y[j].n
    BY DEF Sorted
  <2>1. i \in 1..Len(x) /\ y[i] = x[i]
    BY <1>0, <1>2
  <2>2. CASE j = Len(x) + 1
    <3>1. y[j] = b
      BY <1>3, <2>2
    <3> QED  BY <1>6, <2>1, <3>1, NumbersNat DEF Num
  <2>3. CASE j \in 1..Len(x) /\ y[j] = x[j]
    BY <2>1, <2>3 DEF Sorted
  <2> QED  BY <1>3, <2>2, <2>3
<1> QED  BY <1>1, <1>5, <1>6

\* ... or in front, smaller.
LEMMA FrontNumbers ==
  ASSUME NEW n \in {"ldw", "dzw"}, NEW x \in Items(n), NEW b \in Fit(n), Sorted(x)
  PROVE  /\ Numbers(<<b>> \o x) = Numbers(x) \cup Num(b)
         /\ (\A v \in Numbers(x), u \in Num(b): u < v) => Sorted(<<b>> \o x)
<1>0. x \in Seq(AnyBlock) /\ b \in AnyBlock /\ Len(x) \in Nat
  BY FitBlock, EmptyItems DEF Items
<1>1. PICK y : y = <<b>> \o x
  OBVIOUS
<1>2. /\ Len(y) = Len(x) + 1
      /\ \A i \in 1..Len(x) + 1: y[i] = IF i = 1 THEN b ELSE x[i - 1]
  BY <1>0, <1>1, AppendProperties
<1>3. /\ 1 \in 1..Len(y) /\ y[1] = b
      /\ \A i \in 1..Len(x): i + 1 \in 1..Len(y) /\ y[i + 1] = x[i]
      /\ \A i \in 1..Len(y): i = 1 \/ (i - 1 \in 1..Len(x) /\ y[i] = x[i - 1])
  BY <1>0, <1>2
<1>4. b.type = "DATA" => b.n # 0
  BY DEF Fit, Output, Request, Delim, Delay, Ctl
<1>5. ASSUME NEW v PROVE v \in Numbers(y) <=> v \in Numbers(x) \cup Num(b)
  <2>1. ASSUME v \in Numbers(y) PROVE v \in Numbers(x) \cup Num(b)
    <3>1. PICK i \in 1..Len(y) : y[i].type = "DATA" /\ y[i].n # 0 /\ v = y[i].n
      BY <2>1, InNumbers
    <3>2. CASE i = 1
      BY <1>3, <3>1, <3>2 DEF Num
    <3>3. CASE i - 1 \in 1..Len(x) /\ y[i] = x[i - 1]
      BY <3>1, <3>3, InNumbers
    <3> QED  BY <1>3, <3>2, <3>3
  <2>2. ASSUME v \in Numbers(x) PROVE v \in Numbers(y)
    <3>1. PICK i \in 1..Len(x) : x[i].type = "DATA" /\ x[i].n # 0 /\ v = x[i].n
      BY <2>2, InNumbers
    <3>2. i + 1 \in 1..Len(y) /\ y[i + 1] = x[i]
      BY <1>3
    <3> QED  BY <3>1, <3>2, InNumbers
  <2>3. ASSUME v \in Num(b) PROVE v \in Numbers(y)
    <3>1. b.type = "DATA" /\ v = b.n
      BY <2>3 DEF Num
    <3> QED  BY <1>3, <1>4, <3>1, InNumbers
  <2> QED  BY <2>1, <2>2, <2>3
<1>6. ASSUME \A v \in Numbers(x), u \in Num(b): u < v PROVE Sorted(y)
  <2> SUFFICES ASSUME NEW i \in 1..Len(y), NEW j \in 1..Len(y), i < j,
                      y[i].type = "DATA", y[j].type = "DATA"
               PROVE  y[i].n < y[j].n
    BY DEF Sorted
  <2>1. j - 1 \in 1..Len(x) /\ y[j] = x[j - 1]
    BY <1>0, <1>2
  <2>2. CASE i = 1
    <3>1. y[i] = b
      BY <1>3, <2>2
    <3> QED  BY <1>6, <2>1, <3>1, NumbersNat DEF Num
  <2>3. CASE i - 1 \in 1..Len(x) /\ y[i] = x[i - 1]
    <3>1. i - 1 < j - 1
      OBVIOUS
    <3> QED  BY <2>1, <2>3, <3>1 DEF Sorted
  <2> QED  BY <1>3, <2>2, <2>3
<1> QED  BY <1>1, <1>5, <1>6

\* Blocks that are not data are taken, or one block.
LEMMA SubNumbers ==
  ASSUME NEW n \in {"ldw", "dzw"}, NEW x \in Items(n), Sorted(x), NEW j \in 0..Len(x)
  PROVE  LET y == SubSeq(x, j + 1, Len(x))
         IN /\ Sorted(y) /\ Numbers(y) \subseteq Numbers(x)
            /\ (\A i \in 1..j: x[i].type # "DATA") => Numbers(y) = Numbers(x)
            /\ j = 1 => /\ Numbers(x) = Num(x[1]) \cup Numbers(y)
                        /\ \A u \in Num(x[1]), v \in Numbers(y): u < v
<1>1. PICK y : y = SubSeq(x, j + 1, Len(x))
  OBVIOUS
<1>0. Len(x) \in Nat /\ y \in Items(n) /\ Len(y) = Len(x) - j
      /\ \A i \in 1..Len(x) - j: y[i] = x[i + j]
  BY <1>1, SubItems, EmptyItems
<1>3. \A i \in 1..Len(y): i + j \in 1..Len(x) /\ x[i + j] = y[i]
  BY <1>0
<1>2. Sorted(y)
  <2> SUFFICES ASSUME NEW a \in 1..Len(y), NEW c \in 1..Len(y), a < c,
                      y[a].type = "DATA", y[c].type = "DATA"
               PROVE  y[a].n < y[c].n
    BY DEF Sorted
  <2>1. a + j < c + j
    BY <1>0
  <2> QED  BY <1>3, <2>1 DEF Sorted
<1>4. Numbers(y) \subseteq Numbers(x)
  BY <1>3, InNumbers
<1>5. \A i \in 1..Len(x): i > j => i - j \in 1..Len(y) /\ y[i - j] = x[i]
  BY <1>0
<1>6. (\A i \in 1..j: x[i].type # "DATA") => Numbers(x) \subseteq Numbers(y)
  <2> SUFFICES ASSUME \A i \in 1..j: x[i].type # "DATA", NEW v \in Numbers(x)
               PROVE  v \in Numbers(y)
    OBVIOUS
  <2>1. PICK i \in 1..Len(x) : x[i].type = "DATA" /\ x[i].n # 0 /\ v = x[i].n
    BY InNumbers
  <2>2. i > j
    BY <1>0, <2>1
  <2> QED  BY <1>5, <2>1, <2>2, InNumbers
<1>7. ASSUME j = 1
      PROVE  /\ Numbers(x) = Num(x[1]) \cup Numbers(y)
             /\ \A u \in Num(x[1]), v \in Numbers(y): u < v
  <2>1. Num(x[1]) \subseteq Numbers(x)
    BY <1>0, <1>7, NumbersNat DEF Num
  <2>2. ASSUME NEW v \in Numbers(x), v \notin Numbers(y) PROVE v \in Num(x[1])
    <3>1. PICK i \in 1..Len(x) : x[i].type = "DATA" /\ x[i].n # 0 /\ v = x[i].n
      BY InNumbers
    <3>2. ~(i > j)
      BY <1>5, <2>2, <3>1, InNumbers
    <3>3. i = 1
      BY <1>0, <1>7, <3>2
    <3> QED  BY <3>1, <3>3 DEF Num
  <2>3. ASSUME NEW u \in Num(x[1]), NEW v \in Numbers(y) PROVE u < v
    <3>1. PICK i \in 1..Len(y) : y[i].type = "DATA" /\ y[i].n # 0 /\ v = y[i].n
      BY InNumbers
    <3>2. i + 1 \in 1..Len(x) /\ 1 \in 1..Len(x) /\ 1 < i + 1 /\ x[i + 1] = y[i]
      BY <1>0, <1>3, <1>7
    <3>3. x[1].type = "DATA" /\ u = x[1].n
      BY <2>3 DEF Num
    <3> QED  BY <3>1, <3>2, <3>3 DEF Sorted
  <2> QED  BY <1>4, <2>1, <2>2, <2>3
<1> QED  BY <1>1, <1>2, <1>4, <1>6, <1>7

\* A nonempty set of natural numbers has a least element.
LEMMA Least ==
  ASSUME NEW T, T \subseteq Nat, T # {}
  PROVE  \E x \in T : \A y \in T : x <= y
<1>1. \E R : IsWellFoundedOn(R, Nat) /\ \A x, y \in Nat : y < x => <<y, x>> \in R
  <2>1. IsWellFoundedOn(OpToRel(<, Nat), Nat)
    BY NatLessThanWellFounded, Zenon
  <2>2. \A x, y \in Nat : y < x => <<y, x>> \in OpToRel(<, Nat)
    BY Zenon DEF OpToRel
  <2> QED  BY <2>1, <2>2, Zenon
<1>2. PICK R : IsWellFoundedOn(R, Nat) /\ \A x, y \in Nat : y < x => <<y, x>> \in R
  BY <1>1, Zenon
<1>3. PICK x \in T : \A y \in T : ~(<<y, x>> \in R)
  BY <1>2, WFMin
<1>4. \A y \in T : ~(y < x)
  BY <1>2, <1>3
<1> QED  BY <1>3, <1>4

\* The blocks that dzstart skips, and the one behind them.
LEMMA CtlsFacts ==
  ASSUME NEW n, NEW x \in Items(n)
  PROVE  /\ CtlsInFront(x) \in 0..Len(x)
         /\ \A i \in 1..CtlsInFront(x): x[i].type = "CTL"
         /\ CtlsInFront(x) < Len(x) => x[CtlsInFront(x) + 1].type # "CTL"
<1>0. Len(x) \in Nat
  BY EmptyItems
<1> DEFINE T == {j \in 0..Len(x): j = Len(x) \/ x[j + 1].type # "CTL"}
<1>1. Len(x) \in T /\ T \subseteq Nat
  BY <1>0
<1>2. PICK j \in T : \A i \in T : j <= i
  BY <1>1, Least
<1>3. \A i \in 1..j: i - 1 \in 0..Len(x) /\ i - 1 # Len(x) /\ ~(j <= i - 1)
  BY <1>0
<1>4. \A i \in 1..j: x[i].type = "CTL"
  <2> SUFFICES ASSUME NEW i \in 1..j PROVE x[i].type = "CTL"
    OBVIOUS
  <2>1. i - 1 \notin T
    BY <1>2, <1>3
  <2>2. (i - 1) + 1 = i
    OBVIOUS
  <2> QED  BY <1>3, <2>1, <2>2
<1>5. j \in 0..Len(x) /\ (j < Len(x) => x[j + 1].type # "CTL")
  BY <1>0
<1> QED  BY <1>4, <1>5 DEF CtlsInFront

\* In a set of positions there is one with j of them up to it.
LEMMA Nth ==
  ASSUME NEW N \in Nat, NEW at, at \subseteq 1..N, NEW j \in 1..Cardinality(at)
  PROVE  \E i \in at: Cardinality({h \in at: h <= i}) = j
<1> DEFINE upto(i) == {h \in at: h <= i}
           T == {i \in 0..N: Cardinality(upto(i)) >= j}
<1>1. IsFiniteSet(at) /\ Cardinality(at) \in Nat
  <2>1. IsFiniteSet(1..N)
    BY FS_Interval
  <2>2. IsFiniteSet(at)
    BY <2>1, FS_Subset
  <2> QED  BY <2>2, FS_CardinalityType
<1>2. \A i: IsFiniteSet(upto(i)) /\ Cardinality(upto(i)) \in Nat
  <2> SUFFICES ASSUME NEW i PROVE IsFiniteSet(upto(i)) /\ Cardinality(upto(i)) \in Nat
    OBVIOUS
  <2>1. upto(i) \subseteq at
    OBVIOUS
  <2>2. IsFiniteSet(upto(i))
    BY <1>1, <2>1, FS_Subset
  <2> QED  BY <2>2, FS_CardinalityType
<1>a. \A h \in at: h \in Nat /\ h <= N /\ ~(h <= 0)
  OBVIOUS
<1>3. upto(N) = at /\ upto(0) = {}
  BY <1>a
<1>4. N \in T /\ T \subseteq Nat
  BY <1>1, <1>3
<1>5. PICK i \in T : \A y \in T : i <= y
  <2> HIDE DEF T
  <2> QED  BY <1>4, Least
<1>6. i # 0
  <2>1. Cardinality(upto(0)) = 0
    BY <1>3, FS_EmptySet
  <2> HIDE DEF upto
  <2>2. i = 0 => 0 >= j
    BY <2>1
  <2> QED  BY <1>1, <2>2
<1>7. i - 1 \in 0..N /\ ~(i <= i - 1)
  BY <1>6
<1>8. Cardinality(upto(i)) >= j /\ Cardinality(upto(i - 1)) < j
  <2>1. i - 1 \notin T
    BY <1>5, <1>7
  <2> HIDE DEF upto
  <2> QED  BY <1>1, <1>2, <1>7, <2>1
<1>b. /\ i \in Nat /\ ~(i <= i - 1)
      /\ \A h \in at: h <= i <=> h = i \/ h <= i - 1
  BY <1>a
<1>9. i \notin at => upto(i) = upto(i - 1)
  BY <1>b
<1>10. i \in at => upto(i) = upto(i - 1) \cup {i} /\ i \notin upto(i - 1)
  BY <1>b
<1> HIDE DEF upto
<1>11. i \in at
  BY <1>1, <1>2, <1>8, <1>9
<1>12. Cardinality(upto(i)) = Cardinality(upto(i - 1)) + 1
  BY <1>2, <1>10, <1>11, FS_AddElement
<1>13. Cardinality(upto(i)) = j
  BY <1>1, <1>2, <1>8, <1>12
<1> QED  BY <1>11, <1>13 DEF upto

\* What flushq keeps.
LEMMA IoctlsFacts ==
  ASSUME NEW n, NEW x \in Items(n)
  PROVE  /\ Ioctls(x) \in Items(n)
         /\ \A i \in 1..Len(Ioctls(x)): Ioctls(x)[i].type = "IOCTL"
         /\ (\A i \in 1..Len(x): x[i].type # "IOCTL") => Ioctls(x) = <<>>
<1> DEFINE at == {i \in 1..Len(x): x[i].type = "IOCTL"}
           place(j) == CHOOSE i \in at: Cardinality({h \in at: h <= i}) = j
<1>0. Len(x) \in Nat /\ x \in Seq(AnyBlock)
  BY EmptyItems DEF Items
<1>1. Cardinality(at) \in Nat
  <2>1. IsFiniteSet(1..Len(x))
    BY <1>0, FS_Interval
  <2>2. IsFiniteSet(at)
    BY <2>1, FS_Subset
  <2> QED  BY <2>2, FS_CardinalityType
<1>2. \A j \in 1..Cardinality(at): place(j) \in at
  <2> SUFFICES ASSUME NEW j \in 1..Cardinality(at) PROVE place(j) \in at
    OBVIOUS
  <2>1. at \subseteq 1..Len(x)
    OBVIOUS
  <2>2. \A S: S \subseteq 1..Len(x) => \A c \in 1..Cardinality(S):
          \E i \in S: Cardinality({h \in S: h <= i}) = c
    BY <1>0, Nth
  <2>3. \E i \in at: Cardinality({h \in at: h <= i}) = j
    BY <2>1, <2>2, Zenon
  <2> QED  BY <2>3, Zenon
<1>3. Ioctls(x) = [j \in 1..Cardinality(at) |-> x[place(j)]]
  BY Zenon DEF Ioctls
<1>4. \A i \in at: x[i] \in Fit(n) /\ x[i] \in AnyBlock /\ x[i].type = "IOCTL"
  BY <1>0 DEF Items
<1>5. (\A i \in 1..Len(x): x[i].type # "IOCTL") => at = {}
  OBVIOUS
<1>6. at = {} => Cardinality(at) = 0
  BY FS_EmptySet
<1> HIDE DEF at, place, AnyBlock
<1>7. /\ Ioctls(x) \in Seq(AnyBlock) /\ Len(Ioctls(x)) = Cardinality(at)
      /\ \A j \in 1..Cardinality(at): Ioctls(x)[j] = x[place(j)]
  BY <1>1, <1>2, <1>3, <1>4
<1>8. Ioctls(x) \in Items(n)
  BY <1>2, <1>4, <1>7 DEF Items
<1>9. \A i \in 1..Len(Ioctls(x)): Ioctls(x)[i].type = "IOCTL"
  BY <1>2, <1>4, <1>7
<1>10. (\A i \in 1..Len(x): x[i].type # "IOCTL") => Ioctls(x) = <<>>
  BY <1>5, <1>6, <1>7
<1> QED  BY <1>8, <1>9, <1>10

-----------------------------------------------------------------------------
(* What an operation on a queue does to the queues                         *)

QFlag == {"QENAB", "QWANTR", "QWANTW", "QFULL"}
Queue == [items: Seq(AnyBlock), flag: SUBSET QFlag]

Typed(s) ==
  /\ Shape(s)
  /\ s.q \in [QueueName -> Queue]
  /\ \A n \in QueueName: s.q[n].items \in Items(n)
  /\ s.ld \in [on: BOOLEAN, stop: BOOLEAN]
  /\ s.dz \in [state: SUBSET {"ISOPEN", "DZSTOP", "TIMEOUT"}, carrier: BOOLEAN,
               oblock: Nat, timers: Nat]

\* All but the queues is as it was.
Piped(s, t) == Shape(t) /\ t.ld = s.ld /\ t.dz = s.dz /\ t.q \in [QueueName -> Queue]

On(c, f) == IF c THEN {f} ELSE {}

\* The marks of the queues.
LEMMA Marks ==
  /\ \A n \in QueueName: Limit[n] \in Nat \ {0} /\ Low[n] \in Nat /\ Low[n] < Limit[n]
  /\ Served \subseteq QueueName
BY StreamsAssumption DEF Served, QueueName

\* qenable.
LEMMA QenableFacts ==
  ASSUME NEW s, NEW n, Shape(s), s.q \in [QueueName -> Queue]
  PROVE  LET t == Qenable(s, n)
         IN /\ Piped(s, t) /\ t.lost = s.lost
            /\ \A m \in QueueName:
                 /\ t.q[m].items = s.q[m].items
                 /\ t.q[m].flag = s.q[m].flag \cup On(m = n /\ n \in Served, "QENAB")
<1>1. CASE n \notin Served \/ Has(s, n, "QENAB")
  <2>1. Qenable(s, n) = s
    BY <1>1 DEF Qenable
  <2> QED  BY <1>1, <2>1 DEF Piped, On, Has
<1>2. CASE n \in Served /\ ~Has(s, n, "QENAB")
  <2>1. PICK t : t = Qenable(s, n)
    OBVIOUS
  <2>2. t = [s EXCEPT !.q[n].flag = @ \cup {"QENAB"}, !.run = Append(@, n)]
    BY <1>2, <2>1 DEF Qenable
  <2>3. Shape(t)
    BY <2>1, QenableFramed, FramedShape
  <2>4. t.ld = s.ld /\ t.dz = s.dz /\ t.lost = s.lost
        /\ t.q = [s.q EXCEPT ![n].flag = @ \cup {"QENAB"}]
    BY <2>2 DEF Shape
  <2>5. n \in QueueName
    BY <1>2, Marks
  <2>6. t.q \in [QueueName -> Queue]
        /\ \A m \in QueueName:
             /\ t.q[m].items = s.q[m].items
             /\ t.q[m].flag = s.q[m].flag \cup On(m = n /\ n \in Served, "QENAB")
    BY <1>2, <2>4, <2>5 DEF Queue, QFlag, On
  <2> QED  BY <2>1, <2>3, <2>4, <2>6 DEF Piped
<1> QED  BY <1>1, <1>2

\* putq and putbq: a queue that is wanted for reading is enabled.
LEMMA PutFacts ==
  ASSUME NEW s, NEW n \in QueueName, NEW items \in Items(n), Typed(s)
  PROVE  LET t == Put(s, n, items)
             full == IF Len(items) >= Limit[n] THEN {"QFULL", "QWANTW"} ELSE {}
         IN /\ Piped(s, t) /\ t.lost = s.lost
            /\ t.q[n].items = items
            /\ t.q[n].flag = s.q[n].flag \cup full
                               \cup On("QWANTR" \in s.q[n].flag /\ n \in Served, "QENAB")
            /\ \A m \in QueueName \ {n}: t.q[m] = s.q[m]
<1> DEFINE full == IF Len(items) >= Limit[n] THEN {"QFULL", "QWANTW"} ELSE {}
<1>1. PICK s1 : s1 = [s EXCEPT !.q[n] = [items |-> items, flag |-> @.flag \cup full]]
  OBVIOUS
<1>2. PICK t : t = Put(s, n, items)
  OBVIOUS
<1>3. t = IF Has(s, n, "QWANTR") THEN Qenable(s1, n) ELSE s1
  BY <1>1, <1>2 DEF Put
<1>4. items \in Seq(AnyBlock) /\ full \subseteq QFlag
  BY DEF Items, QFlag
<1> HIDE DEF full
<1>5. /\ Shape(s1) /\ s1.ld = s.ld /\ s1.dz = s.dz /\ s1.lost = s.lost
      /\ s1.q = [s.q EXCEPT ![n] = [items |-> items, flag |-> s.q[n].flag \cup full]]
  BY <1>1 DEF Typed, Shape
<1>6. /\ s1.q \in [QueueName -> Queue]
      /\ s1.q[n].items = items /\ s1.q[n].flag = s.q[n].flag \cup full
      /\ \A m \in QueueName \ {n}: s1.q[m] = s.q[m]
  BY <1>4, <1>5 DEF Typed, Queue
<1>7. CASE ~Has(s, n, "QWANTR")
  BY <1>2, <1>3, <1>5, <1>6, <1>7 DEF Piped, Has, On, full
<1>8. CASE Has(s, n, "QWANTR")
  <2>0. t = Qenable(s1, n) /\ Shape(s1) /\ s1.q \in [QueueName -> Queue]
    BY <1>3, <1>5, <1>6, <1>8
  <2>1. /\ Piped(s1, t) /\ t.lost = s1.lost
        /\ \A m \in QueueName:
             /\ t.q[m].items = s1.q[m].items
             /\ t.q[m].flag = s1.q[m].flag \cup On(m = n /\ n \in Served, "QENAB")
    BY <2>0, QenableFacts
  <2>2. ASSUME NEW m \in QueueName \ {n} PROVE t.q[m] = s.q[m]
    <3>1. t.q[m].items = s.q[m].items /\ t.q[m].flag = s.q[m].flag
      BY <1>6, <2>1 DEF On
    <3>2. t.q[m] \in Queue /\ s.q[m] \in Queue
      BY <2>1 DEF Piped, Typed
    <3> QED  BY <3>1, <3>2 DEF Queue
  <2> QED  BY <1>2, <1>5, <1>6, <1>8, <2>1, <2>2 DEF Piped, Has, On, full
<1> QED  BY <1>7, <1>8

\* The queue behind is another one.
LEMMA BackqOther ==
  ASSUME NEW s, NEW n \in QueueName
  PROVE  Backq(s, n) # n
BY DEF Backq, QueueName

\* Few are left in a queue whose writer wants to know.
Relieved(s, n, items) == Len(items) <= Low[n] /\ "QWANTW" \in s.q[n].flag

\* t is s after getq has left these items in n: the queue behind is enabled when
\* few are left.
LeftTo(s, n, items, set, cleared, t) ==
  /\ Piped(s, t) /\ t.lost = s.lost
  /\ t.q[n].items = items
  /\ t.q[n].flag = (s.q[n].flag \cup set)
       \ (cleared \cup On(Len(items) < Limit[n], "QFULL")
                  \cup On(Relieved(s, n, items), "QWANTW"))
  /\ \A m \in QueueName \ {n}:
       /\ t.q[m].items = s.q[m].items
       /\ t.q[m].flag = s.q[m].flag
            \cup On(Relieved(s, n, items) /\ m = Backq(s, n) /\ m \in Served, "QENAB")

\* getq.
LEMMA LeftFacts ==
  ASSUME NEW s, NEW n \in QueueName, NEW items \in Items(n), NEW set \in SUBSET QFlag,
         NEW cleared, Typed(s)
  PROVE  LeftTo(s, n, items, set, cleared, Left(s, n, items, set, cleared))
<1>0. PICK t : t = Left(s, n, items, set, cleared)
  OBVIOUS
<1> SUFFICES LeftTo(s, n, items, set, cleared, t)
  BY <1>0
<1>1. PICK left : left = (s.q[n].flag \cup set)
                 \ (cleared \cup On(Len(items) < Limit[n], "QFULL")
                            \cup On(Relieved(s, n, items), "QWANTW"))
  OBVIOUS
<1>2. PICK s1 : s1 = [s EXCEPT !.q[n] = [items |-> items, flag |-> left]]
  OBVIOUS
<1>4. PICK back : back = Backq(s, n)
  OBVIOUS
<1>5. t = IF Relieved(s, n, items) THEN Qenable(s1, back) ELSE s1
  BY <1>0, <1>1, <1>2, <1>4 DEF Left, Relieved, On
<1>6. items \in Seq(AnyBlock) /\ left \subseteq QFlag
  BY <1>1 DEF Items, Typed, Queue
<1>7. /\ Shape(s1) /\ s1.ld = s.ld /\ s1.dz = s.dz /\ s1.lost = s.lost
      /\ s1.q = [s.q EXCEPT ![n] = [items |-> items, flag |-> left]]
  BY <1>2 DEF Typed, Shape
<1>8. /\ s1.q \in [QueueName -> Queue]
      /\ s1.q[n].items = items /\ s1.q[n].flag = left
      /\ \A m \in QueueName \ {n}: s1.q[m] = s.q[m]
  BY <1>6, <1>7 DEF Typed, Queue
<1>9. CASE ~Relieved(s, n, items)
  <2>1. t = s1
    BY <1>5, <1>9
  <2>2. On(Relieved(s, n, items) /\ back \in Served, "QENAB") = {}
        /\ \A m: On(Relieved(s, n, items) /\ m = back /\ m \in Served, "QENAB") = {}
    BY <1>9 DEF On
  <2>3. Piped(s, t) /\ t.lost = s.lost /\ t.q[n].items = items /\ t.q[n].flag = left
    BY <1>7, <1>8, <2>1 DEF Piped
  <2>4. \A m \in QueueName \ {n}:
          /\ t.q[m].items = s.q[m].items
          /\ t.q[m].flag = s.q[m].flag
               \cup On(Relieved(s, n, items) /\ m = back /\ m \in Served, "QENAB")
    BY <1>8, <2>1, <2>2
  <2> QED  BY <1>1, <1>4, <2>3, <2>4 DEF LeftTo
<1>10. CASE Relieved(s, n, items)
  <2>0. t = Qenable(s1, back)
    BY <1>5, <1>10
  <2>1. /\ Piped(s1, t) /\ t.lost = s1.lost
        /\ \A m \in QueueName:
             /\ t.q[m].items = s1.q[m].items
             /\ t.q[m].flag = s1.q[m].flag \cup On(m = back /\ back \in Served, "QENAB")
    BY <1>7, <1>8, <2>0, QenableFacts
  <2>2. t.q[n].items = items /\ t.q[n].flag = left
    BY <1>4, <1>8, <2>1, BackqOther DEF On
  <2>3. ASSUME NEW m \in QueueName \ {n}
        PROVE  /\ t.q[m].items = s.q[m].items
               /\ t.q[m].flag = s.q[m].flag
                    \cup On(Relieved(s, n, items) /\ m = back /\ m \in Served, "QENAB")
    BY <1>8, <1>10, <2>1 DEF On
  <2>4. Piped(s, t) /\ t.lost = s.lost
    BY <1>7, <2>1 DEF Piped
  <2> QED  BY <1>1, <1>4, <2>2, <2>3, <2>4 DEF LeftTo
<1> QED  BY <1>9, <1>10

\* What is kept by flushq fits.
LEMMA KeptFacts ==
  ASSUME NEW s, NEW n \in QueueName, NEW all \in BOOLEAN, Typed(s)
  PROVE  /\ Kept(s, n, all) \in Items(n)
         /\ \A i \in 1..Len(Kept(s, n, all)): Kept(s, n, all)[i].type = "IOCTL"
         /\ all \/ n \in {"rd", "ldr"} \/ s.q[n].items = <<>> => Kept(s, n, all) = <<>>
<1>1. s.q[n].items \in Items(n)
  BY DEF Typed
<1>2. n \in {"rd", "ldr"} => \A i \in 1..Len(s.q[n].items): s.q[n].items[i].type # "IOCTL"
  BY <1>1 DEF Items, Fit, Char
<1>3. s.q[n].items = <<>> => \A i \in 1..Len(s.q[n].items): s.q[n].items[i].type # "IOCTL"
  BY EmptyItems
<1>4. <<>> \in Items(n) /\ \A i \in 1..Len(<<>>): <<>>[i].type = "IOCTL"
  BY EmptyItems
<1> QED  BY <1>1, <1>2, <1>3, <1>4, IoctlsFacts DEF Kept

\* flushq.
LEMMA FlushqFacts ==
  ASSUME NEW s, NEW n \in QueueName, NEW all \in BOOLEAN, Typed(s)
  PROVE  LET t == Flushq(s, n, all)
             kept == Kept(s, n, all)
         IN /\ Piped(s, t) /\ t.lost = s.lost \cup Numbers(s.q[n].items)
            /\ t.q[n].items = kept
            /\ "QWANTW" \notin t.q[n].flag
            /\ "QFULL" \in t.q[n].flag => kept # <<>>
            /\ \A f \in {"QENAB", "QWANTR"}: f \in s.q[n].flag => f \in t.q[n].flag
            /\ \A m \in QueueName \ {n}:
                 /\ t.q[m].items = s.q[m].items
                 /\ t.q[m].flag \ {"QENAB"} = s.q[m].flag \ {"QENAB"}
                 /\ "QENAB" \in s.q[m].flag => "QENAB" \in t.q[m].flag
                 /\ "QWANTW" \in s.q[n].flag /\ m = Backq(s, n) /\ m \in Served =>
                      "QENAB" \in t.q[m].flag
<1>1. PICK s0 : s0 = Emptied(s, n, {"QFULL"})
  OBVIOUS
<1>2. PICK kept : kept = Kept(s, n, all)
  OBVIOUS
<1>3. PICK s1 : s1 = PutBack(s0, n, kept)
  OBVIOUS
<1>4. PICK s2 : s2 = [s1 EXCEPT !.q[n].flag = @ \ {"QWANTW"}]
  OBVIOUS
<1>5. PICK t : t = Flushq(s, n, all)
  OBVIOUS
<1>6. t = IF ~Has(s1, n, "QWANTW") THEN s1 ELSE Qenable(s2, Backq(s, n))
  BY <1>1, <1>2, <1>3, <1>4, <1>5 DEF Flushq
<1>7. kept \in Items(n) /\ <<>> \in Items(n)
  BY <1>2, KeptFacts, EmptyItems
<1>8. /\ Shape(s0) /\ s0.ld = s.ld /\ s0.dz = s.dz
      /\ s0.lost = s.lost \cup Numbers(s.q[n].items)
      /\ s0.q = [s.q EXCEPT ![n] = [items |-> <<>>, flag |-> s.q[n].flag \ {"QFULL"}]]
  BY <1>1 DEF Emptied, Typed, Shape
<1>9. /\ s0.q \in [QueueName -> Queue]
      /\ s0.q[n].items = <<>> /\ s0.q[n].flag = s.q[n].flag \ {"QFULL"}
      /\ \A m \in QueueName \ {n}: s0.q[m] = s.q[m]
  BY <1>7, <1>8 DEF Typed, Queue, Items
<1>10. Typed(s0)
  BY <1>7, <1>8, <1>9 DEF Typed
<1>11. /\ Piped(s0, s1) /\ s1.lost = s0.lost
       /\ s1.q[n].items = kept
       /\ "QFULL" \in s1.q[n].flag => kept # <<>>
       /\ \A f \in {"QENAB", "QWANTR", "QWANTW"}: f \in s.q[n].flag => f \in s1.q[n].flag
       /\ \A m \in QueueName \ {n}: s1.q[m] = s.q[m]
  <2>1. CASE kept = <<>>
    BY <1>3, <1>8, <1>9, <2>1 DEF PutBack, Piped
  <2>2. CASE kept # <<>>
    <3>1. s1 = Put(s0, n, kept)
      BY <1>3, <2>2 DEF PutBack
    <3>2. /\ Piped(s0, s1) /\ s1.lost = s0.lost /\ s1.q[n].items = kept
          /\ s0.q[n].flag \subseteq s1.q[n].flag
          /\ \A m \in QueueName \ {n}: s1.q[m] = s0.q[m]
      BY <1>7, <1>10, <3>1, PutFacts
    <3> QED  BY <1>9, <2>2, <3>2
  <2> QED  BY <2>1, <2>2
<1>12. CASE ~Has(s1, n, "QWANTW")
  <2>1. t = s1
    BY <1>6, <1>12
  <2>2. Piped(s, t) /\ t.lost = s.lost \cup Numbers(s.q[n].items)
    BY <1>8, <1>11, <2>1 DEF Piped
  <2>3. "QWANTW" \notin t.q[n].flag /\ "QWANTW" \notin s.q[n].flag
    BY <1>11, <1>12, <2>1 DEF Has
  <2> QED  BY <1>2, <1>5, <1>11, <2>1, <2>2, <2>3
<1>13. CASE Has(s1, n, "QWANTW")
  <2>0. PICK back : back = Backq(s, n)
    OBVIOUS
  <2>1. t = Qenable(s2, back)
    BY <1>6, <1>13, <2>0
  <2>2. /\ Shape(s2) /\ s2.ld = s1.ld /\ s2.dz = s1.dz /\ s2.lost = s1.lost
        /\ s2.q = [s1.q EXCEPT ![n].flag = @ \ {"QWANTW"}]
    BY <1>4, <1>11 DEF Piped, Shape
  <2>3. /\ s2.q \in [QueueName -> Queue]
        /\ s2.q[n].items = s1.q[n].items /\ s2.q[n].flag = s1.q[n].flag \ {"QWANTW"}
        /\ \A m \in QueueName \ {n}: s2.q[m] = s1.q[m]
    BY <1>11, <2>2 DEF Piped, Queue
  <2>a. Shape(s2) /\ s2.q \in [QueueName -> Queue]
    BY <2>2, <2>3
  <2>4. /\ Piped(s2, t) /\ t.lost = s2.lost
        /\ \A m \in QueueName:
             /\ t.q[m].items = s2.q[m].items
             /\ t.q[m].flag = s2.q[m].flag \cup On(m = back /\ back \in Served, "QENAB")
    BY <2>1, <2>a, QenableFacts
  <2>5. t.q[n].items = kept /\ t.q[n].flag = s1.q[n].flag \ {"QWANTW"}
    BY <1>11, <2>0, <2>3, <2>4, BackqOther DEF On
  <2>6. Piped(s, t) /\ t.lost = s.lost \cup Numbers(s.q[n].items)
    BY <1>8, <1>11, <2>2, <2>4 DEF Piped
  <2>7. ASSUME NEW m \in QueueName \ {n}
        PROVE  /\ t.q[m].items = s.q[m].items
               /\ t.q[m].flag \ {"QENAB"} = s.q[m].flag \ {"QENAB"}
               /\ "QENAB" \in s.q[m].flag => "QENAB" \in t.q[m].flag
               /\ "QWANTW" \in s.q[n].flag /\ m = Backq(s, n) /\ m \in Served =>
                    "QENAB" \in t.q[m].flag
    <3>1. t.q[m].items = s.q[m].items
          /\ t.q[m].flag = s.q[m].flag \cup On(m = back /\ back \in Served, "QENAB")
      BY <1>11, <2>3, <2>4
    <3> QED  BY <2>0, <3>1 DEF On
  <2>8. "QWANTW" \notin t.q[n].flag /\ ("QFULL" \in t.q[n].flag => kept # <<>>)
        /\ \A f \in {"QENAB", "QWANTR"}: f \in s.q[n].flag => f \in t.q[n].flag
    BY <1>11, <2>5
  <2> QED  BY <1>2, <1>5, <2>5, <2>6, <2>7, <2>8
<1> QED  BY <1>12, <1>13

-----------------------------------------------------------------------------
(* Flow control: nothing is stranded behind a full queue                   *)

\* The service procedure of n is enabled, it runs (sv), or the queue ahead
\* will enable it.
Serviced(s, sv, n, ahead) == Has(s, n, "QENAB") \/ sv = n \/ Has(s, ahead, "QWANTW")
Fed(s, sv, n, ahead) ==
  /\ s.ld.on => Has(s, n, "QWANTR") \/ Serviced(s, sv, n, ahead)
  /\ s.q[n].items # <<>> => s.ld.on /\ Serviced(s, sv, n, ahead)
Marked(s, n) == Has(s, n, "QWANTW") => Len(s.q[n].items) > Low[n]
Asks(s, n) == Has(s, n, "QFULL") => Has(s, n, "QWANTW")

\* full: the service procedure has found the queue of the line full.
Balanced(s, sv, full) ==
  /\ Typed(s)
  /\ \A n \in QueueName: Marked(s, n)
  /\ Asks(s, "rd") /\ Asks(s, "dzw")
  /\ Fed(s, sv, "ldw", "dzw") /\ Fed(s, sv, "ldr", "rd")
  /\ full => s.ld.on /\ Serviced(s, "none", "ldw", "dzw")

Queues == {"rd", "ldr", "ldw", "dzw"}

\* putq and putbq.
LEMMA PutBalanced ==
  ASSUME NEW s, NEW sv, NEW full \in BOOLEAN, NEW n \in Queues, NEW items \in Items(n),
         Balanced(s, sv, full), Len(items) >= Len(s.q[n].items),
         n \in {"ldr", "ldw"} => s.ld.on
  PROVE  Balanced(Put(s, n, items), sv, full)
<1>1. PICK t : t = Put(s, n, items)
  OBVIOUS
<1>0. n \in QueueName /\ Typed(s) /\ {"rd", "ldr", "ldw", "dzw"} \subseteq QueueName
  BY DEF Queues, QueueName, Balanced
<1>2. /\ Piped(s, t)
      /\ t.q[n].items = items
      /\ s.q[n].flag \subseteq t.q[n].flag
      /\ \A f \in {"QFULL", "QWANTW"}:
           f \in t.q[n].flag => f \in s.q[n].flag \/ Len(items) >= Limit[n]
      /\ Len(items) >= Limit[n] => "QWANTW" \in t.q[n].flag
      /\ "QWANTR" \in s.q[n].flag /\ n \in Served => "QENAB" \in t.q[n].flag
      /\ \A m \in QueueName \ {n}: t.q[m] = s.q[m]
  BY <1>0, <1>1, PutFacts DEF On
<1>3. \A m \in QueueName: \A f: Has(s, m, f) => Has(t, m, f)
  BY <1>2 DEF Has
<1>4. Typed(t)
  BY <1>0, <1>2 DEF Typed, Piped
<1>5. Len(items) \in Nat /\ Len(s.q[n].items) \in Nat
  BY <1>0, EmptyItems DEF Typed
<1>6. ASSUME NEW m \in QueueName PROVE Marked(t, m)
  <2>1. Marked(s, m)
    BY DEF Balanced
  <2>2. CASE m # n
    BY <1>2, <2>1, <2>2 DEF Marked, Has
  <2>3. CASE m = n
    BY <1>0, <1>2, <1>5, <2>1, <2>3, Marks DEF Marked, Has
  <2> QED  BY <2>2, <2>3
<1>7. ASSUME NEW m \in {"rd", "dzw"} PROVE Asks(t, m)
  BY <1>0, <1>2 DEF Balanced, Asks, Has
<1>8. ASSUME NEW m \in {"ldw", "ldr"}, NEW ahead \in {"dzw", "rd"}, Fed(s, sv, m, ahead)
      PROVE  Fed(t, sv, m, ahead)
  <2>1. Serviced(s, sv, m, ahead) => Serviced(t, sv, m, ahead)
    BY <1>0, <1>3 DEF Serviced
  <2>2. t.ld = s.ld
    BY <1>2 DEF Piped
  <2>3. CASE m # n
    BY <1>0, <1>2, <1>3, <1>8, <2>1, <2>2, <2>3 DEF Fed
  <2>4. CASE m = n
    <3>1. s.ld.on
      BY <2>4
    <3>2. Has(s, m, "QWANTR") => Has(t, m, "QENAB")
      BY <1>2, <2>4 DEF Has, Served
    <3>3. Serviced(t, sv, m, ahead)
      BY <1>8, <2>1, <3>1, <3>2 DEF Fed, Serviced
    <3> QED  BY <2>2, <3>1, <3>3 DEF Fed
  <2> QED  BY <2>3, <2>4
<1>9. full => t.ld.on /\ Serviced(t, "none", "ldw", "dzw")
  BY <1>0, <1>2, <1>3 DEF Balanced, Serviced, Piped
<1> QED  BY <1>1, <1>4, <1>6, <1>7, <1>8, <1>9 DEF Balanced

\* Blocks are taken: when that relieves the queue, the one behind is enabled.
LEMMA LeftBalanced ==
  ASSUME NEW s, NEW sv, NEW full \in BOOLEAN, NEW n \in Queues, NEW items \in Items(n),
         NEW set \in SUBSET {"QWANTR"}, NEW cleared \in SUBSET {"QWANTR"},
         Balanced(s, sv, full), Len(items) <= Len(s.q[n].items),
         cleared # {} => s.q[n].items # <<>>
  PROVE  Balanced(Left(s, n, items, set, cleared), sv, full)
<1>1. PICK t : t = Left(s, n, items, set, cleared)
  OBVIOUS
<1>0. n \in QueueName /\ Typed(s) /\ {"rd", "ldr", "ldw", "dzw"} \subseteq QueueName
  BY DEF Queues, QueueName, Balanced
<1> DEFINE relieved == Relieved(s, n, items)
<1>2. /\ Piped(s, t)
      /\ t.q[n].items = items
      /\ t.q[n].flag = (s.q[n].flag \cup set) \
           (cleared \cup On(Len(items) < Limit[n], "QFULL")
                    \cup On(relieved, "QWANTW"))
      /\ \A m \in QueueName \ {n}:
           /\ t.q[m].items = s.q[m].items
           /\ t.q[m].flag = s.q[m].flag
                \cup On(relieved /\ m = Backq(s, n) /\ m \in Served, "QENAB")
  <2>1. set \in SUBSET QFlag /\ n \in QueueName /\ Typed(s)
    BY <1>0 DEF QFlag
  <2>2. LeftTo(s, n, items, set, cleared, t)
    BY <1>1, <2>1, LeftFacts
  <2> QED  BY <2>2 DEF LeftTo
<1>3. /\ \A f \in {"QFULL", "QWANTW", "QENAB"}: f \in t.q[n].flag => f \in s.q[n].flag
      /\ "QENAB" \in s.q[n].flag => "QENAB" \in t.q[n].flag
      /\ "QWANTR" \in s.q[n].flag /\ cleared = {} => "QWANTR" \in t.q[n].flag
      /\ "QWANTW" \in s.q[n].flag => "QWANTW" \in t.q[n].flag \/ relieved
      /\ "QWANTW" \in t.q[n].flag => ~relieved
      /\ "QFULL" \in t.q[n].flag => Len(items) >= Limit[n]
  <2>1. Len(items) \in Nat /\ Limit[n] \in Nat
    BY <1>0, EmptyItems, Marks
  <2>2. relieved => "QWANTW" \in s.q[n].flag
    BY DEF Relieved
  <2> HIDE DEF relieved
  <2> QED  BY <1>2, <2>1, <2>2 DEF On
<1>4. \A m \in QueueName \ {n}:
        /\ \A f: Has(s, m, f) => Has(t, m, f)
        /\ \A f \in {"QFULL", "QWANTW", "QWANTR"}: Has(t, m, f) => Has(s, m, f)
  BY <1>2 DEF Has, On
<1>5. s.ld.on /\ n = "dzw" /\ relieved => Has(t, "ldw", "QENAB")
  BY <1>0, <1>2 DEF Has, On, Backq, Served
<1>6. s.ld.on /\ n = "rd" /\ relieved => Has(t, "ldr", "QENAB")
  BY <1>0, <1>2 DEF Has, On, Backq, Served
<1>7. Typed(t)
  <2>1. \A m \in QueueName: t.q[m].items \in Items(m)
    BY <1>0, <1>2 DEF Typed
  <2> QED  BY <1>0, <1>2, <2>1 DEF Typed, Piped
<1>8. /\ Len(items) \in Nat /\ Len(s.q[n].items) \in Nat /\ Low[n] \in Nat /\ Limit[n] \in Nat
      /\ Low[n] < Limit[n]
      /\ (items # <<>> => s.q[n].items # <<>>)
  <2>1. s.q[n].items \in Items(n)
    BY <1>0 DEF Typed
  <2>2. Len(items) \in Nat /\ Len(s.q[n].items) \in Nat /\ (items = <<>> <=> Len(items) = 0)
        /\ (s.q[n].items = <<>> <=> Len(s.q[n].items) = 0)
    BY <2>1, EmptyItems
  <2> QED  BY <1>0, <2>2, Marks
<1>9. ASSUME NEW m \in QueueName PROVE Marked(t, m)
  <2>1. Marked(s, m)
    BY DEF Balanced
  <2>2. CASE m # n
    BY <1>2, <1>4, <2>1, <2>2 DEF Marked
  <2>3. CASE m = n
    BY <1>2, <1>3, <1>8, <2>1, <2>3 DEF Marked, Has, Relieved
  <2> QED  BY <2>2, <2>3
<1>10. ASSUME NEW m \in {"rd", "dzw"} PROVE Asks(t, m)
  <2>1. Asks(s, m) /\ m \in QueueName
    BY <1>0 DEF Balanced
  <2>2. CASE m # n
    BY <1>4, <2>1, <2>2 DEF Asks
  <2>3. CASE m = n
    BY <1>3, <1>8, <2>1, <2>3 DEF Asks, Has, Relieved
  <2> QED  BY <2>2, <2>3
<1>11. t.ld = s.ld
  BY <1>2 DEF Piped
<1>12. s.ld.on /\ Has(s, "dzw", "QWANTW") => Has(t, "dzw", "QWANTW") \/ Has(t, "ldw", "QENAB")
  BY <1>0, <1>3, <1>4, <1>5 DEF Has
<1>13. s.ld.on /\ Has(s, "rd", "QWANTW") => Has(t, "rd", "QWANTW") \/ Has(t, "ldr", "QENAB")
  BY <1>0, <1>3, <1>4, <1>6 DEF Has
<1>14. \A m \in QueueName: Has(s, m, "QENAB") => Has(t, m, "QENAB")
  BY <1>3, <1>4 DEF Has
<1> HIDE DEF relieved
<1>15. ASSUME NEW m \in {"ldw", "ldr"}, NEW ahead,
             <<m, ahead>> \in {<<"ldw", "dzw">>, <<"ldr", "rd">>},
             Fed(s, sv, m, ahead)
       PROVE  Fed(t, sv, m, ahead)
  <2>1. s.ld.on /\ Serviced(s, sv, m, ahead) => Serviced(t, sv, m, ahead)
    BY <1>0, <1>12, <1>13, <1>14, <1>15 DEF Serviced
  <2>2. t.q[m].items # <<>> => s.q[m].items # <<>>
    BY <1>0, <1>2, <1>8
  <2>3. s.ld.on => Has(t, m, "QWANTR") \/ Serviced(t, sv, m, ahead)
    <3>1. CASE m = n /\ cleared # {}
      <4>1. s.q[m].items # <<>>
        BY <3>1
      <4> QED  BY <1>15, <2>1, <4>1 DEF Fed
    <3>2. CASE m # n \/ cleared = {}
      <4>1. Has(s, m, "QWANTR") => Has(t, m, "QWANTR")
        BY <1>0, <1>3, <1>4, <3>2 DEF Has
      <4> QED  BY <1>15, <2>1, <4>1 DEF Fed
    <3> QED  BY <3>1, <3>2
  <2> QED  BY <1>11, <1>15, <2>1, <2>2, <2>3 DEF Fed
<1>16. full => t.ld.on /\ Serviced(t, "none", "ldw", "dzw")
  BY <1>0, <1>11, <1>12, <1>14 DEF Balanced, Serviced
<1>17. Fed(t, sv, "ldw", "dzw") /\ Fed(t, sv, "ldr", "rd")
  BY <1>15 DEF Balanced
<1> QED  BY <1>1, <1>7, <1>9, <1>10, <1>16, <1>17 DEF Balanced

\* getq.  A queue that was empty is wanted for reading, or enabled.
LEMMA GetqBalanced ==
  ASSUME NEW s, NEW sv, NEW full \in BOOLEAN, NEW n \in Queues, Balanced(s, sv, full)
  PROVE  /\ Balanced(Getq(s, n), sv, full)
         /\ \A j \in 0..Len(s.q[n].items): Balanced(GetFirst(s, n, j), sv, full)
         /\ s.q[n].items = <<>> =>
              Has(Getq(s, n), n, "QWANTR") \/ Has(Getq(s, n), n, "QENAB")
<1>0. n \in QueueName /\ Typed(s) /\ s.q[n].items \in Items(n)
  BY DEF Queues, QueueName, Balanced, Typed
<1>1. Len(s.q[n].items) \in Nat /\ (s.q[n].items = <<>> <=> Len(s.q[n].items) = 0)
  BY <1>0, EmptyItems
<1>2. ASSUME NEW j \in 0..Len(s.q[n].items) PROVE Balanced(GetFirst(s, n, j), sv, full)
  <2>1. CASE j = 0
    BY <2>1 DEF GetFirst
  <2>2. CASE j # 0
    <3>1. PICK items : items = SubSeq(s.q[n].items, j + 1, Len(s.q[n].items))
      OBVIOUS
    <3>2. items \in Items(n) /\ Len(items) <= Len(s.q[n].items)
      BY <1>0, <1>1, <3>1, SubItems
    <3>3. GetFirst(s, n, j) = Left(s, n, items, {}, {"QWANTR"})
      BY <2>2, <3>1 DEF GetFirst
    <3>4. s.q[n].items # <<>>
      BY <1>1, <2>2
    <3> QED  BY <3>2, <3>3, <3>4, LeftBalanced
  <2> QED  BY <2>1, <2>2
<1>3. ASSUME s.q[n].items = <<>>
      PROVE  /\ Balanced(Getq(s, n), sv, full)
             /\ Has(Getq(s, n), n, "QWANTR") \/ Has(Getq(s, n), n, "QENAB")
  <2>1. PICK set : set = IF Has(s, n, "QENAB") THEN {} ELSE {"QWANTR"}
    OBVIOUS
  <2>2. PICK t : t = Left(s, n, <<>>, set, {})
    OBVIOUS
  <2>3. Getq(s, n) = t
    BY <1>3, <2>1, <2>2 DEF Getq, GetNone
  <2>4. <<>> \in Items(n) /\ Len(<<>>) = 0
    BY EmptyItems
  <2>5. set \in SUBSET {"QWANTR"} /\ set \in SUBSET QFlag
    BY <2>1 DEF QFlag
  <2>6. Balanced(t, sv, full)
    BY <1>1, <2>2, <2>4, <2>5, LeftBalanced
  <2>7. t.q[n].flag = (s.q[n].flag \cup set) \
          ({} \cup On(Len(<<>>) < Limit[n], "QFULL") \cup On(Relieved(s, n, <<>>), "QWANTW"))
    <3>1. LeftTo(s, n, <<>>, set, {}, t)
      BY <1>0, <2>2, <2>4, <2>5, LeftFacts
    <3> QED  BY <3>1 DEF LeftTo
  <2>8. "QWANTR" \in t.q[n].flag \/ "QENAB" \in t.q[n].flag
    <3>1. "QENAB" \in s.q[n].flag \/ "QWANTR" \in set
      BY <2>1 DEF Has
    <3> QED  BY <2>7, <3>1 DEF On
  <2> QED  BY <2>3, <2>6, <2>8 DEF Has
<1>4. s.q[n].items # <<>> => Balanced(Getq(s, n), sv, full)
  BY <1>1, <1>2 DEF Getq
<1> QED  BY <1>2, <1>3, <1>4

\* flushq.
LEMMA FlushqBalanced ==
  ASSUME NEW s, NEW sv, NEW full \in BOOLEAN, NEW n \in Queues, NEW all \in BOOLEAN,
         Balanced(s, sv, full), n = "dzw" => all
  PROVE  Balanced(Flushq(s, n, all), sv, full)
<1>1. PICK t : t = Flushq(s, n, all)
  OBVIOUS
<1>0. n \in QueueName /\ Typed(s) /\ {"rd", "ldr", "ldw", "dzw"} \subseteq QueueName
  BY DEF Queues, QueueName, Balanced
<1>2. PICK kept : kept = Kept(s, n, all)
  OBVIOUS
<1>3. /\ kept \in Items(n)
      /\ all \/ n \in {"rd", "ldr"} \/ s.q[n].items = <<>> => kept = <<>>
  BY <1>0, <1>2, KeptFacts
<1>4. /\ Piped(s, t)
      /\ t.q[n].items = kept
      /\ "QWANTW" \notin t.q[n].flag
      /\ "QFULL" \in t.q[n].flag => kept # <<>>
      /\ \A f \in {"QENAB", "QWANTR"}: f \in s.q[n].flag => f \in t.q[n].flag
      /\ \A m \in QueueName \ {n}:
           /\ t.q[m].items = s.q[m].items
           /\ t.q[m].flag \ {"QENAB"} = s.q[m].flag \ {"QENAB"}
           /\ "QENAB" \in s.q[m].flag => "QENAB" \in t.q[m].flag
           /\ "QWANTW" \in s.q[n].flag /\ m = Backq(s, n) /\ m \in Served =>
                "QENAB" \in t.q[m].flag
  BY <1>0, <1>1, <1>2, FlushqFacts
<1>5. \A m \in QueueName \ {n}:
        \A f \in {"QFULL", "QWANTW", "QWANTR"}: Has(t, m, f) <=> Has(s, m, f)
  BY <1>4 DEF Has
<1>6. Typed(t)
  <2>1. \A m \in QueueName: t.q[m].items \in Items(m)
    BY <1>0, <1>3, <1>4 DEF Typed
  <2> QED  BY <1>0, <1>4, <2>1 DEF Typed, Piped
<1>7. ASSUME NEW m \in QueueName PROVE Marked(t, m)
  <2>1. Marked(s, m)
    BY DEF Balanced
  <2>2. CASE m # n
    BY <1>4, <1>5, <2>1, <2>2 DEF Marked
  <2>3. CASE m = n
    BY <1>4, <2>3 DEF Marked, Has
  <2> QED  BY <2>2, <2>3
<1>8. ASSUME NEW m \in {"rd", "dzw"} PROVE Asks(t, m)
  <2>1. Asks(s, m) /\ m \in QueueName
    BY <1>0 DEF Balanced
  <2>2. CASE m # n
    BY <1>5, <2>1, <2>2 DEF Asks
  <2>3. CASE m = n
    BY <1>3, <1>4, <2>3 DEF Asks, Has
  <2> QED  BY <2>2, <2>3
<1>9. t.ld = s.ld
  BY <1>4 DEF Piped
<1>10. s.ld.on /\ Has(s, "dzw", "QWANTW") => Has(t, "dzw", "QWANTW") \/ Has(t, "ldw", "QENAB")
  BY <1>0, <1>4, <1>5 DEF Has, Backq, Served
<1>11. s.ld.on /\ Has(s, "rd", "QWANTW") => Has(t, "rd", "QWANTW") \/ Has(t, "ldr", "QENAB")
  BY <1>0, <1>4, <1>5 DEF Has, Backq, Served
<1>12. \A m \in QueueName: /\ Has(s, m, "QENAB") => Has(t, m, "QENAB")
                           /\ Has(s, m, "QWANTR") => Has(t, m, "QWANTR")
  BY <1>4, <1>5 DEF Has
<1>13. ASSUME NEW m \in {"ldw", "ldr"}, NEW ahead,
             <<m, ahead>> \in {<<"ldw", "dzw">>, <<"ldr", "rd">>},
             Fed(s, sv, m, ahead)
       PROVE  Fed(t, sv, m, ahead)
  <2>1. s.ld.on /\ Serviced(s, sv, m, ahead) => Serviced(t, sv, m, ahead)
    BY <1>0, <1>10, <1>11, <1>12, <1>13 DEF Serviced
  <2>2. t.q[m].items # <<>> => s.q[m].items # <<>>
    BY <1>0, <1>3, <1>4
  <2>3. Has(s, m, "QWANTR") => Has(t, m, "QWANTR")
    BY <1>0, <1>12
  <2> QED  BY <1>9, <1>13, <2>1, <2>2, <2>3 DEF Fed
<1>14. full => t.ld.on /\ Serviced(t, "none", "ldw", "dzw")
  BY <1>0, <1>9, <1>10, <1>12 DEF Balanced, Serviced
<1>15. Fed(t, sv, "ldw", "dzw") /\ Fed(t, sv, "ldr", "rd")
  BY <1>13 DEF Balanced
<1> QED  BY <1>1, <1>6, <1>7, <1>8, <1>14, <1>15 DEF Balanced

-----------------------------------------------------------------------------
(* The order of the output: sent, then the block in transmission, the queue *)
(* of the line, the block ttyosrv holds, and the queue of ttyld             *)

Below(X, Z) == \A x \in X, z \in Z: x < z
Chain(S, A, B, H, D) ==
  /\ Below(S, A) /\ Below(S, B) /\ Below(S, H) /\ Below(S, D)
  /\ Below(A, B) /\ Below(A, H) /\ Below(A, D)
  /\ Below(B, H) /\ Below(B, D) /\ Below(H, D)

\* Of w blocks written, S have been sent, the block o is in transmission, x and
\* y are the queues, H is held, and the others are lost.
Order(S, o, x, H, y, lost, w) ==
  /\ Sorted(x) /\ Sorted(y)
  /\ Chain(S, {o} \ {0}, Numbers(x), H, Numbers(y))
  /\ 1..w = S \cup lost \cup ({o} \ {0}) \cup Numbers(x) \cup H \cup Numbers(y)
Ordered(s, S, H, w) ==
  Order(S, s.dz.oblock, s.q["dzw"].items, H, s.q["ldw"].items, s.lost, w)

\* The block that is held goes to the end of the line's queue ...
LEMMA OrderPassed ==
  ASSUME NEW S, NEW o, NEW x \in Items("dzw"), NEW H, NEW y, NEW lost, NEW w,
         NEW b \in Fit("dzw"), H = Num(b), Order(S, o, x, H, y, lost, w)
  PROVE  Order(S, o, Append(x, b), {}, y, lost, w)
<1>1. Numbers(Append(x, b)) = Numbers(x) \cup H /\ Sorted(Append(x, b))
  BY AppendNumbers DEF Order, Chain, Below
<1> QED  BY <1>1 DEF Order, Chain, Below

\* ... or back to the front of its own.
LEMMA OrderBack ==
  ASSUME NEW S, NEW o, NEW x, NEW H, NEW y \in Items("ldw"), NEW lost, NEW w,
         NEW b \in Fit("ldw"), H = Num(b), Order(S, o, x, H, y, lost, w)
  PROVE  Order(S, o, x, {}, <<b>> \o y, lost, w)
<1>1. Numbers(<<b>> \o y) = Numbers(y) \cup H /\ Sorted(<<b>> \o y)
  BY FrontNumbers DEF Order, Chain, Below
<1> QED  BY <1>1 DEF Order, Chain, Below

\* The first block is taken.
LEMMA OrderTaken ==
  ASSUME NEW S, NEW o, NEW x, NEW y \in Items("ldw"), NEW lost, NEW w,
         y # <<>>, Order(S, o, x, {}, y, lost, w)
  PROVE  Order(S, o, x, Num(y[1]), SubSeq(y, 2, Len(y)), lost, w)
<1>1. PICK z : z = SubSeq(y, 1 + 1, Len(y))
  OBVIOUS
<1>2. 1 \in 0..Len(y)
  BY EmptyItems
<1>3. /\ Sorted(z) /\ Numbers(y) = Num(y[1]) \cup Numbers(z)
      /\ \A u \in Num(y[1]), v \in Numbers(z): u < v
  BY <1>1, <1>2, SubNumbers DEF Order
<1>4. Order(S, o, x, Num(y[1]), z, lost, w)
  BY <1>3 DEF Order, Chain, Below
<1> QED  BY <1>1, <1>4

\* A block that is not data is put into ttyld's queue.
LEMMA OrderAsked ==
  ASSUME NEW S, NEW o, NEW x, NEW H, NEW y \in Items("ldw"), NEW lost, NEW w,
         NEW b \in Fit("ldw"), b.type # "DATA", Order(S, o, x, H, y, lost, w)
  PROVE  Order(S, o, x, H, Append(y, b), lost, w)
<1>1. Numbers(Append(y, b)) = Numbers(y) /\ Sorted(Append(y, b))
  BY AppendNumbers DEF Order, Num
<1> QED  BY <1>1 DEF Order, Chain, Below

\* The numbers so far, and the next one.
LEMMA NextNumber ==
  ASSUME NEW w \in Nat
  PROVE  /\ 1..(w + 1) = (1..w) \cup {w + 1}
         /\ \A v \in 1..w: v < w + 1
OBVIOUS

\* The next block that is written goes behind all others, into ttyld's queue ...
LEMMA OrderWritten ==
  ASSUME NEW S, NEW o, NEW x, NEW y \in Items("ldw"), NEW lost, NEW w \in Nat,
         NEW b \in Fit("ldw"), b = [type |-> "DATA", n |-> w + 1],
         Order(S, o, x, {}, y, lost, w)
  PROVE  Order(S, o, x, {}, Append(y, b), lost, w + 1)
<1>1. Num(b) = {w + 1}
  BY DEF Num
<1>2. \A v \in S \cup ({o} \ {0}) \cup Numbers(x) \cup Numbers(y): v < w + 1
  BY NextNumber DEF Order
<1>3. Numbers(Append(y, b)) = Numbers(y) \cup {w + 1} /\ Sorted(Append(y, b))
  BY <1>1, <1>2, AppendNumbers DEF Order
<1>4. 1..(w + 1) = (1..w) \cup {w + 1}
  BY NextNumber
<1>5. Chain(S, {o} \ {0}, Numbers(x), {}, Numbers(Append(y, b)))
  BY <1>2, <1>3 DEF Order, Chain, Below
<1> HIDE DEF Chain
<1> QED  BY <1>3, <1>4, <1>5 DEF Order

\* ... or into that of the line.
LEMMA OrderDirect ==
  ASSUME NEW S, NEW o, NEW x \in Items("dzw"), NEW lost, NEW w \in Nat,
         NEW b \in Fit("dzw"), b = [type |-> "DATA", n |-> w + 1],
         Order(S, o, x, {}, <<>>, lost, w)
  PROVE  Order(S, o, Append(x, b), {}, <<>>, lost, w + 1)
<1>1. Num(b) = {w + 1}
  BY DEF Num
<1>2. \A v \in S \cup ({o} \ {0}) \cup Numbers(x): v < w + 1
  BY NextNumber DEF Order
<1>3. Numbers(Append(x, b)) = Numbers(x) \cup {w + 1} /\ Sorted(Append(x, b))
  BY <1>1, <1>2, AppendNumbers DEF Order
<1>4. 1..(w + 1) = (1..w) \cup {w + 1}
  BY NextNumber
<1>5. Chain(S, {o} \ {0}, Numbers(Append(x, b)), {}, Numbers(<<>>))
  BY <1>2, <1>3, EmptyNumbers DEF Order, Chain, Below
<1> QED  BY <1>3, <1>4, <1>5 DEF Order

\* Blocks that are not data leave the line's queue.
LEMMA OrderSkipped ==
  ASSUME NEW S, NEW o, NEW x \in Items("dzw"), NEW H, NEW y, NEW lost, NEW w,
         NEW j \in 0..Len(x), \A i \in 1..j: x[i].type # "DATA",
         Order(S, o, x, H, y, lost, w)
  PROVE  Order(S, o, SubSeq(x, j + 1, Len(x)), H, y, lost, w)
<1>1. Numbers(SubSeq(x, j + 1, Len(x))) = Numbers(x) /\ Sorted(SubSeq(x, j + 1, Len(x)))
  BY SubNumbers DEF Order
<1> QED  BY <1>1 DEF Order

\* The first block of the line's queue is transmitted ...
LEMMA OrderStarted ==
  ASSUME NEW S, NEW x \in Items("dzw"), NEW H, NEW y, NEW lost, NEW w,
         x # <<>>, x[1].type = "DATA", Order(S, 0, x, H, y, lost, w)
  PROVE  Order(S, x[1].n, SubSeq(x, 2, Len(x)), H, y, lost, w)
<1>1. PICK z : z = SubSeq(x, 1 + 1, Len(x))
  OBVIOUS
<1>2. 1 \in 0..Len(x) /\ 1 \in 1..Len(x)
  BY EmptyItems
<1>3. /\ Sorted(z) /\ Numbers(x) = Num(x[1]) \cup Numbers(z)
      /\ \A u \in Num(x[1]), v \in Numbers(z): u < v
  BY <1>1, <1>2, SubNumbers DEF Order
<1>4. Num(x[1]) = {x[1].n} \ {0}
  <2>1. x[1].n # 0
    BY <1>2, NumbersNat
  <2> QED  BY <2>1 DEF Num
<1>5. Order(S, x[1].n, z, H, y, lost, w)
  BY <1>3, <1>4 DEF Order, Chain, Below
<1> QED  BY <1>1, <1>5

\* ... or what is transmitted goes back to its front.
LEMMA OrderStopped ==
  ASSUME NEW S, NEW o, o # 0, NEW x \in Items("dzw"), NEW H, NEW y, NEW lost, NEW w,
         NEW b \in Fit("dzw"), b = [type |-> "DATA", n |-> o], Order(S, o, x, H, y, lost, w)
  PROVE  Order(S, 0, <<b>> \o x, H, y, lost, w)
<1>1. Num(b) = {o} \ {0}
  BY DEF Num
<1>2. Numbers(<<b>> \o x) = Numbers(x) \cup ({o} \ {0}) /\ Sorted(<<b>> \o x)
  BY <1>1, FrontNumbers DEF Order, Chain, Below
<1> QED  BY <1>2 DEF Order, Chain, Below

\* Transmission ends.
LEMMA OrderSent ==
  ASSUME NEW S, NEW o, o # 0, NEW x, NEW H, NEW y, NEW lost, NEW w,
         Order(S, o, x, H, y, lost, w)
  PROVE  Order(S \cup {o}, 0, x, H, y, lost, w)
BY DEF Order, Chain, Below

\* Blocks are thrown away: of ttyld's queue, of the line's, in transmission.
LEMMA OrderLost ==
  ASSUME NEW S, NEW o, NEW x, NEW H, NEW y, NEW lost, NEW w, Order(S, o, x, H, y, lost, w)
  PROVE  /\ \A z: Numbers(z) = {} /\ Sorted(z) =>
              Order(S, o, x, H, z, lost \cup Numbers(y), w)
         /\ Order(S, o, <<>>, H, y, lost \cup Numbers(x), w)
         /\ Order(S, 0, x, H, y, lost \cup ({o} \ {0}), w)
<1>1. ASSUME NEW z, Numbers(z) = {}, Sorted(z)
      PROVE  Order(S, o, x, H, z, lost \cup Numbers(y), w)
  BY <1>1 DEF Order, Chain, Below
<1>2. Order(S, o, <<>>, H, y, lost \cup Numbers(x), w)
  BY EmptyNumbers DEF Order, Chain, Below
<1>3. Order(S, 0, x, H, y, lost \cup ({o} \ {0}), w)
  BY DEF Order, Chain, Below
<1> QED  BY <1>1, <1>2, <1>3

-----------------------------------------------------------------------------
(* What every operation below the head keeps                               *)

IsOpen(s) == "ISOPEN" \in s.dz.state

\* TIMEOUT is set while a callout is pending; a line that is closed has nothing
\* on it and nothing to send.
Loose(s) ==
  /\ "TIMEOUT" \in s.dz.state => s.dz.timers > 0
  /\ ~IsOpen(s) => ~s.ld.on /\ s.q["dzw"].items = <<>>

\* What the line's queue waits for: it holds except between putq and dzstart.
Busy(s) == s.q["dzw"].items # <<>> =>
  s.dz.oblock # 0 \/ "DZSTOP" \in s.dz.state \/ "TIMEOUT" \in s.dz.state

Steady(s, sv, full, S, H, w) ==
  Balanced(s, sv, full) /\ Loose(s) /\ Ordered(s, S, H, w)

\* The modules and the line are as they were.
Plumbed(s, t) == t.ld.on = s.ld.on /\ (IsOpen(t) <=> IsOpen(s))

\* One operation after another.
LEMMA PlumbedOn ==
  ASSUME NEW s, NEW t, NEW v, Plumbed(s, t), Plumbed(t, v)
  PROVE  Plumbed(s, v)
BY DEF Plumbed

\* What is below the head is as it was.
Alike(s, t) == Shape(t) /\ t.q = s.q /\ t.ld = s.ld /\ t.dz = s.dz /\ t.lost = s.lost

\* A step that changes the head, the sleepers or the files.
LEMMA AlikeSteady ==
  ASSUME NEW s, NEW t, Alike(s, t), NEW sv, NEW full, NEW S, NEW H, NEW w
  PROVE  /\ Steady(s, sv, full, S, H, w) => Steady(t, sv, full, S, H, w)
         /\ Plumbed(s, t) /\ (Busy(s) => Busy(t))
         /\ \A n, f: Has(t, n, f) <=> Has(s, n, f)
<1>1. \A n, f: Has(t, n, f) <=> Has(s, n, f)
  BY DEF Alike, Has
<1>2. Typed(s) => Typed(t)
  BY DEF Alike, Typed
<1>3. Balanced(s, sv, full) => Balanced(t, sv, full)
  BY <1>1, <1>2 DEF Alike, Balanced, Marked, Asks, Fed, Serviced
<1>4. (Loose(s) => Loose(t)) /\ Plumbed(s, t) /\ (Busy(s) => Busy(t))
  BY DEF Alike, Loose, Plumbed, Busy, IsOpen
<1>5. Ordered(s, S, H, w) => Ordered(t, S, H, w)
  BY DEF Alike, Ordered
<1> QED  BY <1>1, <1>3, <1>4, <1>5 DEF Steady

\* The queues of the line and of ttyld for output are as they were.
Upward(s, t) ==
  /\ t.ld = s.ld /\ t.dz = s.dz /\ t.lost = s.lost
  /\ t.q["dzw"].items = s.q["dzw"].items /\ t.q["ldw"].items = s.q["ldw"].items

\* A step that changes the queues upwards only.
LEMMA UpwardSteady ==
  ASSUME NEW s, NEW t, Upward(s, t), NEW sv, NEW full, NEW S, NEW H, NEW w,
         Steady(s, sv, full, S, H, w), Balanced(t, sv, full)
  PROVE  Steady(t, sv, full, S, H, w) /\ Plumbed(s, t) /\ (Busy(s) => Busy(t))
<1>1. Loose(t) /\ Plumbed(s, t) /\ (Busy(s) => Busy(t))
  BY DEF Upward, Steady, Loose, Plumbed, Busy, IsOpen
<1>2. Ordered(t, S, H, w)
  BY DEF Upward, Steady, Ordered
<1> QED  BY <1>1, <1>2 DEF Steady

\* The queues that matter here.
LEMMA QueueNames ==
  /\ "rd" \in QueueName /\ "ldr" \in QueueName /\ "ldw" \in QueueName /\ "dzw" \in QueueName
  /\ "rd" \in Queues /\ "ldr" \in Queues /\ "ldw" \in Queues /\ "dzw" \in Queues
BY DEF QueueName, Queues

\* t is s after these items were left in n.
GetTo(s, n, items, t) ==
  /\ Piped(s, t) /\ t.lost = s.lost
  /\ t.q[n].items = items
  /\ \A m \in QueueName \ {n}: t.q[m].items = s.q[m].items

\* What getq leaves.
LEMMA GetFacts ==
  ASSUME NEW s, NEW n \in QueueName, Typed(s), NEW x, x = s.q[n].items
  PROVE  /\ \A j \in 0..Len(x): GetTo(s, n, SubSeq(x, j + 1, Len(x)), GetFirst(s, n, j))
         /\ x = <<>> => GetTo(s, n, <<>>, Getq(s, n))
         /\ x # <<>> => GetTo(s, n, SubSeq(x, 2, Len(x)), Getq(s, n))
<1>0. x \in Items(n) /\ Len(x) \in Nat /\ (x = <<>> <=> Len(x) = 0)
  BY EmptyItems DEF Typed
<1>1. ASSUME NEW items \in Items(n), NEW set \in SUBSET QFlag, NEW cleared
      PROVE  GetTo(s, n, items, Left(s, n, items, set, cleared))
  <2>1. LeftTo(s, n, items, set, cleared, Left(s, n, items, set, cleared))
    BY LeftFacts
  <2> QED  BY <2>1 DEF LeftTo, GetTo
<1>2. ASSUME NEW j \in 0..Len(x)
      PROVE  GetTo(s, n, SubSeq(x, j + 1, Len(x)), GetFirst(s, n, j))
  <2>1. SubSeq(x, j + 1, Len(x)) \in Items(n)
    BY <1>0, SubItems
  <2>2. CASE j = 0
    <3>1. x \in Seq(AnyBlock)
      BY <1>0 DEF Items
    <3> HIDE DEF AnyBlock
    <3>2. SubSeq(x, 1, Len(x)) = x
      BY <3>1
    <3>3. GetFirst(s, n, j) = s /\ j + 1 = 1
      BY <2>2 DEF GetFirst
    <3>4. GetTo(s, n, x, s)
      BY DEF GetTo, Piped, Typed
    <3> QED  BY <3>2, <3>3, <3>4
  <2>3. CASE j # 0
    <3>1. GetFirst(s, n, j) = Left(s, n, SubSeq(x, j + 1, Len(x)), {}, {"QWANTR"})
      BY <2>3 DEF GetFirst
    <3>2. {} \in SUBSET QFlag
      OBVIOUS
    <3> QED  BY <1>1, <2>1, <3>1, <3>2
  <2> QED  BY <2>2, <2>3
<1>3. ASSUME x = <<>> PROVE GetTo(s, n, <<>>, Getq(s, n))
  <2>1. PICK set : set = IF Has(s, n, "QENAB") THEN {} ELSE {"QWANTR"}
    OBVIOUS
  <2>2. set \in SUBSET QFlag
    BY <2>1 DEF QFlag
  <2>3. Getq(s, n) = Left(s, n, <<>>, set, {})
    BY <1>3, <2>1 DEF Getq, GetNone
  <2> QED  BY <1>0, <1>1, <1>3, <2>2, <2>3
<1>4. ASSUME x # <<>> PROVE GetTo(s, n, SubSeq(x, 2, Len(x)), Getq(s, n))
  <2>1. Getq(s, n) = GetFirst(s, n, 1) /\ 1 \in 0..Len(x) /\ 1 + 1 = 2
    BY <1>0, <1>4 DEF Getq
  <2>2. GetTo(s, n, SubSeq(x, 1 + 1, Len(x)), GetFirst(s, n, 1))
    BY <1>2, <2>1
  <2> QED  BY <2>1, <2>2
<1> QED  BY <1>2, <1>3, <1>4

\* Reading upwards: putq, getq and flushq of the queues to the head.
LEMMA UpPut ==
  ASSUME NEW s, NEW sv, NEW full \in BOOLEAN, NEW S, NEW H, NEW w,
         Steady(s, sv, full, S, H, w), NEW n \in {"rd", "ldr"}, NEW items \in Items(n),
         Len(items) >= Len(s.q[n].items), n = "ldr" => s.ld.on
  PROVE  LET t == Put(s, n, items)
         IN Steady(t, sv, full, S, H, w) /\ Plumbed(s, t) /\ (Busy(s) => Busy(t))
<1>1. PICK t : t = Put(s, n, items)
  OBVIOUS
<1>2. n \in QueueName /\ n \in Queues /\ Typed(s) /\ Balanced(s, sv, full)
  BY QueueNames DEF Steady, Balanced
<1>3. Piped(s, t) /\ t.lost = s.lost /\ \A m \in QueueName \ {n}: t.q[m] = s.q[m]
  BY <1>1, <1>2, PutFacts
<1>4. Upward(s, t)
  BY <1>3, QueueNames DEF Upward, Piped
<1>5. Balanced(t, sv, full)
  BY <1>1, <1>2, PutBalanced
<1> QED  BY <1>1, <1>4, <1>5, UpwardSteady

Taken(s, n, t) == t = Getq(s, n) \/ \E j \in 0..Len(s.q[n].items): t = GetFirst(s, n, j)
\* Blocks are taken from a queue to the head ...
LEMMA UpGet ==
  ASSUME NEW s, NEW sv, NEW full \in BOOLEAN, NEW S, NEW H, NEW w,
         Steady(s, sv, full, S, H, w), NEW n \in {"rd", "ldr"}, NEW t,
         Taken(s, n, t)
  PROVE  Steady(t, sv, full, S, H, w) /\ Plumbed(s, t) /\ (Busy(s) => Busy(t))
<1>2. n \in QueueName /\ n \in Queues /\ Typed(s) /\ Balanced(s, sv, full)
  BY QueueNames DEF Steady, Balanced
<1>3. Balanced(t, sv, full)
  BY <1>2, GetqBalanced DEF Taken
<1>4. \E items: GetTo(s, n, items, t)
  BY <1>2, GetFacts DEF Taken
<1>5. Upward(s, t)
  BY <1>4, QueueNames DEF GetTo, Piped, Upward
<1> QED  BY <1>3, <1>5, UpwardSteady

\* ... or thrown away.
LEMMA UpFlush ==
  ASSUME NEW s, NEW sv, NEW full \in BOOLEAN, NEW S, NEW H, NEW w,
         Steady(s, sv, full, S, H, w), NEW n \in {"rd", "ldr"}, NEW all \in BOOLEAN
  PROVE  LET t == Flushq(s, n, all)
         IN /\ Steady(t, sv, full, S, H, w) /\ Plumbed(s, t) /\ (Busy(s) => Busy(t))
            /\ t.q[n].items = <<>>
<1>1. PICK t : t = Flushq(s, n, all)
  OBVIOUS
<1>2. n \in QueueName /\ n \in Queues /\ Typed(s) /\ Balanced(s, sv, full) /\ n # "dzw"
  BY QueueNames DEF Steady, Balanced
<1>3. /\ Piped(s, t) /\ t.lost = s.lost \cup Numbers(s.q[n].items)
      /\ t.q[n].items = Kept(s, n, all)
      /\ \A m \in QueueName \ {n}: t.q[m].items = s.q[m].items
  BY <1>1, <1>2, FlushqFacts
<1>4. Numbers(s.q[n].items) = {}
  BY <1>2, NoNumbers DEF Typed
<1>5. Kept(s, n, all) = <<>>
  BY <1>2, KeptFacts
<1>6. Upward(s, t)
  BY <1>3, <1>4, QueueNames DEF Upward, Piped
<1>7. Balanced(t, sv, full)
  BY <1>1, <1>2, FlushqBalanced
<1> QED  BY <1>1, <1>3, <1>5, <1>6, <1>7, UpwardSteady

\* ttyld's queue for output: putq and putbq, getq, flushq.
LEMMA DownPut ==
  ASSUME NEW s, NEW sv, NEW full \in BOOLEAN, NEW S,
         Balanced(s, sv, full), Loose(s), s.ld.on, NEW items \in Items("ldw"),
         Len(items) >= Len(s.q["ldw"].items), NEW G, NEW v,
         Order(S, s.dz.oblock, s.q["dzw"].items, G, items, s.lost, v)
  PROVE  LET t == Put(s, "ldw", items)
         IN Steady(t, sv, full, S, G, v) /\ Plumbed(s, t) /\ (Busy(s) => Busy(t))
<1>1. PICK t : t = Put(s, "ldw", items)
  OBVIOUS
<1>2. Typed(s) /\ Balanced(s, sv, full)
  BY DEF Balanced
<1>3. /\ Piped(s, t) /\ t.lost = s.lost /\ t.q["ldw"].items = items
      /\ \A m \in QueueName \ {"ldw"}: t.q[m] = s.q[m]
  BY <1>1, <1>2, PutFacts, QueueNames
<1>4. Balanced(t, sv, full)
  BY <1>1, <1>2, PutBalanced, QueueNames
<1>5. t.ld = s.ld /\ t.dz = s.dz /\ t.q["dzw"] = s.q["dzw"]
  BY <1>3, QueueNames DEF Piped
<1>6. Loose(t) /\ Plumbed(s, t) /\ (Busy(s) => Busy(t))
  BY <1>5 DEF Loose, Plumbed, Busy, IsOpen
<1>7. Ordered(t, S, G, v)
  BY <1>3, <1>5 DEF Ordered
<1> QED  BY <1>1, <1>4, <1>6, <1>7 DEF Steady

\* The first block is taken, and held.
LEMMA DownGet ==
  ASSUME NEW s, NEW sv, NEW full \in BOOLEAN, NEW S, NEW w,
         Steady(s, sv, full, S, {}, w), NEW x, x = s.q["ldw"].items
  PROVE  LET t == Getq(s, "ldw")
         IN /\ Steady(t, sv, full, S, IF x = <<>> THEN {} ELSE Num(x[1]), w)
            /\ Plumbed(s, t) /\ (Busy(s) => Busy(t))
<1>1. PICK t : t = Getq(s, "ldw")
  OBVIOUS
<1>2. Typed(s) /\ Balanced(s, sv, full) /\ x \in Items("ldw")
  BY QueueNames DEF Steady, Balanced, Typed
<1>3. Balanced(t, sv, full)
  BY <1>1, <1>2, GetqBalanced, QueueNames
<1>4. PICK items : /\ GetTo(s, "ldw", items, t)
                   /\ items = IF x = <<>> THEN <<>> ELSE SubSeq(x, 2, Len(x))
  BY <1>1, <1>2, GetFacts, QueueNames
<1>5. /\ t.ld = s.ld /\ t.dz = s.dz /\ t.lost = s.lost
      /\ t.q["dzw"].items = s.q["dzw"].items /\ t.q["ldw"].items = items
  BY <1>4, QueueNames DEF GetTo, Piped
<1>6. Loose(t) /\ Plumbed(s, t) /\ (Busy(s) => Busy(t))
  BY <1>5 DEF Steady, Loose, Plumbed, Busy, IsOpen
<1>7. Order(S, s.dz.oblock, s.q["dzw"].items, {}, x, s.lost, w)
  BY DEF Steady, Ordered
<1>8. Order(S, s.dz.oblock, s.q["dzw"].items, IF x = <<>> THEN {} ELSE Num(x[1]),
            items, s.lost, w)
  BY <1>2, <1>4, <1>7, OrderTaken
<1>9. Ordered(t, S, IF x = <<>> THEN {} ELSE Num(x[1]), w)
  BY <1>5, <1>8 DEF Ordered
<1> QED  BY <1>1, <1>3, <1>6, <1>9 DEF Steady

\* The blocks are thrown away.
LEMMA DownFlush ==
  ASSUME NEW s, NEW sv, NEW full \in BOOLEAN, NEW S, NEW H, NEW w,
         Steady(s, sv, full, S, H, w), NEW all \in BOOLEAN
  PROVE  LET t == Flushq(s, "ldw", all)
         IN /\ Steady(t, sv, full, S, H, w) /\ Plumbed(s, t) /\ (Busy(s) => Busy(t))
            /\ all => t.q["ldw"].items = <<>>
<1>1. PICK t : t = Flushq(s, "ldw", all)
  OBVIOUS
<1>2. Typed(s) /\ Balanced(s, sv, full)
  BY DEF Steady, Balanced
<1>3. PICK kept : kept = Kept(s, "ldw", all)
  OBVIOUS
<1>4. /\ Piped(s, t) /\ t.lost = s.lost \cup Numbers(s.q["ldw"].items)
      /\ t.q["ldw"].items = kept
      /\ \A m \in QueueName \ {"ldw"}: t.q[m].items = s.q[m].items
  BY <1>1, <1>2, <1>3, FlushqFacts, QueueNames
<1>5. /\ \A i \in 1..Len(kept): kept[i].type = "IOCTL"
      /\ all => kept = <<>>
  BY <1>2, <1>3, KeptFacts, QueueNames
<1>6. Numbers(kept) = {} /\ Sorted(kept)
  BY <1>5, InNumbers DEF Sorted
<1>7. Balanced(t, sv, full)
  BY <1>1, <1>2, FlushqBalanced, QueueNames
<1>8. t.ld = s.ld /\ t.dz = s.dz /\ t.q["dzw"].items = s.q["dzw"].items
  BY <1>4, QueueNames DEF Piped
<1>9. Loose(t) /\ Plumbed(s, t) /\ (Busy(s) => Busy(t))
  BY <1>8 DEF Steady, Loose, Plumbed, Busy, IsOpen
<1>10. Order(S, s.dz.oblock, s.q["dzw"].items, H, kept,
             s.lost \cup Numbers(s.q["ldw"].items), w)
  BY <1>6, OrderLost DEF Steady, Ordered
<1>11. Ordered(t, S, H, w)
  BY <1>4, <1>8, <1>10 DEF Ordered
<1> QED  BY <1>1, <1>4, <1>5, <1>7, <1>9, <1>11 DEF Steady

-----------------------------------------------------------------------------
(* The line                                                                *)

Settled(s, sv, full, S, H, w) == Steady(s, sv, full, S, H, w) /\ Busy(s)

LineState == [state: SUBSET {"ISOPEN", "DZSTOP", "TIMEOUT"}, carrier: BOOLEAN,
              oblock: Nat, timers: Nat]

\* The state of the line is not about the balance of the queues.
LEMMA LineBalanced ==
  ASSUME NEW s, NEW t, NEW sv, NEW full, Balanced(s, sv, full), Shape(t),
         t.q = s.q, t.ld = s.ld, t.dz \in LineState
  PROVE  Balanced(t, sv, full)
<1>1. \A n, f: Has(t, n, f) <=> Has(s, n, f)
  BY DEF Has
<1>2. Typed(t)
  BY DEF Typed, Balanced, LineState
<1> QED  BY <1>1, <1>2 DEF Balanced, Marked, Asks, Fed, Serviced

\* putq and putbq of the line's queue.
LEMMA LinePut ==
  ASSUME NEW s, NEW sv, NEW full \in BOOLEAN, NEW S,
         Balanced(s, sv, full), Loose(s), IsOpen(s), NEW items \in Items("dzw"),
         Len(items) >= Len(s.q["dzw"].items), NEW G, NEW v,
         Order(S, s.dz.oblock, items, G, s.q["ldw"].items, s.lost, v)
  PROVE  LET t == Put(s, "dzw", items)
         IN Steady(t, sv, full, S, G, v) /\ Plumbed(s, t) /\ t.dz = s.dz
<1>1. PICK t : t = Put(s, "dzw", items)
  OBVIOUS
<1>2. Typed(s) /\ Balanced(s, sv, full)
  BY DEF Balanced
<1>3. /\ Piped(s, t) /\ t.lost = s.lost /\ t.q["dzw"].items = items
      /\ \A m \in QueueName \ {"dzw"}: t.q[m] = s.q[m]
  BY <1>1, <1>2, PutFacts, QueueNames
<1>4. Balanced(t, sv, full)
  BY <1>1, <1>2, PutBalanced, QueueNames
<1>5. t.ld = s.ld /\ t.dz = s.dz /\ t.q["ldw"] = s.q["ldw"]
  BY <1>3, QueueNames DEF Piped
<1>6. Loose(t) /\ Plumbed(s, t)
  BY <1>5 DEF Loose, Plumbed, IsOpen
<1>7. Ordered(t, S, G, v)
  BY <1>3, <1>5 DEF Ordered
<1> QED  BY <1>1, <1>4, <1>5, <1>6, <1>7 DEF Steady

\* dzstart: afterwards the queue waits for something.
LEMMA DzstartSettled ==
  ASSUME NEW s, NEW sv, NEW full \in BOOLEAN, NEW S, NEW H, NEW w,
         Steady(s, sv, full, S, H, w)
  PROVE  Settled(Dzstart(s), sv, full, S, H, w) /\ Plumbed(s, Dzstart(s))
<1> DEFINE x == s.q["dzw"].items
           y == SubSeq(x, CtlsInFront(x) + 1, Len(x))
           lower == s.q["ldw"].items
<1>1. PICK s0 : s0 = GetFirst(s, "dzw", CtlsInFront(x))
  OBVIOUS
<1>2. PICK s1 : s1 = Getq(s0, "dzw")
  OBVIOUS
<1>3. PICK t : t = Dzstart(s)
  OBVIOUS
<1>4. x \in Items("dzw") /\ Typed(s) /\ Balanced(s, sv, full) /\ Loose(s)
      /\ s.dz \in LineState
  BY QueueNames DEF Steady, Balanced, Typed, LineState
<1>5. PICK j \in 0..Len(x) :
        /\ j = CtlsInFront(x) /\ \A i \in 1..j: x[i].type = "CTL"
        /\ j < Len(x) => x[j + 1].type # "CTL"
  BY <1>4, CtlsFacts
<1>6. y = SubSeq(x, j + 1, Len(x)) /\ s0 = GetFirst(s, "dzw", j)
  BY <1>1, <1>5
<1>7. GetTo(s, "dzw", y, s0) /\ Balanced(s0, sv, full)
  BY <1>4, <1>6, GetFacts, GetqBalanced, QueueNames
<1>8. /\ s0.ld = s.ld /\ s0.dz = s.dz /\ s0.lost = s.lost
      /\ s0.q["dzw"].items = y /\ s0.q["ldw"].items = lower /\ Typed(s0)
  BY <1>7, QueueNames DEF GetTo, Piped, Balanced
<1>9. y \in Items("dzw") /\ (y # <<>> => y[1].type # "CTL" /\ y[1] \in Fit("dzw"))
  <2>1. y \in Items("dzw") /\ Len(y) = Len(x) - j
        /\ \A i \in 1..Len(x) - j: y[i] = x[i + j]
    BY <1>4, <1>6, SubItems
  <2> HIDE DEF y
  <2>2. Len(x) \in Nat /\ Len(y) \in Nat /\ (y = <<>> <=> Len(y) = 0)
    BY <1>4, <2>1, EmptyItems
  <2>3. y # <<>> => 1 \in 1..Len(x) - j /\ j < Len(x) /\ 1 + j = j + 1 /\ 1 \in 1..Len(y)
    BY <2>1, <2>2
  <2>4. y # <<>> => y[1] \in Fit("dzw")
    BY <2>1, <2>3 DEF Items
  <2> QED  BY <1>5, <2>1, <2>3, <2>4
<1>10. Order(S, s.dz.oblock, y, H, lower, s.lost, w)
  BY <1>4, <1>5, <1>6, OrderSkipped DEF Steady, Ordered
<1> HIDE DEF y, x, lower
<1>11. PICK z : /\ z = IF y = <<>> THEN <<>> ELSE SubSeq(y, 2, Len(y))
                /\ GetTo(s0, "dzw", z, s1)
  BY <1>2, <1>8, GetFacts, QueueNames
<1>12. /\ s1.ld = s.ld /\ s1.dz = s.dz /\ s1.lost = s.lost /\ Shape(s1)
       /\ s1.q["dzw"].items = z /\ s1.q["ldw"].items = lower /\ Balanced(s1, sv, full)
  BY <1>2, <1>7, <1>8, <1>11, GetqBalanced, QueueNames DEF GetTo, Piped
<1>13. CASE \/ s.dz.state \cap {"TIMEOUT", "DZSTOP"} # {} \/ s.dz.oblock # 0
            \/ "ISOPEN" \notin s.dz.state
  <2>1. t = s
    BY <1>3, <1>13 DEF Dzstart
  <2>2. Busy(s)
    BY <1>4, <1>13 DEF Busy, Loose, IsOpen
  <2> QED  BY <1>3, <2>1, <2>2 DEF Settled, Plumbed
<1>14. CASE /\ s.dz.state \cap {"TIMEOUT", "DZSTOP"} = {} /\ s.dz.oblock = 0
            /\ "ISOPEN" \in s.dz.state
  <2>0. t = IF y = <<>> THEN s1
            ELSE CASE Head(y).type = "DATA" -> [s1 EXCEPT !.dz.oblock = Head(y).n]
                   [] Head(y).type = "DELAY" ->
                        [s1 EXCEPT !.dz.state = @ \cup {"TIMEOUT"}, !.dz.timers = @ + 1]
                   [] OTHER -> s1
    BY <1>1, <1>2, <1>3, <1>8, <1>14 DEF Dzstart, x
  <2>1. CASE y = <<>>
    <3>1. t = s1 /\ z = <<>>
      BY <1>11, <2>0, <2>1
    <3>2. Loose(t) /\ Busy(t) /\ Plumbed(s, t)
      BY <1>4, <1>12, <1>14, <3>1 DEF Loose, Busy, Plumbed, IsOpen
    <3>3. Ordered(t, S, H, w)
      BY <1>10, <1>12, <2>1, <3>1 DEF Ordered
    <3> QED  BY <1>3, <1>12, <3>1, <3>2, <3>3 DEF Settled, Steady
  <2>2. CASE y # <<>>
    <3>1. z = SubSeq(y, 2, Len(y)) /\ Head(y) = y[1]
      BY <1>11, <2>2
    <3>2. y[1] \in Output \cup {Delay}
      BY <1>9, <2>2 DEF Fit, Ctl
    <3>3. CASE y[1] \in Output
      <4>1. y[1].type = "DATA" /\ y[1].n \in Nat \ {0}
        BY <3>3 DEF Output
      <4>2. t = [s1 EXCEPT !.dz.oblock = y[1].n]
        BY <2>0, <2>2, <3>1, <4>1
      <4>3. /\ Shape(t) /\ t.q = s1.q /\ t.ld = s1.ld /\ t.lost = s1.lost
            /\ t.dz = [s.dz EXCEPT !.oblock = y[1].n]
        BY <1>12, <4>2 DEF Shape
      <4>4. t.dz \in LineState /\ t.dz.state = s.dz.state /\ t.dz.timers = s.dz.timers
            /\ t.dz.oblock = y[1].n
        BY <1>4, <4>1, <4>3 DEF LineState
      <4>5. Balanced(t, sv, full)
        BY <1>12, <4>3, <4>4, LineBalanced
      <4>6. Loose(t) /\ Busy(t) /\ Plumbed(s, t)
        BY <1>4, <1>12, <1>14, <4>1, <4>3, <4>4 DEF Loose, Busy, Plumbed, IsOpen
      <4>7. Order(S, y[1].n, z, H, lower, s.lost, w)
        BY <1>9, <1>10, <1>14, <2>2, <3>1, <4>1, OrderStarted
      <4>8. Ordered(t, S, H, w)
        BY <1>12, <4>3, <4>4, <4>7 DEF Ordered
      <4> QED  BY <1>3, <4>5, <4>6, <4>8 DEF Settled, Steady
    <3>4. CASE y[1] = Delay
      <4>1. y[1].type = "DELAY"
        BY <3>4 DEF Delay
      <4>2. t = [s1 EXCEPT !.dz.state = @ \cup {"TIMEOUT"}, !.dz.timers = @ + 1]
        BY <2>0, <2>2, <3>1, <4>1
      <4>3. /\ Shape(t) /\ t.q = s1.q /\ t.ld = s1.ld /\ t.lost = s1.lost
            /\ t.dz = [s.dz EXCEPT !.state = s.dz.state \cup {"TIMEOUT"},
                                   !.timers = s.dz.timers + 1]
        BY <1>12, <4>2 DEF Shape
      <4>4. t.dz \in LineState /\ t.dz.state = s.dz.state \cup {"TIMEOUT"}
            /\ t.dz.timers = s.dz.timers + 1 /\ t.dz.timers > 0 /\ t.dz.oblock = s.dz.oblock
        <5>1. /\ s.dz.state \cup {"TIMEOUT"} \in SUBSET {"ISOPEN", "DZSTOP", "TIMEOUT"}
              /\ s.dz.timers + 1 \in Nat /\ s.dz.timers + 1 > 0
          BY <1>4 DEF LineState
        <5> QED  BY <1>4, <4>3, <5>1 DEF LineState
      <4>5. Balanced(t, sv, full)
        BY <1>12, <4>3, <4>4, LineBalanced
      <4>6. Loose(t) /\ Busy(t) /\ Plumbed(s, t)
        BY <1>4, <1>12, <1>14, <4>3, <4>4 DEF Loose, Busy, Plumbed, IsOpen
      <4>7. Order(S, s.dz.oblock, SubSeq(y, 1 + 1, Len(y)), H, lower, s.lost, w)
        <5>1. 1 \in 0..Len(y)
          BY <1>9, <2>2, EmptyItems
        <5>2. \A i \in 1..1: y[i].type # "DATA"
          BY <4>1
        <5> QED  BY <1>9, <1>10, <5>1, <5>2, OrderSkipped
      <4>8. Ordered(t, S, H, w)
        <5>1. 1 + 1 = 2
          OBVIOUS
        <5>2. Order(S, t.dz.oblock, z, H, lower, t.lost, w)
          BY <1>12, <3>1, <4>3, <4>4, <4>7, <5>1
        <5> QED  BY <1>12, <4>3, <5>2 DEF Ordered
      <4> QED  BY <1>3, <4>5, <4>6, <4>8 DEF Settled, Steady
    <3> QED  BY <3>2, <3>3, <3>4
  <2> QED  BY <2>1, <2>2
<1> QED  BY <1>13, <1>14

\* putq of the line's queue.
LEMMA LinePutq ==
  ASSUME NEW s, NEW sv, NEW full \in BOOLEAN, NEW S, NEW H, NEW w,
         Steady(s, sv, full, S, H, w), IsOpen(s), NEW b \in Fit("dzw"), H = Num(b)
  PROVE  Steady(Putq(s, "dzw", b), sv, full, S, {}, w) /\ Plumbed(s, Putq(s, "dzw", b))
<1>1. PICK x : x = s.q["dzw"].items
  OBVIOUS
<1>2. Balanced(s, sv, full) /\ Loose(s) /\ Order(S, s.dz.oblock, x, H, s.q["ldw"].items, s.lost, w)
  BY <1>1 DEF Steady, Ordered
<1>3. x \in Items("dzw")
  BY <1>1, <1>2, QueueNames DEF Balanced, Typed
<1>4. Append(x, b) \in Items("dzw") /\ Len(Append(x, b)) >= Len(x)
  <2>1. Append(x, b) \in Items("dzw") /\ Len(Append(x, b)) = Len(x) + 1
    BY <1>3, AppendItems
  <2>2. Len(x) \in Nat
    BY <1>3, EmptyItems
  <2> QED  BY <2>1, <2>2
<1>5. Order(S, s.dz.oblock, Append(x, b), {}, s.q["ldw"].items, s.lost, w)
  BY <1>2, <1>3, OrderPassed
<1>6. Putq(s, "dzw", b) = Put(s, "dzw", Append(x, b))
  BY <1>1 DEF Putq
<1> QED  BY <1>1, <1>2, <1>4, <1>5, <1>6, LinePut

\* An answer goes up.
LEMMA AckAlike ==
  ASSUME NEW s, NEW p, Shape(s)
  PROVE  Alike(s, StrputAck(s, p))
<1>1. PICK t : t = StrputAck(s, p)
  OBVIOUS
<1>2. Shape(t)
  BY <1>1, StrputAckQuiet DEF Quiet
<1>3. t.q = s.q /\ t.ld = s.ld /\ t.dz = s.dz /\ t.lost = s.lost
  BY <1>1 DEF StrputAck, Wakeup, Shape
<1> QED  BY <1>1, <1>2, <1>3 DEF Alike

\* dzoput of the block that ttyosrv held, or that came from the head.
LEMMA DzoputSettled ==
  ASSUME NEW s, NEW sv, NEW full \in BOOLEAN, NEW S, NEW H, NEW w,
         Settled(s, sv, full, S, H, w), IsOpen(s), NEW b \in Fit("ldw"), H = Num(b)
  PROVE  Settled(Dzoput(s, b), sv, full, S, {}, w) /\ Plumbed(s, Dzoput(s, b))
<1>0. Steady(s, sv, full, S, H, w) /\ Shape(s)
  BY DEF Settled, Steady, Balanced, Typed
<1>1. CASE b \in Output
  <2>1. b \in Fit("dzw") /\ Dzoput(s, b) = Dzstart(Putq(s, "dzw", b))
    BY <1>1 DEF Fit, Output, Dzoput
  <2>2. Steady(Putq(s, "dzw", b), sv, full, S, {}, w) /\ Plumbed(s, Putq(s, "dzw", b))
    BY <1>0, <2>1, LinePutq
  <2> QED  BY <2>1, <2>2, DzstartSettled, PlumbedOn
<1>2. CASE b \in Request
  <2>0. Num(b) = {} /\ H = {} /\ Dzoput(s, b) = DzIoctl(s, b.n)
    BY <1>2 DEF Num, Request, Dzoput
  <2>1. PICK s0 : s0 = StrputAck(s, b.n)
    OBVIOUS
  <2>2. PICK s1 : s1 = Putq(s0, "dzw", Delay)
    OBVIOUS
  <2>3. PICK s2 : s2 = Putq(s1, "dzw", Ctl)
    OBVIOUS
  <2>4. Dzoput(s, b) = Dzstart(s2)
    BY <2>0, <2>1, <2>2, <2>3 DEF DzIoctl, Delay, Ctl
  <2>5. Steady(s0, sv, full, S, {}, w) /\ Plumbed(s, s0)
    BY <1>0, <2>0, <2>1, AckAlike, AlikeSteady
  <2>6. Delay \in Fit("dzw") /\ Ctl \in Fit("dzw") /\ Num(Delay) = {} /\ Num(Ctl) = {}
    BY DEF Fit, Num, Delay, Ctl
  <2>7. Steady(s1, sv, full, S, {}, w) /\ Plumbed(s0, s1)
    BY <2>2, <2>5, <2>6, LinePutq DEF Plumbed
  <2>8. Steady(s2, sv, full, S, {}, w) /\ Plumbed(s1, s2)
    <3>1. IsOpen(s1)
      BY <2>5, <2>7 DEF Plumbed
    <3> QED  BY <2>3, <2>6, <2>7, <3>1, LinePutq
  <2>9. Plumbed(s, s2)
    BY <2>5, <2>7, <2>8, PlumbedOn
  <2> QED  BY <2>4, <2>8, <2>9, DzstartSettled, PlumbedOn
<1>3. CASE b = Delim
  <2>1. Dzoput(s, b) = s /\ Num(b) = {}
    BY <1>3 DEF Dzoput, Delim, Num
  <2> QED  BY <2>1 DEF Plumbed
<1> QED  BY <1>1, <1>2, <1>3 DEF Fit

\* M_STOP.
LEMMA DzStopSettled ==
  ASSUME NEW s, NEW sv, NEW full \in BOOLEAN, NEW S, NEW H, NEW w,
         Settled(s, sv, full, S, H, w), IsOpen(s)
  PROVE  Settled(DzStop(s), sv, full, S, H, w) /\ Plumbed(s, DzStop(s))
<1>1. PICK s1 : s1 = [s EXCEPT !.dz.state = @ \cup {"DZSTOP"}, !.dz.oblock = 0]
  OBVIOUS
<1>2. PICK x : x = s.q["dzw"].items
  OBVIOUS
<1>3. PICK t : t = DzStop(s)
  OBVIOUS
<1>4. /\ Typed(s) /\ Balanced(s, sv, full) /\ Loose(s) /\ x \in Items("dzw")
      /\ s.dz \in LineState /\ s.dz.oblock \in Nat
      /\ Order(S, s.dz.oblock, x, H, s.q["ldw"].items, s.lost, w)
  BY <1>2, QueueNames DEF Settled, Steady, Ordered, Balanced, Typed, LineState
<1>5. /\ Shape(s1) /\ s1.q = s.q /\ s1.ld = s.ld /\ s1.lost = s.lost
      /\ s1.dz = [s.dz EXCEPT !.state = s.dz.state \cup {"DZSTOP"}, !.oblock = 0]
  BY <1>1, <1>4 DEF Typed, Shape
<1>6. /\ s1.dz \in LineState /\ s1.dz.state = s.dz.state \cup {"DZSTOP"}
      /\ s1.dz.oblock = 0 /\ s1.dz.timers = s.dz.timers
  <2>1. s.dz.state \cup {"DZSTOP"} \in SUBSET {"ISOPEN", "DZSTOP", "TIMEOUT"}
    BY <1>4 DEF LineState
  <2>2. PICK state : state = s.dz.state \cup {"DZSTOP"}
    OBVIOUS
  <2>3. s1.dz = [s.dz EXCEPT !.state = state, !.oblock = 0]
    BY <1>5, <2>2
  <2>4. state \in SUBSET {"ISOPEN", "DZSTOP", "TIMEOUT"}
    BY <2>1, <2>2
  <2>5. DOMAIN s.dz = {"state", "carrier", "oblock", "timers"}
        /\ s.dz.carrier \in BOOLEAN /\ s.dz.timers \in Nat
    BY <1>4 DEF LineState
  <2>6. s1.dz = [state |-> state, carrier |-> s.dz.carrier, oblock |-> 0,
                 timers |-> s.dz.timers]
    BY <2>3, <1>4 DEF LineState
  <2> QED  BY <2>2, <2>4, <2>5, <2>6 DEF LineState
<1>7. Balanced(s1, sv, full)
  BY <1>4, <1>5, <1>6, LineBalanced
<1>8. Loose(s1) /\ Plumbed(s, s1) /\ IsOpen(s1)
  BY <1>4, <1>5, <1>6 DEF Loose, Plumbed, IsOpen
<1>9. CASE s.dz.oblock = 0
  <2>1. t = s1
    BY <1>1, <1>3, <1>9 DEF DzStop
  <2>2. Ordered(s1, S, H, w)
    BY <1>2, <1>4, <1>5, <1>6, <1>9 DEF Ordered
  <2>3. Busy(s1)
    BY <1>6 DEF Busy
  <2> QED  BY <1>3, <1>7, <1>8, <2>1, <2>2, <2>3 DEF Settled, Steady
<1>10. CASE s.dz.oblock # 0
  <2>1. PICK b : b = [type |-> "DATA", n |-> s.dz.oblock]
    OBVIOUS
  <2>2. t = Put(s1, "dzw", <<b>> \o x)
    BY <1>1, <1>2, <1>3, <1>5, <1>10, <2>1 DEF DzStop, Putbq
  <2>3. b \in Fit("dzw")
    BY <1>4, <1>10, <2>1 DEF Fit, Output
  <2>4. <<b>> \o x \in Items("dzw") /\ Len(<<b>> \o x) >= Len(x)
    BY <1>4, <2>3, AppendItems, EmptyItems
  <2>5. Order(S, 0, <<b>> \o x, H, s.q["ldw"].items, s.lost, w)
    BY <1>4, <1>10, <2>1, <2>3, OrderStopped
  <2>6. PICK items : items = <<b>> \o x
    OBVIOUS
  <2>7. Order(S, s1.dz.oblock, items, H, s1.q["ldw"].items, s1.lost, w)
    BY <1>5, <1>6, <2>5, <2>6
  <2>8. items \in Items("dzw") /\ Len(items) >= Len(s1.q["dzw"].items)
    BY <1>2, <1>5, <2>4, <2>6
  <2>9. Steady(t, sv, full, S, H, w) /\ Plumbed(s1, t) /\ t.dz = s1.dz
    BY <1>7, <1>8, <2>2, <2>6, <2>7, <2>8, LinePut
  <2>10. Busy(t)
    BY <1>6, <2>9 DEF Busy
  <2> QED  BY <1>3, <1>8, <2>9, <2>10, PlumbedOn DEF Settled
<1> QED  BY <1>9, <1>10

\* M_START.
LEMMA DzStartSettled ==
  ASSUME NEW s, NEW sv, NEW full \in BOOLEAN, NEW S, NEW H, NEW w,
         Steady(s, sv, full, S, H, w)
  PROVE  Settled(DzStart(s), sv, full, S, H, w) /\ Plumbed(s, DzStart(s))
<1>1. PICK s1 : s1 = [s EXCEPT !.dz.state = @ \ {"DZSTOP"}]
  OBVIOUS
<1>2. Typed(s) /\ Balanced(s, sv, full) /\ Loose(s) /\ s.dz \in LineState /\ Ordered(s, S, H, w)
  BY DEF Steady, Balanced, Typed, LineState
<1>3. /\ Shape(s1) /\ s1.q = s.q /\ s1.ld = s.ld /\ s1.lost = s.lost
      /\ s1.dz = [s.dz EXCEPT !.state = s.dz.state \ {"DZSTOP"}]
  BY <1>1, <1>2 DEF Typed, Shape
<1>4. /\ s1.dz \in LineState /\ s1.dz.state = s.dz.state \ {"DZSTOP"}
      /\ s1.dz.oblock = s.dz.oblock /\ s1.dz.timers = s.dz.timers
  BY <1>2, <1>3 DEF LineState
<1>5. Balanced(s1, sv, full)
  BY <1>2, <1>3, <1>4, LineBalanced
<1>6. Loose(s1) /\ Plumbed(s, s1)
  BY <1>2, <1>3, <1>4 DEF Loose, Plumbed, IsOpen
<1>7. Ordered(s1, S, H, w)
  BY <1>2, <1>3, <1>4 DEF Ordered
<1>8. DzStart(s) = Dzstart(s1) /\ Steady(s1, sv, full, S, H, w)
  BY <1>1, <1>5, <1>6, <1>7 DEF DzStart, Steady
<1> QED  BY <1>6, <1>8, DzstartSettled, PlumbedOn

\* The queue of the line is thrown away, and the block in transmission.
LEMMA DzFlushSettled ==
  ASSUME NEW s, NEW sv, NEW full \in BOOLEAN, NEW S, NEW H, NEW w,
         Steady(s, sv, full, S, H, w)
  PROVE  LET t == DzFlush(s)
         IN /\ Settled(t, sv, full, S, H, w) /\ Plumbed(s, t)
            /\ t.q["dzw"].items = <<>> /\ t.dz.oblock = 0
<1>1. PICK s1 : s1 = Flushq(s, "dzw", TRUE)
  OBVIOUS
<1>2. PICK t : t = DzFlush(s)
  OBVIOUS
<1>3. t = [s1 EXCEPT !.dz.oblock = 0, !.lost = s1.lost \cup ({s.dz.oblock} \ {0})]
  BY <1>1, <1>2 DEF DzFlush
<1>4. Typed(s) /\ Balanced(s, sv, full) /\ Loose(s) /\ s.dz \in LineState
      /\ Order(S, s.dz.oblock, s.q["dzw"].items, H, s.q["ldw"].items, s.lost, w)
  BY DEF Steady, Balanced, Typed, LineState, Ordered
<1>5. /\ Piped(s, s1) /\ s1.lost = s.lost \cup Numbers(s.q["dzw"].items)
      /\ s1.q["dzw"].items = Kept(s, "dzw", TRUE)
      /\ \A m \in QueueName \ {"dzw"}: s1.q[m].items = s.q[m].items
  <2>1. PICK all \in BOOLEAN : all = TRUE
    OBVIOUS
  <2>2. s1 = Flushq(s, "dzw", all)
    BY <1>1, <2>1
  <2>3. /\ Piped(s, s1) /\ s1.lost = s.lost \cup Numbers(s.q["dzw"].items)
        /\ s1.q["dzw"].items = Kept(s, "dzw", all)
        /\ \A m \in QueueName \ {"dzw"}: s1.q[m].items = s.q[m].items
    BY <1>4, <2>2, FlushqFacts, QueueNames
  <2> QED  BY <2>1, <2>3
<1>6. Kept(s, "dzw", TRUE) = <<>>
  BY DEF Kept
<1>7. /\ s1.ld = s.ld /\ s1.dz = s.dz /\ Shape(s1)
      /\ s1.q["dzw"].items = <<>> /\ s1.q["ldw"].items = s.q["ldw"].items
  BY <1>5, <1>6, QueueNames DEF Piped
<1>8. Balanced(s1, sv, full)
  BY <1>1, <1>4, FlushqBalanced, QueueNames
<1>9. /\ Shape(t) /\ t.q = s1.q /\ t.ld = s.ld /\ t.dz = [s.dz EXCEPT !.oblock = 0]
      /\ t.lost = (s.lost \cup Numbers(s.q["dzw"].items)) \cup ({s.dz.oblock} \ {0})
  BY <1>3, <1>5, <1>7 DEF Shape
<1>10. t.dz \in LineState /\ t.dz.oblock = 0 /\ t.dz.state = s.dz.state
       /\ t.dz.timers = s.dz.timers
  BY <1>4, <1>9 DEF LineState
<1>11. Balanced(t, sv, full)
  BY <1>7, <1>8, <1>9, <1>10, LineBalanced
<1>12. Loose(t) /\ Busy(t) /\ Plumbed(s, t)
  BY <1>4, <1>7, <1>9, <1>10 DEF Loose, Busy, Plumbed, IsOpen
<1>13. Order(S, s.dz.oblock, <<>>, H, s.q["ldw"].items,
             s.lost \cup Numbers(s.q["dzw"].items), w)
  BY <1>4, OrderLost
<1>14. Order(S, 0, <<>>, H, s.q["ldw"].items,
             (s.lost \cup Numbers(s.q["dzw"].items)) \cup ({s.dz.oblock} \ {0}), w)
  BY <1>13, OrderLost
<1>15. Ordered(t, S, H, w)
  BY <1>7, <1>9, <1>10, <1>14 DEF Ordered
<1> QED  BY <1>2, <1>7, <1>9, <1>10, <1>11, <1>12, <1>15 DEF Settled, Steady

-----------------------------------------------------------------------------
(* The line discipline                                                     *)

\* TTSTOP is about nothing else.
LEMMA StopSettled ==
  ASSUME NEW s, NEW sv, NEW full \in BOOLEAN, NEW S, NEW H, NEW w,
         Settled(s, sv, full, S, H, w), NEW b \in BOOLEAN
  PROVE  LET t == [s EXCEPT !.ld.stop = b]
         IN Settled(t, sv, full, S, H, w) /\ Plumbed(s, t)
<1>1. PICK t : t = [s EXCEPT !.ld.stop = b]
  OBVIOUS
<1>2. Typed(s) /\ Balanced(s, sv, full) /\ Loose(s) /\ Busy(s) /\ Ordered(s, S, H, w)
  BY DEF Settled, Steady, Balanced
<1>3. /\ Shape(t) /\ t.q = s.q /\ t.dz = s.dz /\ t.lost = s.lost
      /\ t.ld = [s.ld EXCEPT !.stop = b]
  BY <1>1, <1>2 DEF Typed, Shape
<1>4. t.ld \in [on: BOOLEAN, stop: BOOLEAN] /\ t.ld.on = s.ld.on
  BY <1>2, <1>3 DEF Typed
<1>5. \A n, f: Has(t, n, f) <=> Has(s, n, f)
  BY <1>3 DEF Has
<1>6. Typed(t)
  BY <1>2, <1>3, <1>4 DEF Typed
<1>7. Balanced(t, sv, full)
  BY <1>2, <1>3, <1>4, <1>5, <1>6 DEF Balanced, Marked, Asks, Fed, Serviced
<1>8. Loose(t) /\ Busy(t) /\ Plumbed(s, t)
  BY <1>2, <1>3, <1>4 DEF Loose, Busy, Plumbed, IsOpen
<1>9. Ordered(t, S, H, w)
  BY <1>2, <1>3 DEF Ordered
<1> QED  BY <1>1, <1>7, <1>8, <1>9 DEF Settled, Steady

\* Output goes on.
LEMMA RestartSettled ==
  ASSUME NEW s, NEW sv, NEW full \in BOOLEAN, NEW S, NEW H, NEW w,
         Settled(s, sv, full, S, H, w)
  PROVE  Settled(Restart(s), sv, full, S, H, w) /\ Plumbed(s, Restart(s))
<1>1. PICK s1 : s1 = [s EXCEPT !.ld.stop = FALSE]
  OBVIOUS
<1>2. Steady(s1, sv, full, S, H, w) /\ Plumbed(s, s1)
  BY <1>1, StopSettled DEF Settled
<1>3. Settled(DzStart(s1), sv, full, S, H, w) /\ Plumbed(s, DzStart(s1))
  BY <1>2, DzStartSettled, PlumbedOn
<1>4. Restart(s) = IF s.ld.stop THEN DzStart(s1) ELSE s
  BY <1>1 DEF Restart
<1> QED  BY <1>3, <1>4 DEF Plumbed

\* Output is stopped.
LEMMA TtyStopSettled ==
  ASSUME NEW s, NEW sv, NEW full \in BOOLEAN, NEW S, NEW H, NEW w,
         Settled(s, sv, full, S, H, w), IsOpen(s)
  PROVE  Settled(TtyStop(s), sv, full, S, H, w) /\ Plumbed(s, TtyStop(s))
<1>1. PICK s1 : s1 = [s EXCEPT !.ld.stop = TRUE]
  OBVIOUS
<1>2. Settled(s1, sv, full, S, H, w) /\ Plumbed(s, s1)
  BY <1>1, StopSettled
<1>3. IsOpen(s1)
  BY <1>2 DEF Plumbed
<1>4. Settled(DzStop(s1), sv, full, S, H, w) /\ Plumbed(s, DzStop(s1))
  BY <1>2, <1>3, DzStopSettled, PlumbedOn
<1>5. TtyStop(s) = IF s.ld.stop THEN s ELSE DzStop(s1)
  BY <1>1 DEF TtyStop
<1> QED  BY <1>4, <1>5 DEF Plumbed

\* The queues of the head and of ttyld for input hold the same.
LEMMA CharItems == Items("ldr") = Items("rd")
<1>1. Fit("ldr") = Fit("rd")
  BY DEF Fit
<1> QED  BY <1>1 DEF Items

\* getq of the queues to the head.
LEMMA GetSettled ==
  ASSUME NEW s, NEW sv, NEW full \in BOOLEAN, NEW S, NEW H, NEW w,
         Settled(s, sv, full, S, H, w), NEW n \in {"rd", "ldr"}
  PROVE  /\ Settled(Getq(s, n), sv, full, S, H, w) /\ Plumbed(s, Getq(s, n))
         /\ \A j \in 0..Len(s.q[n].items):
              Settled(GetFirst(s, n, j), sv, full, S, H, w) /\ Plumbed(s, GetFirst(s, n, j))
<1>1. Steady(s, sv, full, S, H, w) /\ Busy(s)
  BY DEF Settled
<1>2. ASSUME NEW t, Taken(s, n, t)
      PROVE  Settled(t, sv, full, S, H, w) /\ Plumbed(s, t)
  <2>1. Steady(t, sv, full, S, H, w) /\ Plumbed(s, t) /\ (Busy(s) => Busy(t))
    BY <1>1, <1>2, UpGet
  <2> QED  BY <1>1, <2>1 DEF Settled
<1> QED  BY <1>2 DEF Taken

\* strput of data.
LEMMA StrputSettled ==
  ASSUME NEW s, NEW sv, NEW full \in BOOLEAN, NEW S, NEW H, NEW w,
         Settled(s, sv, full, S, H, w)
  PROVE  /\ \A blocks \in Items("rd"):
              /\ Settled(StrputAll(s, blocks), sv, full, S, H, w)
              /\ Plumbed(s, StrputAll(s, blocks))
         /\ Settled(StrputData(s, Char), sv, full, S, H, w)
         /\ Plumbed(s, StrputData(s, Char))
<1>1. ASSUME NEW blocks \in Items("rd")
      PROVE  /\ Settled(StrputAll(s, blocks), sv, full, S, H, w)
             /\ Plumbed(s, StrputAll(s, blocks))
  <2>1. PICK x : x = s.q["rd"].items
    OBVIOUS
  <2>2. PICK y : y = x \o blocks
    OBVIOUS
  <2>3. x \in Items("rd")
    BY <2>1, QueueNames DEF Settled, Steady, Balanced, Typed
  <2>4. y \in Items("rd") /\ Len(y) = Len(x) + Len(blocks)
    BY <2>2, <2>3, ConcatItems
  <2>5. Len(x) \in Nat /\ Len(blocks) \in Nat
    BY <2>3, EmptyItems
  <2>6. PICK s1 : s1 = Put(s, "rd", y)
    OBVIOUS
  <2>7. Settled(s1, sv, full, S, H, w) /\ Plumbed(s, s1)
    <3>1. Steady(s, sv, full, S, H, w) /\ Busy(s)
      BY DEF Settled
    <3>2. Len(y) >= Len(s.q["rd"].items)
      BY <2>1, <2>4, <2>5
    <3>3. Steady(s1, sv, full, S, H, w) /\ Plumbed(s, s1) /\ (Busy(s) => Busy(s1))
      BY <2>4, <2>6, <3>1, <3>2, UpPut
    <3> QED  BY <3>1, <3>3 DEF Settled
  <2>8. PICK t : t = StrputAll(s, blocks)
    OBVIOUS
  <2>9. t = IF "RSLEEP" \notin s.head.flag THEN s1
            ELSE Wakeup([s1 EXCEPT !.head.flag = @ \ {"RSLEEP"}], "rd")
    BY <2>1, <2>2, <2>6, <2>8 DEF StrputAll
  <2>10. CASE "RSLEEP" \notin s.head.flag
    BY <2>7, <2>8, <2>9, <2>10
  <2>11. CASE "RSLEEP" \in s.head.flag
    <3>1. Shape(s1) /\ Shape(s)
      BY <2>7 DEF Settled, Steady, Balanced, Typed
    <3>2. Shape(t)
      BY <2>8, <3>1, StrputQuiet DEF Quiet
    <3>3. t.q = s1.q /\ t.ld = s1.ld /\ t.dz = s1.dz /\ t.lost = s1.lost
      BY <2>9, <2>11, <3>1 DEF Wakeup, Shape
    <3>4. Alike(s1, t)
      BY <3>2, <3>3 DEF Alike
    <3> QED  BY <2>7, <2>8, <3>4, AlikeSteady, PlumbedOn DEF Settled
  <2> QED  BY <2>10, <2>11
<1>2. <<Char>> \in Items("rd")
  <2>1. <<>> \in Items("rd") /\ Char \in Fit("rd")
    BY EmptyItems DEF Fit
  <2>2. <<Char>> \o <<>> \in Items("rd")
    BY <2>1, AppendItems
  <2>3. <<Char>> \o <<>> = <<Char>>
    OBVIOUS
  <2> QED  BY <2>2, <2>3
<1> QED  BY <1>1, <1>2 DEF StrputData

\* putq and putbq of a character.
LEMMA CharSettled ==
  ASSUME NEW s, NEW sv, NEW full \in BOOLEAN, NEW S, NEW H, NEW w,
         Settled(s, sv, full, S, H, w), NEW n \in {"rd", "ldr"}, n = "ldr" => s.ld.on
  PROVE  /\ Settled(Putq(s, n, Char), sv, full, S, H, w) /\ Plumbed(s, Putq(s, n, Char))
         /\ Settled(Putbq(s, n, Char), sv, full, S, H, w) /\ Plumbed(s, Putbq(s, n, Char))
<1>1. PICK x : x = s.q[n].items
  OBVIOUS
<1>2. x \in Items(n)
  BY <1>1, QueueNames DEF Settled, Steady, Balanced, Typed
<1>3. Char \in Fit(n)
  BY DEF Fit
<1>4. PICK y, z : y = Append(x, Char) /\ z = <<Char>> \o x
  OBVIOUS
<1>5. y \in Items(n) /\ z \in Items(n) /\ Len(y) = Len(x) + 1 /\ Len(z) = Len(x) + 1
  BY <1>2, <1>3, <1>4, AppendItems
<1>6. Len(x) \in Nat
  BY <1>2, EmptyItems
<1>7. Putq(s, n, Char) = Put(s, n, y) /\ Putbq(s, n, Char) = Put(s, n, z)
  BY <1>1, <1>4 DEF Putq, Putbq
<1>8. Steady(s, sv, full, S, H, w) /\ Busy(s)
  BY DEF Settled
<1>9. ASSUME NEW items \in Items(n), Len(items) = Len(x) + 1
      PROVE  Settled(Put(s, n, items), sv, full, S, H, w) /\ Plumbed(s, Put(s, n, items))
  <2>1. Len(items) >= Len(s.q[n].items)
    BY <1>1, <1>6, <1>9
  <2>2. PICK t : t = Put(s, n, items)
    OBVIOUS
  <2>3. Steady(t, sv, full, S, H, w) /\ Plumbed(s, t) /\ (Busy(s) => Busy(t))
    BY <1>8, <2>1, <2>2, UpPut
  <2> QED  BY <1>8, <2>2, <2>3 DEF Settled
<1> QED  BY <1>5, <1>7, <1>9

\* A typed character.
LEMMA TtyCharSettled ==
  ASSUME NEW s, NEW sv, NEW full \in BOOLEAN, NEW S, NEW H, NEW w,
         Settled(s, sv, full, S, H, w), s.ld.on
  PROVE  Settled(TtyChar(s), sv, full, S, H, w) /\ Plumbed(s, TtyChar(s))
<1>1. PICK s1 : s1 = Restart(s)
  OBVIOUS
<1>2. Settled(s1, sv, full, S, H, w) /\ Plumbed(s, s1)
  BY <1>1, RestartSettled
<1>3. s1.ld.on
  BY <1>2 DEF Plumbed
<1>4. TtyChar(s) \in {StrputData(s1, Char), Putq(s1, "ldr", Char)}
  BY <1>1 DEF TtyChar
<1>5. Settled(StrputData(s1, Char), sv, full, S, H, w) /\ Plumbed(s1, StrputData(s1, Char))
  BY <1>2, StrputSettled
<1>6. Settled(Putq(s1, "ldr", Char), sv, full, S, H, w) /\ Plumbed(s1, Putq(s1, "ldr", Char))
  BY <1>2, <1>3, CharSettled
<1> QED  BY <1>2, <1>4, <1>5, <1>6, PlumbedOn

\* The interrupt character.
LEMMA TtySigSettled ==
  ASSUME NEW s, NEW sv, NEW full \in BOOLEAN, NEW S, NEW H, NEW w,
         Settled(s, sv, full, S, H, w)
  PROVE  Settled(TtySig(s), sv, full, S, H, w) /\ Plumbed(s, TtySig(s))
<1>1. PICK s0, s1, s2, s3 :
        /\ s0 = Restart(s) /\ s1 = Flushq(s0, "ldr", FALSE)
        /\ s2 = Flushq(s1, "ldw", FALSE) /\ s3 = Flushq(s2, "rd", FALSE)
  OBVIOUS
<1>2. TtySig(s) = DzFlush(s3)
  BY <1>1 DEF TtySig
<1>3. Steady(s0, sv, full, S, H, w) /\ Plumbed(s, s0)
  BY <1>1, RestartSettled DEF Settled
<1>4. PICK all \in BOOLEAN : all = FALSE
  OBVIOUS
<1>5. s1 = Flushq(s0, "ldr", all) /\ s2 = Flushq(s1, "ldw", all) /\ s3 = Flushq(s2, "rd", all)
  BY <1>1, <1>4
<1>6. Steady(s1, sv, full, S, H, w) /\ Plumbed(s, s1)
  BY <1>3, <1>5, UpFlush, PlumbedOn
<1>7. Steady(s2, sv, full, S, H, w) /\ Plumbed(s, s2)
  BY <1>5, <1>6, DownFlush, PlumbedOn
<1>8. Steady(s3, sv, full, S, H, w) /\ Plumbed(s, s3)
  BY <1>5, <1>7, UpFlush, PlumbedOn
<1> QED  BY <1>2, <1>8, DzFlushSettled, PlumbedOn

\* An ioctl passes the line discipline.
LEMMA TtldiocSettled ==
  ASSUME NEW s, NEW sv, NEW full \in BOOLEAN, NEW S, NEW H, NEW w,
         Settled(s, sv, full, S, H, w), IsOpen(s), NEW b \in Fit("ldw"), H = Num(b)
  PROVE  Settled(Ttldioc(s, b), sv, full, S, {}, w) /\ Plumbed(s, Ttldioc(s, b))
<1>1. PICK typed : typed = s.q["ldr"].items
  OBVIOUS
<1>2. PICK s0 : s0 = GetFirst(s, "ldr", Len(typed))
  OBVIOUS
<1>3. PICK s1 : s1 = IF typed = <<>> THEN s ELSE StrputAll(s0, typed)
  OBVIOUS
<1>4. PICK s2 : s2 = IF Has(s, "rd", "QFULL") THEN s ELSE Getq(s1, "ldr")
  OBVIOUS
<1>5. Ttldioc(s, b) = Dzoput(s2, b)
  BY <1>1, <1>2, <1>3, <1>4 DEF Ttldioc
<1>6. typed \in Items("ldr") /\ typed \in Items("rd")
  BY <1>1, CharItems, QueueNames DEF Settled, Steady, Balanced, Typed
<1>7. Len(typed) \in 0..Len(s.q["ldr"].items)
  BY <1>1, <1>6, EmptyItems
<1>8. Settled(s0, sv, full, S, H, w) /\ Plumbed(s, s0)
  BY <1>2, <1>7, GetSettled
<1>9. Settled(StrputAll(s0, typed), sv, full, S, H, w) /\ Plumbed(s0, StrputAll(s0, typed))
  BY <1>6, <1>8, StrputSettled
<1>10. Settled(s1, sv, full, S, H, w) /\ Plumbed(s, s1)
  BY <1>3, <1>8, <1>9, PlumbedOn DEF Plumbed
<1>11. Settled(Getq(s1, "ldr"), sv, full, S, H, w) /\ Plumbed(s1, Getq(s1, "ldr"))
  BY <1>10, GetSettled
<1>12. Settled(s2, sv, full, S, H, w) /\ Plumbed(s, s2)
  BY <1>4, <1>10, <1>11, PlumbedOn DEF Plumbed
<1>13. IsOpen(s2)
  BY <1>12 DEF Plumbed
<1> QED  BY <1>5, <1>12, <1>13, DzoputSettled, PlumbedOn

\* A block that is no data, or the next block of data, goes down from the head.
LEMMA DownSettled ==
  ASSUME NEW s, NEW sv, NEW S, NEW w \in Nat,
         Settled(s, sv, FALSE, S, {}, w), IsOpen(s), NEW b \in Fit("ldw"), NEW v,
         \/ b.type # "DATA" /\ v = w
         \/ b = [type |-> "DATA", n |-> w + 1] /\ v = w + 1
  PROVE  Settled(Down(s, b), sv, FALSE, S, {}, v) /\ Plumbed(s, Down(s, b))
<1>0. PICK full \in BOOLEAN : full = FALSE
  OBVIOUS
<1>1. PICK x, y : x = s.q["dzw"].items /\ y = s.q["ldw"].items
  OBVIOUS
<1>2. /\ Balanced(s, sv, full) /\ Loose(s) /\ Busy(s) /\ Typed(s)
      /\ x \in Items("dzw") /\ y \in Items("ldw")
      /\ Order(S, s.dz.oblock, x, {}, y, s.lost, w)
  BY <1>0, <1>1, QueueNames DEF Settled, Steady, Ordered, Balanced, Typed
<1>3. CASE s.ld.on
  <2>1. PICK z : z = Append(y, b)
    OBVIOUS
  <2>2. z \in Items("ldw") /\ Len(z) = Len(y) + 1 /\ Len(y) \in Nat
    BY <1>2, <2>1, AppendItems, EmptyItems
  <2>3. Order(S, s.dz.oblock, x, {}, z, s.lost, v)
    BY <1>2, <2>1, OrderAsked, OrderWritten
  <2>4. Down(s, b) = Put(s, "ldw", z)
    BY <1>1, <1>3, <2>1 DEF Down, Putq
  <2>5. Steady(Put(s, "ldw", z), sv, full, S, {}, v) /\ Plumbed(s, Put(s, "ldw", z))
        /\ (Busy(s) => Busy(Put(s, "ldw", z)))
    <3>1. Len(z) >= Len(s.q["ldw"].items)
      BY <1>1, <2>2
    <3>2. Order(S, s.dz.oblock, s.q["dzw"].items, {}, z, s.lost, v)
      BY <1>1, <2>3
    <3> QED  BY <1>2, <1>3, <2>2, <3>1, <3>2, DownPut
  <2>6. Settled(Put(s, "ldw", z), sv, full, S, {}, v)
    BY <1>2, <2>5 DEF Settled
  <2> QED  BY <1>0, <2>4, <2>5, <2>6
<1>4. CASE ~s.ld.on /\ b.type # "DATA"
  <2>1. Num(b) = {}
    BY <1>4 DEF Num
  <2>2. Settled(s, sv, full, S, {}, w) /\ v = w
    <3>1. v = w
      BY <1>4
    <3> QED  BY <1>0, <3>1
  <2>3. Settled(Dzoput(s, b), sv, full, S, {}, w) /\ Plumbed(s, Dzoput(s, b))
    BY <2>1, <2>2, DzoputSettled
  <2>4. Down(s, b) = Dzoput(s, b)
    BY <1>4 DEF Down
  <2> QED  BY <1>0, <2>2, <2>3, <2>4
<1>5. CASE ~s.ld.on /\ b = [type |-> "DATA", n |-> w + 1] /\ v = w + 1
  <2>1. y = <<>>
    BY <1>1, <1>2, <1>5 DEF Balanced, Fed
  <2>2. b \in Fit("dzw")
    BY <1>5 DEF Fit, Output
  <2>3. PICK z : z = Append(x, b)
    OBVIOUS
  <2>4. z \in Items("dzw") /\ Len(z) = Len(x) + 1 /\ Len(x) \in Nat
    BY <1>2, <2>2, <2>3, AppendItems, EmptyItems
  <2>5. Order(S, s.dz.oblock, z, {}, y, s.lost, w + 1)
    BY <1>2, <1>5, <2>1, <2>2, <2>3, OrderDirect
  <2>6. Down(s, b) = Dzstart(Put(s, "dzw", z))
    BY <1>1, <1>5, <2>3 DEF Down, Dzoput, Putq
  <2>7. Steady(Put(s, "dzw", z), sv, full, S, {}, w + 1) /\ Plumbed(s, Put(s, "dzw", z))
    <3>1. Len(z) >= Len(s.q["dzw"].items)
      BY <1>1, <2>4
    <3>2. Order(S, s.dz.oblock, z, {}, s.q["ldw"].items, s.lost, w + 1)
      BY <1>1, <2>5
    <3> QED  BY <1>2, <2>4, <3>1, <3>2, LinePut
  <2>8. Settled(Down(s, b), sv, full, S, {}, w + 1) /\ Plumbed(s, Down(s, b))
    BY <2>6, <2>7, DzstartSettled, PlumbedOn
  <2> QED  BY <1>0, <1>5, <2>8
<1> QED  BY <1>3, <1>4, <1>5

-----------------------------------------------------------------------------
(* Processes: the service procedures do not run                            *)

\* Of w blocks written S have been sent, and no block is held.
Calm(s, S, w) == Settled(s, "none", FALSE, S, {}, w)

\* A step that changes the head, the sleepers or the files.
LEMMA AlikeCalm ==
  ASSUME NEW s, NEW S, NEW w, Calm(s, S, w), NEW t, Alike(s, t)
  PROVE  Calm(t, S, w) /\ Plumbed(s, t)
<1>1. PICK full \in BOOLEAN : full = FALSE
  OBVIOUS
<1>2. Steady(s, "none", full, S, {}, w) /\ Busy(s)
  BY <1>1 DEF Calm, Settled
<1>3. Steady(t, "none", full, S, {}, w) /\ Plumbed(s, t) /\ Busy(t)
  BY <1>2, AlikeSteady
<1> QED  BY <1>1, <1>3 DEF Calm, Settled

\* stread takes a block, and puts one back.
LEMMA ReadCalm ==
  ASSUME NEW s, NEW S, NEW w, Calm(s, S, w)
  PROVE  /\ Calm(Getq(s, "rd"), S, w) /\ Plumbed(s, Getq(s, "rd"))
         /\ Calm(Putbq(s, "rd", Char), S, w) /\ Plumbed(s, Putbq(s, "rd", Char))
<1>1. PICK full \in BOOLEAN : full = FALSE
  OBVIOUS
<1>2. Settled(s, "none", full, S, {}, w)
  BY <1>1 DEF Calm
<1>3. Settled(Getq(s, "rd"), "none", full, S, {}, w) /\ Plumbed(s, Getq(s, "rd"))
  BY <1>2, GetSettled
<1>4. Settled(Putbq(s, "rd", Char), "none", full, S, {}, w) /\ Plumbed(s, Putbq(s, "rd", Char))
  BY <1>2, CharSettled
<1> QED  BY <1>1, <1>3, <1>4 DEF Calm

\* What was read is thrown away.
LEMMA FlushCalm ==
  ASSUME NEW s, NEW S, NEW w, Calm(s, S, w), NEW n \in {"rd", "ldr"}, NEW all \in BOOLEAN
  PROVE  LET t == Flushq(s, n, all)
         IN Calm(t, S, w) /\ Plumbed(s, t) /\ t.q[n].items = <<>>
<1>1. PICK full \in BOOLEAN : full = FALSE
  OBVIOUS
<1>2. Steady(s, "none", full, S, {}, w) /\ Busy(s)
  BY <1>1 DEF Calm, Settled
<1>3. PICK t : t = Flushq(s, n, all)
  OBVIOUS
<1>4. /\ Steady(t, "none", full, S, {}, w) /\ Plumbed(s, t) /\ (Busy(s) => Busy(t))
      /\ t.q[n].items = <<>>
  BY <1>2, <1>3, UpFlush
<1> QED  BY <1>1, <1>2, <1>3, <1>4 DEF Calm, Settled

\* Queues are taken off the stream.
LEMMA DetachTo ==
  ASSUME NEW s, NEW names, Typed(s)
  PROVE  LET t == Detach(s, names)
         IN /\ Typed(t) /\ t.ld = s.ld /\ t.dz = s.dz /\ t.lost = s.lost
            /\ \A n \in QueueName: t.q[n] = IF n \in names THEN EmptyQueue ELSE s.q[n]
<1> DEFINE q == [n \in QueueName |-> IF n \in names THEN EmptyQueue ELSE s.q[n]]
           run == SelectSeq(s.run, LAMBDA n: n \notin names)
<1>1. PICK t : t = Detach(s, names)
  OBVIOUS
<1>2. t = [s EXCEPT !.q = q, !.run = run]
  BY <1>1, Zenon DEF Detach
<1>3. \A n \in QueueName: q[n] = IF n \in names THEN EmptyQueue ELSE s.q[n]
  OBVIOUS
<1>4. EmptyQueue \in Queue /\ EmptyQueue.items = <<>>
  <2>1. <<>> \in Seq(AnyBlock)
    OBVIOUS
  <2> HIDE DEF AnyBlock
  <2> QED  BY <2>1 DEF EmptyQueue, Queue
<1>5. q \in [QueueName -> Queue]
  BY <1>4 DEF Typed
<1>6. \A n \in QueueName: q[n].items \in Items(n)
  BY <1>3, <1>4, EmptyItems DEF Typed
<1> HIDE DEF q, run
<1>7. Shape(t) /\ t.q = q /\ t.ld = s.ld /\ t.dz = s.dz /\ t.lost = s.lost
  BY <1>2 DEF Typed, Shape
<1>8. Typed(t)
  BY <1>5, <1>6, <1>7 DEF Typed
<1> QED  BY <1>1, <1>3, <1>7, <1>8

\* There is nothing to balance when ttyld is not there.
LEMMA DetachBalanced ==
  ASSUME NEW s, NEW names, Typed(s), ~s.ld.on,
         s.q["ldr"].items = <<>>, s.q["ldw"].items = <<>>,
         \A n \in QueueName: Marked(s, n), "rd" \in names \/ Asks(s, "rd"),
         "dzw" \in names \/ Asks(s, "dzw")
  PROVE  Balanced(Detach(s, names), "none", FALSE)
<1>1. PICK t : t = Detach(s, names)
  OBVIOUS
<1>2. /\ Typed(t) /\ t.ld = s.ld
      /\ \A n \in QueueName: t.q[n] = IF n \in names THEN EmptyQueue ELSE s.q[n]
  BY <1>1, DetachTo
<1>3. EmptyQueue.flag = {} /\ EmptyQueue.items = <<>>
  BY DEF EmptyQueue
<1>4. \A n \in QueueName: Marked(t, n)
  BY <1>2, <1>3 DEF Marked, Has
<1>5. Asks(t, "rd") /\ Asks(t, "dzw")
  BY <1>2, <1>3, QueueNames DEF Asks, Has
<1>6. t.q["ldr"].items = <<>> /\ t.q["ldw"].items = <<>>
  BY <1>2, <1>3, QueueNames
<1>7. Fed(t, "none", "ldw", "dzw") /\ Fed(t, "none", "ldr", "rd")
  BY <1>2, <1>6 DEF Fed
<1> QED  BY <1>1, <1>2, <1>4, <1>5, <1>7 DEF Balanced

\* ttyld is popped.
LEMMA DetachLdCalm ==
  ASSUME NEW s, NEW S, NEW w, Calm(s, S, w)
  PROVE  LET t == DetachLd(s)
         IN Calm(t, S, w) /\ ~t.ld.on /\ (IsOpen(t) <=> IsOpen(s))
<1>0. PICK full, all \in BOOLEAN : full = FALSE /\ all = TRUE
  OBVIOUS
<1>1. PICK s1 : s1 = Flushq(s, "ldr", all)
  OBVIOUS
<1>2. PICK s2 : s2 = Flushq(s1, "ldw", all)
  OBVIOUS
<1>3. PICK s3 : s3 = [s2 EXCEPT !.ld = [on |-> FALSE, stop |-> FALSE]]
  OBVIOUS
<1>4. PICK t : t = DetachLd(s)
  OBVIOUS
<1>5. t = Detach(s3, {"ldr", "ldw"})
  BY <1>0, <1>1, <1>2, <1>3, <1>4 DEF DetachLd
<1>6. Steady(s, "none", full, S, {}, w) /\ Busy(s)
  BY <1>0 DEF Calm, Settled
<1>7. /\ Steady(s1, "none", full, S, {}, w) /\ Plumbed(s, s1) /\ (Busy(s) => Busy(s1))
      /\ s1.q["ldr"].items = <<>>
  BY <1>1, <1>6, UpFlush
<1>8. /\ Steady(s2, "none", full, S, {}, w) /\ Plumbed(s1, s2) /\ (Busy(s1) => Busy(s2))
      /\ (all => s2.q["ldw"].items = <<>>)
  BY <1>2, <1>7, DownFlush
<1>9. s2.q["ldr"].items = <<>>
  <2>1. Typed(s1) /\ "ldr" \in QueueName \ {"ldw"}
    BY <1>7, QueueNames DEF Steady, Balanced
  <2>2. s2.q["ldr"].items = s1.q["ldr"].items
    BY <1>2, <2>1, FlushqFacts, QueueNames
  <2> QED  BY <1>7, <2>2
<1>10. /\ Balanced(s2, "none", full) /\ Loose(s2) /\ Busy(s2) /\ Ordered(s2, S, {}, w)
       /\ Typed(s2) /\ s2.q["ldw"].items = <<>> /\ Plumbed(s, s2)
  BY <1>0, <1>6, <1>7, <1>8, PlumbedOn DEF Steady, Balanced
<1>11. /\ Shape(s3) /\ s3.q = s2.q /\ s3.dz = s2.dz /\ s3.lost = s2.lost
       /\ s3.ld = [on |-> FALSE, stop |-> FALSE]
  BY <1>3, <1>10 DEF Typed, Shape
<1>12. Typed(s3) /\ ~s3.ld.on
  BY <1>10, <1>11 DEF Typed
<1>13. (\A n \in QueueName: Marked(s3, n)) /\ Asks(s3, "rd") /\ Asks(s3, "dzw")
  BY <1>10, <1>11 DEF Balanced, Marked, Asks, Has
<1>14. s3.q["ldr"].items = <<>> /\ s3.q["ldw"].items = <<>>
  BY <1>9, <1>10, <1>11
<1>15. Balanced(t, "none", FALSE)
  BY <1>5, <1>12, <1>13, <1>14, DetachBalanced
<1>16. /\ t.ld = s3.ld /\ t.dz = s2.dz /\ t.lost = s2.lost
       /\ t.q["dzw"].items = s2.q["dzw"].items /\ t.q["ldw"].items = s2.q["ldw"].items
  <2>1. /\ t.ld = s3.ld /\ t.dz = s3.dz /\ t.lost = s3.lost
        /\ \A n \in QueueName:
             t.q[n] = IF n \in {"ldr", "ldw"} THEN EmptyQueue ELSE s3.q[n]
    BY <1>5, <1>12, DetachTo
  <2>2. t.q["dzw"] = s3.q["dzw"] /\ t.q["ldw"] = EmptyQueue
    BY <2>1, QueueNames
  <2> QED  BY <1>10, <1>11, <2>1, <2>2 DEF EmptyQueue
<1>17. Loose(t) /\ Busy(t) /\ (IsOpen(t) <=> IsOpen(s)) /\ ~t.ld.on
  BY <1>10, <1>12, <1>16 DEF Loose, Busy, Plumbed, IsOpen
<1>18. Ordered(t, S, {}, w)
  BY <1>10, <1>16 DEF Ordered
<1> QED  BY <1>4, <1>15, <1>17, <1>18 DEF Calm, Settled, Steady

\* dzclose, and the queues of the head.
LEMMA DetachDzCalm ==
  ASSUME NEW s, NEW S, NEW w, Calm(s, S, w), ~s.ld.on
  PROVE  LET t == FreeStream(DetachDz(s)) IN Calm(t, S, w) /\ ~IsOpen(t)
<1>0. PICK full \in BOOLEAN : full = FALSE
  OBVIOUS
<1>1. PICK s1 : s1 = DzFlush(s)
  OBVIOUS
<1>2. PICK s2 : s2 = [s1 EXCEPT !.dz.state = {}]
  OBVIOUS
<1>3. PICK s3 : s3 = Detach(s2, {"dzw"})
  OBVIOUS
<1>4. PICK t : t = Detach(s3, {"rd", "wrq"})
  OBVIOUS
<1>5. Steady(s, "none", full, S, {}, w) /\ Typed(s)
  BY <1>0 DEF Calm, Settled, Steady, Balanced
<1>6. /\ Settled(s1, "none", full, S, {}, w) /\ Plumbed(s, s1)
      /\ s1.q["dzw"].items = <<>> /\ s1.dz.oblock = 0
  BY <1>1, <1>5, DzFlushSettled
<1>7. /\ Typed(s1) /\ Balanced(s1, "none", full) /\ Ordered(s1, S, {}, w)
      /\ s1.dz \in LineState /\ ~s1.ld.on
  BY <1>6 DEF Settled, Steady, Balanced, Typed, LineState, Plumbed
<1>8. s3 = DetachDz(s)
  <2>1. PICK s0 : s0 = Flushq(s, "dzw", TRUE)
    OBVIOUS
  <2>2. Shape(s0)
    BY <1>5, <2>1, FlushqFramed, FramedShape DEF Typed
  <2>3. PICK lost : lost = s0.lost \cup ({s.dz.oblock} \ {0})
    OBVIOUS
  <2>4. s1 = [s0 EXCEPT !.dz.oblock = 0, !.lost = lost]
    BY <1>1, <2>1, <2>3 DEF DzFlush
  <2>5. PICK d : d = [s0.dz EXCEPT !.oblock = 0, !.state = {}]
    OBVIOUS
  <2>6. s2 = [s0 EXCEPT !.dz = d, !.lost = lost]
    BY <1>2, <2>2, <2>4, <2>5 DEF Shape
  <2>7. s2 = [s0 EXCEPT !.dz.oblock = 0, !.dz.state = {}, !.lost = lost]
    BY <2>2, <2>5, <2>6 DEF Shape
  <2> QED  BY <1>3, <2>1, <2>3, <2>7 DEF DetachDz
<1>9. /\ Shape(s2) /\ s2.q = s1.q /\ s2.ld = s1.ld /\ s2.lost = s1.lost
      /\ s2.dz = [s1.dz EXCEPT !.state = {}]
  BY <1>2, <1>7 DEF Typed, Shape
<1>10. s2.dz \in LineState /\ s2.dz.state = {} /\ s2.dz.oblock = 0
  BY <1>6, <1>7, <1>9 DEF LineState
<1>11. Balanced(s2, "none", full)
  BY <1>7, <1>9, <1>10, LineBalanced
<1>12. s2.q["ldr"].items = <<>> /\ s2.q["ldw"].items = <<>> /\ Typed(s2) /\ ~s2.ld.on
  BY <1>7, <1>9, <1>11 DEF Balanced, Fed
<1>13. (\A n \in QueueName: Marked(s2, n)) /\ Asks(s2, "rd") /\ Asks(s2, "dzw")
  BY <1>11 DEF Balanced
<1>14. Balanced(s3, "none", FALSE)
  BY <1>3, <1>12, <1>13, DetachBalanced
<1>15. /\ Typed(s3) /\ s3.ld = s2.ld /\ s3.dz = s2.dz /\ s3.lost = s2.lost
       /\ s3.q["dzw"] = EmptyQueue
       /\ s3.q["ldw"] = s2.q["ldw"] /\ s3.q["ldr"] = s2.q["ldr"]
  <2>1. /\ Typed(s3) /\ s3.ld = s2.ld /\ s3.dz = s2.dz /\ s3.lost = s2.lost
        /\ \A n \in QueueName: s3.q[n] = IF n \in {"dzw"} THEN EmptyQueue ELSE s2.q[n]
    BY <1>3, <1>12, DetachTo
  <2> QED  BY <2>1, QueueNames
<1>16. (\A n \in QueueName: Marked(s3, n)) /\ Asks(s3, "rd") /\ Asks(s3, "dzw")
  BY <1>14 DEF Balanced
<1>17. ~s3.ld.on /\ s3.q["ldr"].items = <<>> /\ s3.q["ldw"].items = <<>>
  BY <1>12, <1>15
<1>18. Balanced(t, "none", FALSE)
  BY <1>4, <1>15, <1>16, <1>17, DetachBalanced
<1>19. /\ t.ld = s3.ld /\ t.dz = s3.dz /\ t.lost = s3.lost
       /\ t.q["dzw"] = s3.q["dzw"] /\ t.q["ldw"] = s3.q["ldw"]
  <2>1. /\ t.ld = s3.ld /\ t.dz = s3.dz /\ t.lost = s3.lost
        /\ \A n \in QueueName: t.q[n] = IF n \in {"rd", "wrq"} THEN EmptyQueue ELSE s3.q[n]
    BY <1>4, <1>15, DetachTo
  <2> QED  BY <2>1, QueueNames
<1>20. t.q["dzw"].items = <<>>
  BY <1>15, <1>19 DEF EmptyQueue
<1>21. Loose(t) /\ Busy(t) /\ ~IsOpen(t)
  BY <1>10, <1>15, <1>17, <1>19, <1>20 DEF Loose, Busy, IsOpen
<1>22. Ordered(t, S, {}, w)
  <2>1. Order(S, s1.dz.oblock, s1.q["dzw"].items, {}, s1.q["ldw"].items, s1.lost, w)
    BY <1>7 DEF Ordered
  <2>2. /\ t.dz.oblock = s1.dz.oblock /\ t.q["dzw"].items = s1.q["dzw"].items
        /\ t.q["ldw"].items = s1.q["ldw"].items /\ t.lost = s1.lost
    BY <1>6, <1>9, <1>10, <1>15, <1>19, <1>20
  <2> QED  BY <2>1, <2>2 DEF Ordered
<1> QED  BY <1>4, <1>8, <1>18, <1>21, <1>22 DEF Calm, Settled, Steady, FreeStream

\* A process leaves the stream: it may shut down one that has hung up.
LEMMA StexitCalm ==
  ASSUME NEW s, NEW S, NEW w, Calm(s, S, w)
  PROVE  LET t == Stexit(s)
         IN /\ Calm(t, S, w)
            /\ \/ t.head.open = s.head.open /\ Plumbed(s, t)
                    /\ t.head.flag = s.head.flag /\ t.file = s.file
               \/ ~t.head.open /\ ~IsOpen(t)
<1>1. PICK s1 : s1 = [s EXCEPT !.head.count = @ - 1]
  OBVIOUS
<1>2. Shape(s)
  BY DEF Calm, Settled, Steady, Balanced, Typed
<1>3. /\ Alike(s, s1) /\ s1.head.open = s.head.open /\ s1.head.flag = s.head.flag
      /\ s1.file = s.file
  BY <1>1, <1>2 DEF Alike, Shape
<1>4. Calm(s1, S, w) /\ Plumbed(s, s1)
  BY <1>3, AlikeCalm
<1>5. PICK s2 : s2 = [Forceclose(s1, "dead") EXCEPT !.head.open = FALSE]
  OBVIOUS
<1>6. Alike(s1, s2) /\ ~s2.head.open
  BY <1>3, <1>5 DEF Alike, Shape, Forceclose
<1>7. Calm(s2, S, w)
  BY <1>4, <1>6, AlikeCalm
<1>8. PICK s3 : s3 = IF s2.ld.on THEN DetachLd(s2) ELSE s2
  OBVIOUS
<1>9. Calm(s3, S, w) /\ ~s3.ld.on
  BY <1>7, <1>8, DetachLdCalm
<1>10. Shape(s2) /\ Shape(s3) /\ s3.head = s2.head
  BY <1>6, <1>8, DetachFramed, FramedShape DEF Framed, Alike
<1>11. PICK v : v = FreeStream(DetachDz(s3))
  OBVIOUS
<1>12. Calm(v, S, w) /\ ~IsOpen(v)
  BY <1>9, <1>11, DetachDzCalm
<1>13. ~v.head.open
  BY <1>6, <1>10, <1>11, DetachFramed, FramedShape DEF Framed
<1>14. StcloseHungup(s1) = v
  BY <1>5, <1>8, <1>11 DEF StcloseHungup
<1>15. Stexit(s) = s1 \/ Stexit(s) = v
  BY <1>1, <1>14 DEF Stexit
<1> QED  BY <1>3, <1>4, <1>12, <1>13, <1>15

\* A block goes down from the head: one that is no data, or the next one.
LEMMA DownCalm ==
  ASSUME NEW s, NEW S, NEW w \in Nat, Calm(s, S, w), IsOpen(s), NEW b \in Fit("ldw"), NEW v,
         \/ b.type # "DATA" /\ v = w
         \/ b = [type |-> "DATA", n |-> w + 1] /\ v = w + 1
  PROVE  Calm(Down(s, b), S, v) /\ Plumbed(s, Down(s, b))
BY DownSettled DEF Calm

-----------------------------------------------------------------------------
(* The invariant of the queues                                             *)

\* The data of the block that the service procedure holds.
Held(sv) == IF sv.q = "ldw" THEN Num(sv.b) ELSE {}

SrvOK(s, sv) ==
  /\ DOMAIN sv = {"q", "b", "full"} /\ sv.full \in BOOLEAN
  /\ sv.q = "none" => sv = NoService
  /\ sv.q = "ldw" => sv.b = NoBlock \/ (sv.b \in Fit("ldw") /\ s.ld.on)
  /\ sv.q = "ldr" => sv.b \in {NoBlock, Char}

Flow(s, sv, S, w) ==
  Settled(s, sv.q, sv.full, S, Held(sv), w) /\ SrvOK(s, sv) /\ w \in Nat

\* The line is open for those who use it, and closed with the stream.
Opened(s, pcs) ==
  /\ \A p \in Proc:
       /\ pcs[p] \in Inner \ {"opening", "reopen"} => IsOpen(s)
       /\ s.file[p] = "nowrite" => IsOpen(s)
       /\ s.file[p] = "open" /\ pcs[p] \notin {"opening", "reopen"} => IsOpen(s)
       /\ pcs[p] = "drain" => ~s.head.open
  /\ s.head.open => "STWOPEN" \in s.head.flag \/ Hungup(s) \/ IsOpen(s)
  /\ IsOpen(s) => s.head.open \/ \E p \in Proc: pcs[p] = "drain"

QInv == SInv /\ Flow(k, srv, sent, written) /\ Opened(k, pc)

\* When no service procedure runs.
LEMMA FlowCalm ==
  ASSUME NEW s, NEW S, NEW w
  PROVE  /\ Flow(s, NoService, S, w) <=> Calm(s, S, w) /\ w \in Nat
         /\ NoService.q = "none"
<1>1. /\ NoService.q = "none" /\ NoService.full = FALSE /\ Held(NoService) = {}
      /\ DOMAIN NoService = {"q", "b", "full"}
  BY DEF NoService, Held
<1>2. SrvOK(s, NoService)
  BY <1>1 DEF SrvOK
<1> QED  BY <1>1, <1>2 DEF Flow, Calm

\* A process runs.
LEMMA FreeCalm ==
  ASSUME QInv, Free
  PROVE  srv = NoService /\ Calm(k, sent, written) /\ written \in Nat /\ Typed(k) /\ Shape(k)
<1>1. srv = NoService
  BY DEF QInv, Flow, SrvOK, Free
<1>2. Calm(k, sent, written) /\ written \in Nat
  BY <1>1, FlowCalm DEF QInv
<1> QED  BY <1>1, <1>2 DEF Calm, Settled, Steady, Balanced, Typed

\* The line stays open.
LEMMA OpenedIn ==
  ASSUME NEW s, NEW pcs, IsOpen(s), s.head.open, \A p \in Proc: pcs[p] # "drain"
  PROVE  Opened(s, pcs)
BY DEF Opened

\* The stream has been shut down.
LEMMA OpenedOut ==
  ASSUME NEW s, NEW pcs, Good(s, pcs, 0), ~s.head.open, ~IsOpen(s)
  PROVE  Opened(s, pcs)
BY DEF Opened, Good, FilesFit, Inner

\* Sleepers are woken, and an answer comes.
LEMMA OpenedQuiet ==
  ASSUME NEW s, NEW t, NEW pcs, Opened(s, pcs), Quiet(s, t), Plumbed(s, t)
  PROVE  Opened(t, pcs)
BY DEF Opened, Quiet, Plumbed, Hungup

\* A process that is in the stream goes on ...
LEMMA StepCalm ==
  ASSUME SInv', Opened(k, pc), srv = NoService, NEW p \in Proc, NEW s, NEW w,
         Step(p, s, w), w # "drain", k.head.open, s.head.open, IsOpen(s),
         Calm(s, sent, written'), written' \in Nat, UNCHANGED <<srv, sent>>,
         pc \in [Proc -> Place]
  PROVE  QInv'
<1>1. k' = s /\ pc' = [pc EXCEPT ![p] = w]
  BY DEF Step
<1>2. \A q \in Proc: pc'[q] # "drain"
  BY <1>1 DEF Opened
<1>3. Opened(s, pc')
  BY <1>2, OpenedIn
<1>4. Flow(s, NoService, sent, written')
  BY FlowCalm
<1> QED  BY <1>1, <1>3, <1>4 DEF QInv

\* ... or leaves it.
LEMMA LeaveCalm ==
  ASSUME SInv', Opened(k, pc), srv = NoService, NEW p \in Proc, NEW s,
         Leave(p, s), k.head.open, s.head.open, IsOpen(s),
         Calm(s, sent, written), written \in Nat, pc \in [Proc -> Place]
  PROVE  QInv'
<1>1. /\ k' = Stexit(s) /\ pc' = [pc EXCEPT ![p] = "idle"]
      /\ srv' = NoService /\ sent' = sent /\ written' = written
  BY DEF Leave, Step
<1>2. PICK t : t = Stexit(s)
  OBVIOUS
<1>3. /\ Calm(t, sent, written)
      /\ \/ t.head.open = s.head.open /\ Plumbed(s, t)
         \/ ~t.head.open /\ ~IsOpen(t)
  BY <1>2, StexitCalm
<1>4. \A q \in Proc: pc'[q] # "drain"
  BY <1>1 DEF Opened
<1>5. Good(t, pc', 0)
  BY <1>1, <1>2 DEF SInv
<1>6. Opened(t, pc')
  BY <1>3, <1>4, <1>5, OpenedIn, OpenedOut DEF Plumbed
<1>7. Flow(t, NoService, sent, written)
  BY <1>3, FlowCalm
<1> QED  BY <1>1, <1>2, <1>6, <1>7 DEF QInv

\* Who is inside, and not opening, has the line open.
LEMMA InsideOpen ==
  ASSUME QInv, Free, NEW p \in Proc
  PROVE  /\ pc[p] \in Inner => k.head.open
         /\ pc[p] \in Inner \ {"opening", "reopen"} => IsOpen(k)
         /\ pc \in [Proc -> Place] /\ Opened(k, pc)
BY DEF QInv, SInv, Good, Opened

-----------------------------------------------------------------------------
(* The steps of the processes                                              *)

\* A change of the head, the sleepers or the files that leaves the stream open.
HeadOnly(s, t) == Alike(s, t) /\ t.head.open = s.head.open

\* One change after another.
LEMMA HeadOnlyOn ==
  ASSUME NEW s, NEW t, NEW v, HeadOnly(s, t), HeadOnly(t, v)
  PROVE  HeadOnly(s, v)
BY DEF HeadOnly, Alike

\* The queues are calm when they were.
LEMMA HeadCalm ==
  ASSUME NEW s, NEW S, NEW w, Calm(s, S, w), NEW t, HeadOnly(s, t)
  PROVE  Calm(t, S, w) /\ (IsOpen(t) <=> IsOpen(s)) /\ t.head.open = s.head.open
BY AlikeCalm DEF HeadOnly, Plumbed

\* Such changes.
LEMMA HeadChanges ==
  ASSUME NEW s, Shape(s)
  PROVE  /\ HeadOnly(s, s) /\ HeadOnly(s, Stenter(s)) /\ HeadOnly(s, IoctlOver(s))
         /\ \A c: HeadOnly(s, Wakeup(s, c))
         /\ \A p \in Proc, c \in {"awake", "rd", "wrq", "stp", "dzp"}: HeadOnly(s, Sleep(s, p, c))
         /\ \A flags: HeadOnly(s, [s EXCEPT !.head.flag = flags])
         /\ \A p \in Proc, c \in {"none", "open"}: HeadOnly(s, [s EXCEPT !.file[p] = c])
<1>1. HeadOnly(s, s) /\ HeadOnly(s, Stenter(s))
  BY DEF HeadOnly, Alike, Shape, Stenter
<1>2. HeadOnly(s, IoctlOver(s))
  BY DEF HeadOnly, Alike, Shape, IoctlOver
<1>3. \A c: HeadOnly(s, Wakeup(s, c))
  BY DEF HeadOnly, Alike, Shape, Wakeup
<1>4. \A p \in Proc, c \in {"awake", "rd", "wrq", "stp", "dzp"}: HeadOnly(s, Sleep(s, p, c))
  BY DEF HeadOnly, Alike, Shape, Sleep
<1>5. \A flags: HeadOnly(s, [s EXCEPT !.head.flag = flags])
  BY DEF HeadOnly, Alike, Shape
<1>6. \A p \in Proc, c \in {"none", "open"}: HeadOnly(s, [s EXCEPT !.file[p] = c])
  BY DEF HeadOnly, Alike, Shape
<1> QED  BY <1>1, <1>2, <1>3, <1>4, <1>5, <1>6

\* A process enters the stream.
LEMMA EnterQueues ==
  ASSUME QInv, NEW p \in Proc, NEW call, NEW files, NEW w \in {"read", "write"},
         files \subseteq {"open", "nowrite"}, Enter(p, call, files, w)
  PROVE  QInv'
<1>1. Free /\ pc[p] = "idle" /\ k.head.open /\ Step(p, Stenter(k), w) /\ Keep
      /\ k.file[p] \in {"open", "nowrite"}
  BY DEF Enter, At
<1>2. /\ srv = NoService /\ Calm(k, sent, written) /\ written \in Nat /\ Shape(k)
      /\ pc \in [Proc -> Place] /\ Opened(k, pc)
  BY <1>1, FreeCalm, InsideOpen
<1>3. IsOpen(k)
  BY <1>1, <1>2 DEF Opened
<1>4. HeadOnly(k, Stenter(k))
  BY <1>2, HeadChanges
<1>5. Calm(Stenter(k), sent, written) /\ IsOpen(Stenter(k)) /\ Stenter(k).head.open
  BY <1>1, <1>2, <1>3, <1>4, HeadCalm
<1>6. SInv'
  BY EnterStep DEF QInv
<1> QED  BY <1>1, <1>2, <1>5, <1>6, StepCalm DEF Keep

\* stread.
LEMMA StreadQueues ==
  ASSUME QInv, NEW p \in Proc, Stread(p)
  PROVE  QInv'
<1>1. Free /\ pc[p] = "read" /\ pc[p] \in Inner \ {"opening", "reopen"}
  BY DEF Stread, At, Inner
<1>2. /\ srv = NoService /\ Calm(k, sent, written) /\ written \in Nat /\ Shape(k)
      /\ pc \in [Proc -> Place] /\ Opened(k, pc) /\ k.head.open /\ IsOpen(k)
  BY <1>1, FreeCalm, InsideOpen
<1>3. SInv'
  BY StreadGood DEF QInv
<1>4. PICK s : s = Getq(k, "rd")
  OBVIOUS
<1>5. PICK back : back = Putbq(s, "rd", Char)
  OBVIOUS
<1>6. PICK t : t = Sleep([s EXCEPT !.head.flag = @ \cup {"RSLEEP"}], p, "rd")
  OBVIOUS
<1>7. \/ Leave(p, s) \/ Leave(p, back) \/ (Step(p, t, "read") /\ Keep)
      \/ (Step(p, s, "copy") /\ UNCHANGED <<srv, written, sent, calls>>)
  BY <1>4, <1>5, <1>6 DEF Stread
<1>8. Calm(s, sent, written) /\ IsOpen(s) /\ s.head.open /\ Shape(s)
  BY <1>2, <1>4, ReadCalm, GetqFramed, FramedShape DEF Plumbed, Framed
<1>9. Calm(back, sent, written) /\ IsOpen(back) /\ back.head.open
  BY <1>5, <1>8, ReadCalm, PutqFramed DEF Plumbed, Framed
<1>10. Calm(t, sent, written) /\ IsOpen(t) /\ t.head.open
  <2>1. PICK flags : flags = s.head.flag \cup {"RSLEEP"}
    OBVIOUS
  <2>2. PICK s0 : s0 = [s EXCEPT !.head.flag = flags]
    OBVIOUS
  <2>3. t = Sleep(s0, p, "rd")
    BY <1>6, <2>1, <2>2
  <2>4. HeadOnly(s, s0)
    BY <1>8, <2>2, HeadChanges
  <2>5. HeadOnly(s0, t)
    BY <2>3, <2>4, HeadChanges DEF HeadOnly, Alike
  <2> QED  BY <1>8, <2>4, <2>5, HeadOnlyOn, HeadCalm
<1> QED  BY <1>2, <1>3, <1>7, <1>8, <1>9, <1>10, StepCalm, LeaveCalm DEF Keep
\* ... and what follows the copy of a block.
LEMMA StreadCopiedQueues ==
  ASSUME QInv, NEW p \in Proc, StreadCopied(p)
  PROVE  QInv'
<1>1. Free /\ pc[p] = "copy" /\ pc[p] \in Inner \ {"opening", "reopen"}
  BY DEF StreadCopied, At, Inner
<1>2. /\ srv = NoService /\ Calm(k, sent, written) /\ written \in Nat /\ Shape(k)
      /\ pc \in [Proc -> Place] /\ Opened(k, pc) /\ k.head.open /\ IsOpen(k)
  BY <1>1, FreeCalm, InsideOpen
<1>3. SInv'
  BY StreadCopiedGood DEF QInv
<1>4. PICK back : back = Putbq(k, "rd", Char)
  OBVIOUS
<1>5. (Step(p, k, "read") /\ Keep) \/ Leave(p, back)
  BY <1>4 DEF StreadCopied
<1>6. Calm(back, sent, written) /\ IsOpen(back) /\ back.head.open
  BY <1>2, <1>4, ReadCalm, PutqFramed DEF Plumbed, Framed
<1> QED  BY <1>2, <1>3, <1>5, <1>6, StepCalm, LeaveCalm DEF Keep

\* The blocks that the head sends down.
LEMMA SentDown ==
  /\ \A v \in Nat: [type |-> "DATA", n |-> v + 1] \in Fit("ldw")
  /\ \A p \in Proc: [type |-> "IOCTL", n |-> p] \in Fit("ldw")
                    /\ [type |-> "IOCTL", n |-> p].type # "DATA"
  /\ [type |-> "DELIM", n |-> 0] \in Fit("ldw") /\ [type |-> "DELIM", n |-> 0].type # "DATA"
BY DEF Fit, Output, Request, Delim

\* stwrite.
LEMMA StwriteQueues ==
  ASSUME QInv, NEW p \in Proc, Stwrite(p)
  PROVE  QInv'
<1>1. Free /\ pc[p] = "write" /\ pc[p] \in Inner \ {"opening", "reopen"}
  BY DEF Stwrite, At, Inner
<1>2. /\ srv = NoService /\ Calm(k, sent, written) /\ written \in Nat /\ Shape(k)
      /\ pc \in [Proc -> Place] /\ Opened(k, pc) /\ k.head.open /\ IsOpen(k)
  BY <1>1, FreeCalm, InsideOpen
<1>3. SInv'
  BY StwriteGood DEF QInv
<1>4. PICK s : s = Down(k, [type |-> "DELIM", n |-> 0])
  OBVIOUS
<1>5. PICK t : t = Sleep([k EXCEPT !.head.flag = @ \cup {"WSLEEP"}], p, "wrq")
  OBVIOUS
<1>6. \/ Leave(p, k) \/ (Step(p, t, "write") /\ Keep) \/ Leave(p, s) \/ (Step(p, k, "fill") /\ Keep)
  BY <1>4, <1>5 DEF Stwrite
<1>7. Calm(s, sent, written) /\ IsOpen(s) /\ s.head.open
  <2>1. Calm(s, sent, written) /\ Plumbed(k, s)
    BY <1>2, <1>4, SentDown, DownCalm
  <2>2. Quiet(k, s)
    BY <1>2, <1>4, DownQuiet
  <2> QED  BY <1>2, <2>1, <2>2 DEF Plumbed, Quiet
<1>8. Calm(t, sent, written) /\ IsOpen(t) /\ t.head.open
  <2>1. PICK flags : flags = k.head.flag \cup {"WSLEEP"}
    OBVIOUS
  <2>2. PICK s0 : s0 = [k EXCEPT !.head.flag = flags]
    OBVIOUS
  <2>3. t = Sleep(s0, p, "wrq")
    BY <1>5, <2>1, <2>2
  <2>4. HeadOnly(k, s0)
    BY <1>2, <2>2, HeadChanges
  <2>5. HeadOnly(s0, t)
    BY <2>3, <2>4, HeadChanges DEF HeadOnly, Alike
  <2> QED  BY <1>2, <2>4, <2>5, HeadOnlyOn, HeadCalm
<1> QED  BY <1>2, <1>3, <1>6, <1>7, <1>8, StepCalm, LeaveCalm DEF Keep
\* ... and the block that has been filled.
LEMMA StwriteFilledQueues ==
  ASSUME QInv, NEW p \in Proc, StwriteFilled(p)
  PROVE  QInv'
<1>1. Free /\ pc[p] = "fill" /\ pc[p] \in Inner \ {"opening", "reopen"}
  BY DEF StwriteFilled, At, Inner
<1>2. /\ srv = NoService /\ Calm(k, sent, written) /\ written \in Nat /\ Shape(k)
      /\ pc \in [Proc -> Place] /\ Opened(k, pc) /\ k.head.open /\ IsOpen(k)
  BY <1>1, FreeCalm, InsideOpen
<1>3. SInv'
  BY StwriteFilledGood DEF QInv
<1>4. PICK b : b = [type |-> "DATA", n |-> written + 1]
  OBVIOUS
<1>5. PICK s : s = Down(k, b)
  OBVIOUS
<1>6. Step(p, s, "write") /\ written' = written + 1 /\ UNCHANGED <<srv, sent, calls>>
  BY <1>4, <1>5 DEF StwriteFilled
<1>7. Calm(s, sent, written + 1) /\ Plumbed(k, s)
  BY <1>2, <1>4, <1>5, SentDown, DownCalm
<1>8. Quiet(k, s)
  BY <1>2, <1>5, DownQuiet
<1>9. IsOpen(s) /\ s.head.open /\ written + 1 \in Nat
  BY <1>2, <1>7, <1>8 DEF Plumbed, Quiet
<1> QED  BY <1>2, <1>3, <1>6, <1>7, <1>9, StepCalm

\* stioctl.
LEMMA IoctlQueues ==
  ASSUME QInv, NEW p \in Proc, Ioctl(p)
  PROVE  QInv'
<1>1. Free /\ pc[p] = "idle" /\ k.head.open /\ k.file[p] \in {"open", "nowrite"}
      /\ (Leave(p, Stenter(k)) \/ (Step(p, Stenter(k), "copyin") /\ Keep))
  BY DEF Ioctl, At
<1>2. /\ srv = NoService /\ Calm(k, sent, written) /\ written \in Nat /\ Shape(k)
      /\ pc \in [Proc -> Place] /\ Opened(k, pc)
  BY <1>1, FreeCalm, InsideOpen
<1>3. IsOpen(k)
  BY <1>1, <1>2 DEF Opened
<1>4. HeadOnly(k, Stenter(k))
  BY <1>2, HeadChanges
<1>5. Calm(Stenter(k), sent, written) /\ IsOpen(Stenter(k)) /\ Stenter(k).head.open
  BY <1>1, <1>2, <1>3, <1>4, HeadCalm
<1>6. SInv'
  BY IoctlGood DEF QInv
<1> QED  BY <1>1, <1>2, <1>5, <1>6, StepCalm, LeaveCalm DEF Keep
\* ... the ioctl is sent ...
LEMMA StioctlSendQueues ==
  ASSUME QInv, NEW p \in Proc, StioctlSend(p)
  PROVE  QInv'
<1>1. Free /\ pc[p] \in {"copyin", "iocget"} /\ pc[p] \in Inner \ {"opening", "reopen"}
  BY DEF StioctlSend, At, Inner
<1>2. /\ srv = NoService /\ Calm(k, sent, written) /\ written \in Nat /\ Shape(k)
      /\ pc \in [Proc -> Place] /\ Opened(k, pc) /\ k.head.open /\ IsOpen(k)
  BY <1>1, FreeCalm, InsideOpen
<1>3. SInv'
  BY StioctlSendGood DEF QInv
<1>4. PICK b : b = [type |-> "IOCTL", n |-> p]
  OBVIOUS
<1>5. PICK flags : flags = k.head.flag \cup {"IOCWAIT"}
  OBVIOUS
<1>6. PICK s : s = [k EXCEPT !.head.flag = flags]
  OBVIOUS
<1>7. \/ Leave(p, k) \/ (Step(p, Sleep(k, p, "stp"), "iocget") /\ Keep)
      \/ (Step(p, Down(s, b), "iocsent") /\ Keep)
  BY <1>4, <1>5, <1>6 DEF StioctlSend
<1>8. HeadOnly(k, s) /\ HeadOnly(k, Sleep(k, p, "stp"))
  BY <1>2, <1>6, HeadChanges
<1>9. /\ Calm(s, sent, written) /\ IsOpen(s) /\ s.head.open /\ Shape(s)
      /\ Calm(Sleep(k, p, "stp"), sent, written) /\ IsOpen(Sleep(k, p, "stp"))
      /\ Sleep(k, p, "stp").head.open
  BY <1>2, <1>8, HeadCalm DEF HeadOnly, Alike
<1>10. Calm(Down(s, b), sent, written) /\ IsOpen(Down(s, b)) /\ Down(s, b).head.open
  <2>1. b \in Fit("ldw") /\ b.type # "DATA"
    BY <1>4, SentDown
  <2>2. Calm(Down(s, b), sent, written) /\ Plumbed(s, Down(s, b))
    BY <1>2, <1>9, <2>1, DownCalm
  <2>3. Quiet(s, Down(s, b))
    BY <1>9, DownQuiet
  <2> QED  BY <1>9, <2>2, <2>3 DEF Plumbed, Quiet
<1> QED  BY <1>2, <1>3, <1>7, <1>9, <1>10, StepCalm, LeaveCalm DEF Keep
\* ... and answered.
LEMMA StioctlWaitQueues ==
  ASSUME QInv, NEW p \in Proc, StioctlWait(p)
  PROVE  QInv'
<1>1. Free /\ pc[p] \in {"iocsent", "iocwait"} /\ pc[p] \in Inner \ {"opening", "reopen"}
  BY DEF StioctlWait, At, Inner
<1>2. /\ srv = NoService /\ Calm(k, sent, written) /\ written \in Nat /\ Shape(k)
      /\ pc \in [Proc -> Place] /\ Opened(k, pc) /\ k.head.open /\ IsOpen(k)
  BY <1>1, FreeCalm, InsideOpen
<1>3. SInv'
  BY StioctlWaitGood DEF QInv
<1>4. PICK over : over = IoctlOver(k)
  OBVIOUS
<1>5. \/ Leave(p, over) \/ (Step(p, Sleep(k, p, "stp"), "iocwait") /\ Keep)
      \/ Leave(p, Wakeup(over, "stp"))
  BY <1>4 DEF StioctlWait
<1>6. HeadOnly(k, over) /\ HeadOnly(k, Sleep(k, p, "stp"))
  BY <1>2, <1>4, HeadChanges
<1>7. HeadOnly(k, Wakeup(over, "stp"))
  <2>1. Shape(over)
    BY <1>6 DEF HeadOnly, Alike
  <2> QED  BY <1>6, <2>1, HeadChanges, HeadOnlyOn
<1>8. \A t: HeadOnly(k, t) => Calm(t, sent, written) /\ IsOpen(t) /\ t.head.open
  BY <1>2, HeadCalm
<1> QED  BY <1>2, <1>3, <1>5, <1>6, <1>7, <1>8, StepCalm, LeaveCalm DEF Keep

\* Nothing has changed for those who use the line.
LEMMA OpenedSame ==
  ASSUME NEW s, NEW t, NEW pcs, Opened(s, pcs), t.head = s.head, t.file = s.file,
         IsOpen(t) <=> IsOpen(s)
  PROVE  Opened(t, pcs)
BY DEF Opened, Hungup

\* A process begins to open the stream, or gives up.
LEMMA OpenedMove ==
  ASSUME NEW s, NEW t, NEW pcs \in [Proc -> Place], NEW p \in Proc, NEW w \in Place,
         Opened(s, pcs), pcs[p] # "drain", IsOpen(t) <=> IsOpen(s),
         t.head.open = s.head.open,
         "STWOPEN" \in t.head.flag \/ Hungup(t) \/ IsOpen(t) \/ ~s.head.open,
         \A q \in Proc \ {p}: t.file[q] = s.file[q],
         \/ w = "reopen" /\ t.file[p] # "nowrite"
         \/ w = "idle" /\ t.file[p] = "none"
  PROVE  Opened(t, [pcs EXCEPT ![p] = w])
<1>1. PICK next : next = [pcs EXCEPT ![p] = w]
  OBVIOUS
<1>2. next[p] = w /\ \A q \in Proc \ {p}: next[q] = pcs[q]
  BY <1>1
<1>3. w \notin Inner \ {"opening", "reopen"} /\ w # "drain"
  BY DEF Inner
<1>4. ASSUME NEW q \in Proc
      PROVE  /\ next[q] \in Inner \ {"opening", "reopen"} => IsOpen(t)
             /\ t.file[q] = "nowrite" => IsOpen(t)
             /\ t.file[q] = "open" /\ next[q] \notin {"opening", "reopen"} => IsOpen(t)
             /\ next[q] = "drain" => ~t.head.open
  <2>1. CASE q = p
    BY <1>2, <1>3, <2>1
  <2>2. CASE q # p
    BY <1>2, <2>2 DEF Opened
  <2> QED  BY <2>1, <2>2
<1>5. IsOpen(t) => t.head.open \/ \E q \in Proc: next[q] = "drain"
  BY <1>2 DEF Opened
<1> QED  BY <1>1, <1>4, <1>5 DEF Opened

\* A process gives up its file, and leaves.
LEMMA LeaveNone ==
  ASSUME SInv', Opened(k, pc), srv = NoService, NEW p \in Proc, NEW s,
         Leave(p, s), pc \in [Proc -> Place], pc[p] # "drain",
         s.head.open = k.head.open, IsOpen(s) <=> IsOpen(k),
         Calm(s, sent, written), written \in Nat, s.file[p] = "none",
         \A q \in Proc \ {p}: s.file[q] = k.file[q],
         "STWOPEN" \in s.head.flag \/ Hungup(s) \/ IsOpen(s)
  PROVE  QInv'
<1>1. /\ k' = Stexit(s) /\ pc' = [pc EXCEPT ![p] = "idle"]
      /\ srv' = NoService /\ sent' = sent /\ written' = written
  BY DEF Leave, Step
<1>2. PICK t : t = Stexit(s)
  OBVIOUS
<1>3. /\ Calm(t, sent, written)
      /\ \/ t.head.open = s.head.open /\ Plumbed(s, t)
              /\ t.head.flag = s.head.flag /\ t.file = s.file
         \/ ~t.head.open /\ ~IsOpen(t)
  BY <1>2, StexitCalm
<1>4. CASE ~t.head.open /\ ~IsOpen(t)
  <2>1. Good(t, pc', 0)
    BY <1>1, <1>2 DEF SInv
  <2> QED  BY <1>4, <2>1, OpenedOut, <1>1, <1>2, <1>3, FlowCalm DEF QInv
<1>5. CASE /\ t.head.open = s.head.open /\ Plumbed(s, t)
           /\ t.head.flag = s.head.flag /\ t.file = s.file
  <2>1. /\ IsOpen(t) <=> IsOpen(k)
        /\ t.head.open = k.head.open
        /\ "STWOPEN" \in t.head.flag \/ Hungup(t) \/ IsOpen(t)
        /\ t.file[p] = "none" /\ \A q \in Proc \ {p}: t.file[q] = k.file[q]
    BY <1>5 DEF Plumbed, Hungup
  <2>2. PICK w \in Place : w = "idle"
    BY DEF Place
  <2>3. Opened(t, [pc EXCEPT ![p] = w])
    BY <2>1, <2>2, OpenedMove
  <2>4. Opened(t, pc')
    BY <1>1, <2>2, <2>3
  <2> QED  BY <1>1, <1>2, <1>3, <2>4, FlowCalm DEF QInv
<1> QED  BY <1>3, <1>4, <1>5

\* A new stream: the line was closed, and nothing was on it.
LEMMA OpenNewQueues ==
  ASSUME QInv, NEW p \in Proc, OpenNew(p)
  PROVE  QInv'
<1>1. Free /\ pc[p] = "idle" /\ ~k.head.open /\ Unlocked /\ Keep
      /\ pc' = [pc EXCEPT ![p] = "opening"]
  BY DEF OpenNew, At, Step
<1>2. /\ srv = NoService /\ Calm(k, sent, written) /\ written \in Nat /\ Typed(k) /\ Shape(k)
      /\ pc \in [Proc -> Place] /\ Opened(k, pc)
  BY <1>1, FreeCalm, InsideOpen
<1>3. SInv'
  BY OpenNewGood DEF QInv
<1>4. ~IsOpen(k)
  BY <1>1, <1>2 DEF Opened, Unlocked
<1>5. /\ Balanced(k, "none", FALSE) /\ Loose(k) /\ Ordered(k, sent, {}, written)
      /\ ~k.ld.on /\ k.q["dzw"].items = <<>> /\ k.q["ldw"].items = <<>>
  BY <1>2, <1>4 DEF Calm, Settled, Steady, Balanced, Loose, Fed
<1>6. PICK t : t = k'
  OBVIOUS
<1>7. PICK q : q = [n \in QueueName |-> CASE n = "dzw" -> NewQueue [] OTHER -> EmptyQueue]
  OBVIOUS
<1>8. PICK head : head = [open |-> TRUE, flag |-> {"STWOPEN"}, iocblk |-> NoProc, count |-> 1]
  OBVIOUS
<1>9. t = [k EXCEPT !.head = head, !.q = q, !.file[p] = "open"]
  BY <1>6, <1>7, <1>8 DEF OpenNew, Step
<1>10. /\ t.ld = k.ld /\ t.dz = k.dz /\ t.lost = k.lost /\ t.q = q /\ t.head = head
       /\ t.file[p] = "open" /\ \A r \in Proc \ {p}: t.file[r] = k.file[r]
  BY <1>2, <1>9 DEF Shape
<1>11. Shape(t) /\ Good(t, pc', 0)
  BY <1>3, <1>6 DEF SInv, Good
<1>12. /\ \A n \in QueueName: q[n].items = <<>> /\ q[n] \in Queue
       /\ \A n \in QueueName: q[n].flag \subseteq {"QWANTR"}
  <2>1. <<>> \in Seq(AnyBlock)
    OBVIOUS
  <2> HIDE DEF AnyBlock
  <2>2. NewQueue \in Queue /\ EmptyQueue \in Queue
    BY <2>1 DEF NewQueue, EmptyQueue, Queue, QFlag
  <2>3. \A n \in QueueName: q[n] = NewQueue \/ q[n] = EmptyQueue
    BY <1>7
  <2> QED  BY <2>2, <2>3 DEF NewQueue, EmptyQueue
<1>13. Typed(t)
  <2>1. q \in [QueueName -> Queue]
    BY <1>7, <1>12
  <2>2. \A n \in QueueName: q[n].items \in Items(n)
    BY <1>12, EmptyItems
  <2> QED  BY <1>2, <1>10, <1>11, <2>1, <2>2 DEF Typed
<1>14. Balanced(t, "none", FALSE)
  <2>1. \A n \in QueueName: Marked(t, n) /\ Asks(t, n)
    BY <1>10, <1>12 DEF Marked, Asks, Has
  <2>2. Fed(t, "none", "ldw", "dzw") /\ Fed(t, "none", "ldr", "rd")
    BY <1>5, <1>10, <1>12, QueueNames DEF Fed
  <2> QED  BY <1>13, <2>1, <2>2, QueueNames DEF Balanced
<1>15. t.q["dzw"].items = <<>> /\ t.q["ldw"].items = <<>>
  BY <1>10, <1>12, QueueNames
<1>16. Loose(t) /\ Busy(t) /\ ~IsOpen(t)
  BY <1>4, <1>5, <1>10, <1>15 DEF Loose, Busy, IsOpen
<1>17. Ordered(t, sent, {}, written)
  BY <1>5, <1>10, <1>15 DEF Ordered
<1>18. Calm(t, sent, written)
  BY <1>14, <1>16, <1>17 DEF Calm, Settled, Steady
<1>19. Opened(t, pc')
  <2>1. \A r \in Proc: pc[r] \notin Inner /\ k.file[r] \notin {"open", "nowrite"}
    BY <1>1 DEF QInv, SInv, Good, FilesFit, Inner
  <2>2. pc'[p] = "opening" /\ \A r \in Proc \ {p}: pc'[r] = pc[r]
    BY <1>1, <1>2
  <2>3. ASSUME NEW r \in Proc
        PROVE  /\ pc'[r] \notin Inner \ {"opening", "reopen"} /\ t.file[r] # "nowrite"
               /\ t.file[r] = "open" => pc'[r] = "opening"
               /\ pc'[r] # "drain"
    <3>1. CASE r = p
      BY <1>10, <2>2, <3>1
    <3>2. CASE r # p
      BY <1>1, <1>10, <2>1, <2>2, <3>2 DEF Unlocked
    <3> QED  BY <3>1, <3>2
  <2>4. "STWOPEN" \in t.head.flag
    BY <1>8, <1>10
  <2> QED  BY <1>16, <2>3, <2>4 DEF Opened
<1> QED  BY <1>1, <1>2, <1>6, <1>18, <1>19, <1>3, FlowCalm DEF QInv, Keep

\* dzopen.
LEMMA DzopenQueues ==
  ASSUME QInv, NEW p \in Proc, Dzopen(p)
  PROVE  QInv'
<1>1. Free /\ pc[p] = "opening" /\ pc[p] \in Inner
  BY DEF Dzopen, At, Inner
<1>2. /\ srv = NoService /\ Calm(k, sent, written) /\ written \in Nat /\ Typed(k) /\ Shape(k)
      /\ pc \in [Proc -> Place] /\ Opened(k, pc) /\ k.head.open
  BY <1>1, FreeCalm, InsideOpen
<1>3. SInv'
  BY DzopenGood DEF QInv
<1>4. CASE ~k.dz.carrier
  <2>1. PICK t : t = Sleep(k, p, "dzp")
    OBVIOUS
  <2>2. k' = t /\ pc' = pc /\ Keep
    BY <1>1, <1>2, <1>4, <2>1 DEF Dzopen, Step
  <2>3. HeadOnly(k, t)
    BY <1>2, <2>1, HeadChanges
  <2>4. Calm(t, sent, written) /\ (IsOpen(t) <=> IsOpen(k))
    BY <1>2, <2>3, HeadCalm
  <2>5. t.head = k.head /\ t.file = k.file
    BY <1>2, <2>1 DEF Sleep, Shape
  <2>6. Opened(t, pc)
    BY <1>2, <2>4, <2>5, OpenedSame
  <2> QED  BY <1>2, <1>3, <2>2, <2>4, <2>6, FlowCalm DEF QInv, Keep
<1>5. CASE k.dz.carrier
  <2>1. PICK state, flags :
          state = k.dz.state \cup {"ISOPEN"} /\ flags = k.head.flag \ {"STWOPEN"}
    OBVIOUS
  <2>2. PICK s : s = [k EXCEPT !.dz.state = state, !.head.flag = flags]
    OBVIOUS
  <2>3. Leave(p, Wakeup(s, "stp"))
    BY <1>5, <2>1, <2>2 DEF Dzopen
  <2>4. /\ Shape(s) /\ s.q = k.q /\ s.ld = k.ld /\ s.lost = k.lost
        /\ s.dz = [k.dz EXCEPT !.state = state] /\ s.head.open = k.head.open
    BY <1>2, <2>2 DEF Shape
  <2>5. s.dz \in LineState /\ s.dz.state = state /\ s.dz.oblock = k.dz.oblock
        /\ s.dz.timers = k.dz.timers
    <3>1. k.dz \in LineState /\ state \in SUBSET {"ISOPEN", "DZSTOP", "TIMEOUT"}
      BY <1>2, <2>1 DEF Typed, LineState
    <3> QED  BY <2>4, <3>1 DEF LineState
  <2>6. /\ Balanced(k, "none", FALSE) /\ Loose(k) /\ Ordered(k, sent, {}, written) /\ Busy(k)
    BY <1>2 DEF Calm, Settled, Steady
  <2>7. Balanced(s, "none", FALSE)
    BY <2>4, <2>5, <2>6, LineBalanced
  <2>8. Loose(s) /\ Busy(s) /\ IsOpen(s)
    BY <2>1, <2>4, <2>5, <2>6 DEF Loose, Busy, IsOpen
  <2>9. Ordered(s, sent, {}, written)
    BY <2>4, <2>5, <2>6 DEF Ordered
  <2>10. Calm(s, sent, written)
    BY <2>7, <2>8, <2>9 DEF Calm, Settled, Steady
  <2>11. HeadOnly(s, Wakeup(s, "stp"))
    BY <2>4, HeadChanges
  <2>12. /\ Calm(Wakeup(s, "stp"), sent, written) /\ IsOpen(Wakeup(s, "stp"))
         /\ Wakeup(s, "stp").head.open
    BY <1>2, <2>4, <2>8, <2>10, <2>11, HeadCalm
  <2> QED  BY <1>2, <1>3, <2>3, <2>12, LeaveCalm
<1> QED  BY <1>4, <1>5

\* The open that fails.
LEMMA DzopenFailsQueues ==
  ASSUME QInv, NEW p \in Proc, DzopenFails(p)
  PROVE  QInv'
<1>1. Free /\ pc[p] = "opening" /\ pc[p] \in Inner
  BY DEF DzopenFails, Inner
<1>2. /\ srv = NoService /\ Calm(k, sent, written) /\ written \in Nat /\ Shape(k)
      /\ pc \in [Proc -> Place] /\ Opened(k, pc) /\ k.head.open
  BY <1>1, FreeCalm, InsideOpen
<1>3. SInv'
  BY DzopenFailsGood DEF QInv
<1>4. PICK s0 : s0 = Sleep(k, p, "awake")
  OBVIOUS
<1>5. PICK s1 : s1 = Wakeup(s0, "stp")
  OBVIOUS
<1>6. PICK flags : flags = (s1.head.flag \ {"STWOPEN"}) \cup {"HUNGUP"}
  OBVIOUS
<1>7. PICK s : s = [s1 EXCEPT !.head.flag = flags, !.file[p] = "none"]
  OBVIOUS
<1>8. Leave(p, s)
  BY <1>4, <1>5, <1>6, <1>7 DEF DzopenFails
<1>9. HeadOnly(k, s0)
  BY <1>2, <1>4, HeadChanges
<1>10. HeadOnly(s0, s1) /\ Shape(s1)
  <2>1. Shape(s0)
    BY <1>9 DEF HeadOnly, Alike
  <2>2. HeadOnly(s0, s1)
    BY <1>5, <2>1, HeadChanges
  <2> QED  BY <2>2 DEF HeadOnly, Alike
<1>11. HeadOnly(s1, s) /\ s.head.flag = flags
  BY <1>7, <1>10 DEF HeadOnly, Alike, Shape
<1>12. HeadOnly(k, s)
  BY <1>9, <1>10, <1>11, HeadOnlyOn
<1>13. Calm(s, sent, written) /\ (IsOpen(s) <=> IsOpen(k)) /\ s.head.open = k.head.open
  BY <1>2, <1>12, HeadCalm
<1>14. s1.file = k.file
  BY <1>2, <1>4, <1>5 DEF Wakeup, Sleep, Shape
<1>15. s.file[p] = "none" /\ \A q \in Proc \ {p}: s.file[q] = k.file[q]
  BY <1>2, <1>7, <1>10, <1>14 DEF Shape
<1>16. Hungup(s)
  BY <1>6, <1>11 DEF Hungup
<1> QED  BY <1>1, <1>2, <1>3, <1>8, <1>13, <1>15, <1>16, LeaveNone

\* A stream that is open, or being opened, is opened ...
LEMMA OpenOldQueues ==
  ASSUME QInv, NEW p \in Proc, OpenOld(p)
  PROVE  QInv'
<1>1. Free /\ pc[p] = "idle" /\ k.head.open /\ Keep
      /\ k' = [Stenter(k) EXCEPT !.file[p] = "open"] /\ pc' = [pc EXCEPT ![p] = "reopen"]
  BY DEF OpenOld, At, Step
<1>2. /\ srv = NoService /\ Calm(k, sent, written) /\ written \in Nat /\ Shape(k)
      /\ pc \in [Proc -> Place] /\ Opened(k, pc)
  BY <1>1, FreeCalm, InsideOpen
<1>3. SInv'
  BY OpenOldGood DEF QInv
<1>4. PICK s : s = Stenter(k)
  OBVIOUS
<1>5. PICK t : t = [s EXCEPT !.file[p] = "open"]
  OBVIOUS
<1>6. HeadOnly(k, s)
  BY <1>2, <1>4, HeadChanges
<1>7. HeadOnly(s, t)
  BY <1>5, <1>6, HeadChanges DEF HeadOnly, Alike
<1>8. Calm(t, sent, written) /\ (IsOpen(t) <=> IsOpen(k)) /\ t.head.open = k.head.open
  BY <1>2, <1>6, <1>7, HeadOnlyOn, HeadCalm
<1>9. /\ t.head.flag = k.head.flag /\ t.file[p] = "open"
      /\ \A q \in Proc \ {p}: t.file[q] = k.file[q]
  BY <1>2, <1>4, <1>5 DEF Stenter, Shape
<1>10. "STWOPEN" \in t.head.flag \/ Hungup(t) \/ IsOpen(t)
  BY <1>1, <1>2, <1>8, <1>9 DEF Opened, Hungup
<1>11. PICK w \in Place : w = "reopen"
  BY DEF Place, Inner
<1>12. Opened(t, [pc EXCEPT ![p] = w])
  BY <1>1, <1>2, <1>8, <1>9, <1>10, <1>11, OpenedMove
<1>13. Opened(t, pc')
  BY <1>1, <1>11, <1>12
<1> QED  BY <1>1, <1>2, <1>3, <1>4, <1>5, <1>8, <1>13, FlowCalm DEF QInv, Keep
\* ... when the line is.
LEMMA ReopenQueues ==
  ASSUME QInv, NEW p \in Proc, Reopen(p)
  PROVE  QInv'
<1>1. Free /\ pc[p] = "reopen" /\ pc[p] \in Inner
  BY DEF Reopen, At, Inner
<1>2. /\ srv = NoService /\ Calm(k, sent, written) /\ written \in Nat /\ Typed(k) /\ Shape(k)
      /\ pc \in [Proc -> Place] /\ Opened(k, pc) /\ k.head.open
  BY <1>1, FreeCalm, InsideOpen
<1>3. SInv'
  BY ReopenGood DEF QInv
<1>4. CASE "STWOPEN" \in k.head.flag
  <2>1. PICK t : t = Sleep(k, p, "stp")
    OBVIOUS
  <2>2. k' = t /\ pc' = pc /\ Keep
    BY <1>1, <1>2, <1>4, <2>1 DEF Reopen, Step
  <2>3. HeadOnly(k, t)
    BY <1>2, <2>1, HeadChanges
  <2>4. Calm(t, sent, written) /\ (IsOpen(t) <=> IsOpen(k))
    BY <1>2, <2>3, HeadCalm
  <2>5. t.head = k.head /\ t.file = k.file
    BY <1>2, <2>1 DEF Sleep, Shape
  <2>6. Opened(t, pc)
    BY <1>2, <2>4, <2>5, OpenedSame
  <2> QED  BY <1>2, <1>3, <2>2, <2>4, <2>6, FlowCalm DEF QInv, Keep
<1>5. CASE "STWOPEN" \notin k.head.flag /\ Hungup(k)
  <2>0. PICK all \in BOOLEAN : all = FALSE
    OBVIOUS
  <2>1. PICK s : s = Flushq(k, "rd", all)
    OBVIOUS
  <2>2. PICK t : t = [s EXCEPT !.file[p] = "none"]
    OBVIOUS
  <2>3. Leave(p, t)
    BY <1>5, <2>0, <2>1, <2>2 DEF Reopen
  <2>4. Calm(s, sent, written) /\ Plumbed(k, s)
    BY <1>2, <2>1, FlushCalm
  <2>5. Framed(k, s) /\ Shape(s)
    BY <1>2, <2>1, FlushqFramed, FramedShape
  <2>6. HeadOnly(s, t)
    BY <2>2, <2>5, HeadChanges
  <2>7. Calm(t, sent, written) /\ (IsOpen(t) <=> IsOpen(k)) /\ t.head.open = k.head.open
    BY <2>4, <2>5, <2>6, HeadCalm DEF Plumbed, Framed
  <2>8. /\ t.head = k.head /\ t.file[p] = "none"
        /\ \A q \in Proc \ {p}: t.file[q] = k.file[q]
    BY <2>2, <2>5 DEF Framed, Shape
  <2>9. Hungup(t)
    BY <1>5, <2>8 DEF Hungup
  <2> QED  BY <1>1, <1>2, <1>3, <2>3, <2>7, <2>8, <2>9, LeaveNone
<1>6. CASE "STWOPEN" \notin k.head.flag /\ ~Hungup(k)
  <2>1. IsOpen(k)
    BY <1>2, <1>6 DEF Opened
  <2>2. Leave(p, k)
    BY <1>6 DEF Reopen
  <2> QED  BY <1>2, <1>3, <2>1, <2>2, LeaveCalm
<1> QED  BY <1>4, <1>5, <1>6

\* A signal.
LEMMA InterruptedQueues ==
  ASSUME QInv, NEW p \in Proc, Interrupted(p)
  PROVE  QInv'
<1>1. Free /\ pc[p] \in {"reopen", "read", "write", "iocget", "iocwait"} /\ pc[p] \in Inner
  BY DEF Interrupted, QInv, SInv, Good, Asleep, Inner
<1>2. /\ srv = NoService /\ Calm(k, sent, written) /\ written \in Nat /\ Shape(k)
      /\ pc \in [Proc -> Place] /\ Opened(k, pc) /\ k.head.open
      /\ pc[p] # "reopen" => IsOpen(k)
  BY <1>1, FreeCalm, InsideOpen
<1>3. SInv'
  BY InterruptedGood DEF QInv
<1>4. PICK s : s = Sleep(k, p, "awake")
  OBVIOUS
<1>5. PICK t : t = [s EXCEPT !.file[p] = "none"]
  OBVIOUS
<1>6. /\ pc[p] = "reopen" => Leave(p, t)
      /\ pc[p] # "reopen" => Leave(p, s) \/ Leave(p, IoctlOver(s))
  BY <1>4, <1>5 DEF Interrupted
<1>7. HeadOnly(k, s) /\ Shape(s)
  BY <1>2, <1>4, HeadChanges DEF HeadOnly, Alike
<1>8. HeadOnly(k, t) /\ HeadOnly(k, IoctlOver(s))
  <2>1. HeadOnly(s, t) /\ HeadOnly(s, IoctlOver(s))
    BY <1>5, <1>7, HeadChanges
  <2> QED  BY <1>7, <2>1, HeadOnlyOn
<1>9. CASE pc[p] # "reopen"
  <2>1. \A v: HeadOnly(k, v) => Calm(v, sent, written) /\ IsOpen(v) /\ v.head.open
    BY <1>2, <1>9, HeadCalm
  <2> QED  BY <1>2, <1>3, <1>6, <1>7, <1>8, <1>9, <2>1, LeaveCalm
<1>10. CASE pc[p] = "reopen"
  <2>1. Calm(t, sent, written) /\ (IsOpen(t) <=> IsOpen(k)) /\ t.head.open = k.head.open
    BY <1>2, <1>8, HeadCalm
  <2>2. /\ t.head = k.head /\ t.file[p] = "none"
        /\ \A q \in Proc \ {p}: t.file[q] = k.file[q]
    BY <1>2, <1>4, <1>5 DEF Sleep, Shape
  <2>3. "STWOPEN" \in t.head.flag \/ Hungup(t) \/ IsOpen(t)
    BY <1>2, <2>1, <2>2 DEF Opened, Hungup
  <2> QED  BY <1>2, <1>3, <1>6, <1>10, <2>1, <2>2, <2>3, LeaveNone
<1> QED  BY <1>9, <1>10

\* ttyld is pushed ...
LEMMA PushQueues ==
  ASSUME QInv, NEW p \in Proc, Push(p)
  PROVE  QInv'
<1>1. Free /\ pc[p] = "idle" /\ k.head.open /\ ~k.ld.on /\ k.file[p] = "open" /\ Keep
      /\ pc' = [pc EXCEPT ![p] = "idle"]
  BY DEF Push, At, Step
<1>2. /\ srv = NoService /\ Calm(k, sent, written) /\ written \in Nat /\ Typed(k) /\ Shape(k)
      /\ pc \in [Proc -> Place] /\ Opened(k, pc)
  BY <1>1, FreeCalm, InsideOpen
<1>3. SInv'
  BY PushPopGood DEF QInv
<1>4. IsOpen(k) /\ pc' = pc
  BY <1>1, <1>2 DEF Opened
<1>5. /\ Balanced(k, "none", FALSE) /\ Loose(k) /\ Busy(k) /\ Ordered(k, sent, {}, written)
      /\ k.q["ldw"].items = <<>>
  BY <1>1, <1>2 DEF Calm, Settled, Steady, Balanced, Fed
<1>6. PICK t : t = k'
  OBVIOUS
<1>7. PICK q : q = [k.q EXCEPT !["ldr"] = NewQueue, !["ldw"] = NewQueue]
  OBVIOUS
<1>8. t = [k EXCEPT !.ld = [on |-> TRUE, stop |-> FALSE], !.q["ldr"] = NewQueue,
                    !.q["ldw"] = NewQueue]
  BY <1>6 DEF Push, Step
<1>9. /\ Shape(t) /\ t.q = q /\ t.dz = k.dz /\ t.lost = k.lost
      /\ t.head = k.head /\ t.file = k.file
      /\ t.ld = [on |-> TRUE, stop |-> FALSE]
  BY <1>2, <1>7, <1>8 DEF Shape
<1>10. NewQueue \in Queue /\ NewQueue.items = <<>> /\ NewQueue.flag = {"QWANTR"}
  <2>1. <<>> \in Seq(AnyBlock)
    OBVIOUS
  <2> HIDE DEF AnyBlock
  <2> QED  BY <2>1 DEF NewQueue, Queue, QFlag
<1>11. /\ q \in [QueueName -> Queue] /\ q["ldr"] = NewQueue /\ q["ldw"] = NewQueue
       /\ \A n \in QueueName \ {"ldr", "ldw"}: q[n] = k.q[n]
  BY <1>2, <1>7, <1>10, QueueNames DEF Typed
<1>12. Typed(t)
  <2>1. \A n \in QueueName: q[n].items \in Items(n)
    BY <1>2, <1>10, <1>11, EmptyItems DEF Typed
  <2> QED  BY <1>2, <1>9, <1>11, <2>1 DEF Typed
<1>13. Balanced(t, "none", FALSE)
  <2>1. \A n \in QueueName: Marked(t, n)
    BY <1>5, <1>9, <1>10, <1>11 DEF Balanced, Marked, Has
  <2>2. Asks(t, "rd") /\ Asks(t, "dzw")
    BY <1>5, <1>9, <1>11, QueueNames DEF Balanced, Asks, Has
  <2>3. Fed(t, "none", "ldw", "dzw") /\ Fed(t, "none", "ldr", "rd")
    BY <1>9, <1>10, <1>11 DEF Fed, Has
  <2> QED  BY <1>12, <2>1, <2>2, <2>3 DEF Balanced
<1>14. t.q["dzw"] = k.q["dzw"] /\ t.q["ldw"].items = <<>>
  BY <1>9, <1>10, <1>11, QueueNames
<1>15. Loose(t) /\ Busy(t) /\ IsOpen(t)
  BY <1>4, <1>5, <1>9, <1>14 DEF Loose, Busy, IsOpen
<1>16. Ordered(t, sent, {}, written)
  BY <1>5, <1>9, <1>14 DEF Ordered
<1>17. Calm(t, sent, written)
  BY <1>13, <1>15, <1>16 DEF Calm, Settled, Steady
<1>18. Opened(t, pc)
  BY <1>2, <1>4, <1>9, <1>15, OpenedSame
<1> QED  BY <1>1, <1>2, <1>3, <1>4, <1>6, <1>17, <1>18, FlowCalm DEF QInv, Keep
\* ... and popped.
LEMMA PopQueues ==
  ASSUME QInv, NEW p \in Proc, Pop(p)
  PROVE  QInv'
<1>1. Free /\ pc[p] = "idle" /\ k' = DetachLd(k) /\ Keep /\ pc' = [pc EXCEPT ![p] = "idle"]
  BY DEF Pop, At, Step
<1>2. /\ srv = NoService /\ Calm(k, sent, written) /\ written \in Nat /\ Shape(k)
      /\ pc \in [Proc -> Place] /\ Opened(k, pc)
  BY <1>1, FreeCalm, InsideOpen
<1>3. SInv'
  BY PushPopGood DEF QInv
<1>4. PICK t : t = DetachLd(k)
  OBVIOUS
<1>5. Calm(t, sent, written) /\ (IsOpen(t) <=> IsOpen(k))
  BY <1>2, <1>4, DetachLdCalm
<1>6. t.head = k.head /\ t.file = k.file
  BY <1>2, <1>4, DetachFramed DEF Framed
<1>7. Opened(t, pc) /\ pc' = pc
  BY <1>1, <1>2, <1>5, <1>6, OpenedSame
<1> QED  BY <1>1, <1>2, <1>3, <1>4, <1>5, <1>7, FlowCalm DEF QInv, Keep

\* A file is closed ...
LEMMA CloseQueues ==
  ASSUME QInv, NEW p \in Proc, Close(p)
  PROVE  QInv'
<1>1. Free /\ pc[p] = "idle" /\ Keep /\ Unlocked
  BY DEF Close, At
<1>2. /\ srv = NoService /\ Calm(k, sent, written) /\ written \in Nat /\ Shape(k)
      /\ pc \in [Proc -> Place] /\ Opened(k, pc)
  BY <1>1, FreeCalm, InsideOpen
<1>3. SInv'
  BY CloseGood DEF QInv
<1>4. PICK s : s = [k EXCEPT !.file[p] = "none"]
  OBVIOUS
<1>5. HeadOnly(k, s) /\ Shape(s)
  BY <1>2, <1>4, HeadChanges DEF HeadOnly, Alike
<1>6. Calm(s, sent, written) /\ (IsOpen(s) <=> IsOpen(k)) /\ s.head.open = k.head.open
  BY <1>2, <1>5, HeadCalm
<1>7. PICK t : t = [s EXCEPT !.head.open = FALSE]
  OBVIOUS
<1>8. \/ Step(p, s, "idle")
      \/ k.head.open /\ Step(p, t, "drain")
  BY <1>4, <1>7 DEF Close
<1>9. CASE Step(p, s, "idle")
  <2>1. k' = s /\ pc' = [pc EXCEPT ![p] = "idle"]
    BY <1>9 DEF Step
  <2>2. /\ s.head = k.head /\ s.file[p] = "none"
        /\ \A q \in Proc \ {p}: s.file[q] = k.file[q]
    BY <1>2, <1>4 DEF Shape
  <2>3. "STWOPEN" \in s.head.flag \/ Hungup(s) \/ IsOpen(s) \/ ~k.head.open
    BY <1>2, <1>6, <2>2 DEF Opened, Hungup
  <2>4. PICK w \in Place : w = "idle"
    BY DEF Place
  <2>5. Opened(s, [pc EXCEPT ![p] = w])
    BY <1>1, <1>2, <1>6, <2>2, <2>3, <2>4, OpenedMove
  <2>6. Opened(s, pc')
    BY <2>1, <2>4, <2>5
  <2> QED  BY <1>1, <1>2, <1>3, <1>6, <2>1, <2>6, FlowCalm DEF QInv, Keep
<1>10. CASE k.head.open /\ Step(p, t, "drain")
  <2>1. k' = t /\ pc' = [pc EXCEPT ![p] = "drain"]
    BY <1>10 DEF Step
  <2>2. Alike(s, t) /\ ~t.head.open
    BY <1>5, <1>7 DEF Alike, Shape
  <2>3. Calm(t, sent, written)
    BY <1>6, <2>2, AlikeCalm
  <2>4. Good(t, pc', 0)
    BY <1>3, <2>1 DEF SInv
  <2>5. \E q \in Proc: pc'[q] = "drain"
    BY <1>2, <2>1
  <2>6. Opened(t, pc')
    BY <2>2, <2>4, <2>5 DEF Opened, Good, FilesFit, Inner
  <2> QED  BY <1>1, <1>2, <1>3, <2>1, <2>3, <2>6, FlowCalm DEF QInv, Keep
<1> QED  BY <1>8, <1>9, <1>10
\* ... and the stream, when it was the last.
LEMMA DrainQueues ==
  ASSUME QInv, NEW p \in Proc, Drain(p)
  PROVE  QInv'
<1>1. Free /\ pc[p] = "drain" /\ Keep
  BY DEF Drain, At
<1>2. /\ srv = NoService /\ Calm(k, sent, written) /\ written \in Nat /\ Shape(k)
      /\ pc \in [Proc -> Place] /\ Opened(k, pc)
  BY <1>1, FreeCalm, InsideOpen
<1>3. SInv'
  BY DrainGood DEF QInv
<1>4. ~k.head.open
  BY <1>1, <1>2 DEF Opened
<1>5. CASE k.ld.on
  <2>1. PICK t : t = DetachLd(k)
    OBVIOUS
  <2>2. k' = t /\ pc' = pc
    BY <1>1, <1>2, <1>5, <2>1 DEF Drain, Step
  <2>3. Calm(t, sent, written) /\ (IsOpen(t) <=> IsOpen(k))
    BY <1>2, <2>1, DetachLdCalm
  <2>4. t.head = k.head /\ t.file = k.file
    BY <1>2, <2>1, DetachFramed DEF Framed
  <2>5. Opened(t, pc)
    BY <1>2, <2>3, <2>4, OpenedSame
  <2> QED  BY <1>1, <1>2, <1>3, <2>2, <2>3, <2>5, FlowCalm DEF QInv, Keep
<1>6. CASE ~k.ld.on
  <2>1. PICK t : t = FreeStream(DetachDz(k))
    OBVIOUS
  <2>2. k' = t
    BY <1>6, <2>1 DEF Drain, Step
  <2>3. Calm(t, sent, written) /\ ~IsOpen(t)
    BY <1>2, <1>6, <2>1, DetachDzCalm
  <2>4. ~t.head.open
    BY <1>2, <1>4, <2>1, DetachFramed, FramedShape DEF Framed
  <2>5. Good(t, pc', 0)
    BY <1>3, <2>2 DEF SInv
  <2>6. Opened(t, pc')
    BY <2>3, <2>4, <2>5, OpenedOut
  <2> QED  BY <1>1, <1>2, <1>3, <2>2, <2>3, <2>6, FlowCalm DEF QInv, Keep
<1> QED  BY <1>5, <1>6

-----------------------------------------------------------------------------
(* The service procedures                                                  *)

\* A step below the head.
LEMMA BelowQueues ==
  ASSUME QInv, Service \/ Interrupt, Quiet(k, k'), UNCHANGED pc, Plumbed(k, k'),
         Flow(k, srv, sent, written)'
  PROVE  QInv'
<1>1. SInv'
  BY BelowGood DEF QInv
<1>2. Opened(k', pc)
  BY OpenedQuiet DEF QInv
<1>3. Opened(k', pc')
  BY <1>2
<1> QED  BY <1>1, <1>3 DEF QInv

\* The queue that is served next is no longer enabled: its service procedure runs.
LEMMA DequeuedBalanced ==
  ASSUME NEW s, Balanced(s, "none", FALSE), NEW n, NEW run,
         NEW t, t = [s EXCEPT !.run = run, !.q[n].flag = @ \ {"QENAB"}]
  PROVE  /\ Balanced(t, n, FALSE) /\ (n = "wrq" => Balanced(t, "none", FALSE))
         /\ Upward(s, t) /\ Shape(t)
<1>1. Typed(s) /\ Shape(s)
  BY DEF Balanced, Typed
<1>2. PICK q : q = [s.q EXCEPT ![n].flag = @ \ {"QENAB"}]
  OBVIOUS
<1>3. t.q = q /\ Shape(t) /\ t.ld = s.ld /\ t.dz = s.dz /\ t.lost = s.lost
  BY <1>1, <1>2 DEF Shape
<1>4. ASSUME NEW m \in QueueName
      PROVE  /\ q[m] \in Queue /\ q[m].items = s.q[m].items
             /\ q[m].flag = IF m = n THEN s.q[m].flag \ {"QENAB"} ELSE s.q[m].flag
  BY <1>1, <1>2 DEF Typed, Queue
<1>5. q \in [QueueName -> Queue]
  <2>1. DOMAIN q = QueueName /\ q = [m \in QueueName |-> q[m]]
    BY <1>1, <1>2 DEF Typed
  <2> QED  BY <1>4, <2>1
<1>6. Typed(t)
  BY <1>1, <1>3, <1>4, <1>5 DEF Typed
<1>7. \A m \in QueueName: /\ \A f: f # "QENAB" => (Has(t, m, f) <=> Has(s, m, f))
                          /\ m # n => (Has(t, m, "QENAB") <=> Has(s, m, "QENAB"))
                          /\ t.q[m].items = s.q[m].items
  BY <1>3, <1>4 DEF Has
<1>8. \A m \in QueueName: Marked(t, m)
  BY <1>7 DEF Balanced, Marked
<1>9. Asks(t, "rd") /\ Asks(t, "dzw")
  BY <1>7, QueueNames DEF Balanced, Asks
<1>10. Fed(t, n, "ldw", "dzw") /\ Fed(t, n, "ldr", "rd")
  BY <1>3, <1>7, QueueNames DEF Balanced, Fed, Serviced
<1>11. n = "wrq" => Fed(t, "none", "ldw", "dzw") /\ Fed(t, "none", "ldr", "rd")
  BY <1>10 DEF Fed, Serviced
<1>12. Upward(s, t)
  BY <1>3, <1>7, QueueNames DEF Upward
<1> QED  BY <1>3, <1>6, <1>8, <1>9, <1>10, <1>11, <1>12 DEF Balanced

\* queuerun.
LEMMA QueuerunQueues ==
  ASSUME QInv, Queuerun
  PROVE  QInv'
<1>1. srv = NoService /\ Calm(k, sent, written) /\ written \in Nat
  BY FlowCalm DEF QInv, Flow, SrvOK, Queuerun
<1>2. PICK n : n = Head(k.run)
  OBVIOUS
<1>3. PICK s : s = [k EXCEPT !.run = Tail(k.run), !.q[n].flag = @ \ {"QENAB"}]
  OBVIOUS
<1>4. \/ n = "wrq" /\ srv' = srv
           /\ (k' = s \/ k' = Wakeup([s EXCEPT !.head.flag = @ \ {"WSLEEP"}], "wrq"))
      \/ n # "wrq" /\ srv' = [NoService EXCEPT !.q = n] /\ k' = s
  BY <1>2, <1>3 DEF Queuerun
<1>5. UNCHANGED <<pc, sent, written>>
  BY DEF Queuerun
<1>6. Steady(k, "none", FALSE, sent, {}, written) /\ Balanced(k, "none", FALSE) /\ Busy(k)
      /\ Loose(k) /\ Ordered(k, sent, {}, written)
  BY <1>1 DEF Calm, Settled, Steady
<1>7. /\ Balanced(s, n, FALSE) /\ (n = "wrq" => Balanced(s, "none", FALSE))
      /\ Upward(k, s) /\ Shape(s)
  BY <1>3, <1>6, DequeuedBalanced
<1>8. /\ Loose(s) /\ Busy(s) /\ Ordered(s, sent, {}, written) /\ Plumbed(k, s)
  BY <1>6, <1>7 DEF Upward, Loose, Busy, Ordered, Plumbed, IsOpen
<1>9. Settled(s, n, FALSE, sent, {}, written)
  BY <1>7, <1>8 DEF Settled, Steady
<1>10. Quiet(k, k')
  BY ServiceQuiet DEF QInv, Service
<1>11. CASE n = "wrq"
  <2>1. Calm(s, sent, written)
    BY <1>7, <1>8, <1>11 DEF Calm, Settled, Steady
  <2>2. Calm(k', sent, written) /\ Plumbed(s, k')
    <3>1. PICK flags : flags = s.head.flag \ {"WSLEEP"}
      OBVIOUS
    <3>2. PICK s1 : s1 = [s EXCEPT !.head.flag = flags]
      OBVIOUS
    <3>3. k' = s \/ k' = Wakeup(s1, "wrq")
      BY <1>4, <1>11, <3>1, <3>2
    <3>4. HeadOnly(s, s) /\ HeadOnly(s, s1) /\ Shape(s1)
      <4>1. HeadOnly(s, s) /\ HeadOnly(s, s1)
        BY <1>7, <3>2, HeadChanges
      <4> QED  BY <4>1 DEF HeadOnly, Alike
    <3>5. HeadOnly(s1, Wakeup(s1, "wrq"))
      BY <3>4, HeadChanges
    <3>6. HeadOnly(s, k')
      BY <3>3, <3>4, <3>5, HeadOnlyOn
    <3> QED  BY <2>1, <3>6, AlikeCalm DEF HeadOnly
  <2>3. Flow(k', srv', sent', written')
    BY <1>1, <1>4, <1>5, <1>11, <2>2, FlowCalm
  <2> QED  BY <1>5, <1>8, <1>10, <2>2, <2>3, PlumbedOn, BelowQueues DEF Service
<1>12. CASE n # "wrq"
  <2>1. srv' = [q |-> n, b |-> NoBlock, full |-> FALSE] /\ k' = s
    BY <1>4, <1>12 DEF NoService
  <2>2. Held(srv') = {}
    BY <2>1 DEF Held, Num, NoBlock
  <2>3. SrvOK(s, srv')
    BY <2>1 DEF SrvOK, NoService
  <2>4. Flow(s, srv', sent, written)
    BY <1>1, <1>9, <2>1, <2>2, <2>3 DEF Flow
  <2>5. Flow(k', srv', sent', written')
    BY <1>5, <2>1, <2>4
  <2> QED  BY <1>5, <1>8, <1>10, <2>1, <2>5, BelowQueues DEF Service
<1> QED  BY <1>11, <1>12

\* getq clears no flag of another queue.
LEMMA GetqOther ==
  ASSUME NEW s, NEW n \in QueueName, Typed(s), NEW m \in QueueName \ {n}, NEW f, Has(s, m, f)
  PROVE  Has(Getq(s, n), m, f)
<1>1. PICK x : x = s.q[n].items
  OBVIOUS
<1>2. x \in Items(n)
  BY <1>1 DEF Typed
<1>3. CASE x = <<>>
  <2>1. PICK set \in SUBSET QFlag : set = IF Has(s, n, "QENAB") THEN {} ELSE {"QWANTR"}
    BY DEF QFlag
  <2>2. Getq(s, n) = Left(s, n, <<>>, set, {})
    BY <1>1, <1>3, <2>1 DEF Getq, GetNone
  <2>3. LeftTo(s, n, <<>>, set, {}, Getq(s, n))
    BY <2>2, EmptyItems, LeftFacts
  <2> QED  BY <2>3 DEF LeftTo, Has
<1>4. CASE x # <<>>
  <2>1. Len(x) \in Nat /\ Len(x) # 0
    BY <1>2, <1>4, EmptyItems
  <2>2. PICK y : y = SubSeq(x, 2, Len(x))
    OBVIOUS
  <2>3. y \in Items(n)
    <3>1. 1 \in 0..Len(x) /\ 1 + 1 = 2
      BY <2>1
    <3> QED  BY <1>2, <2>2, <3>1, SubItems
  <2>4. PICK set \in SUBSET QFlag : set = {}
    OBVIOUS
  <2>5. Getq(s, n) = Left(s, n, y, set, {"QWANTR"})
    <3>1. 1 + 1 = 2
      OBVIOUS
    <3> QED  BY <1>1, <1>4, <2>2, <2>4, <3>1 DEF Getq, GetFirst
  <2>6. LeftTo(s, n, y, set, {"QWANTR"}, Getq(s, n))
    BY <2>3, <2>5, LeftFacts
  <2> QED  BY <2>6 DEF LeftTo, Has
<1> QED  BY <1>3, <1>4

\* Another service procedure runs, or none.
LEMMA Rebalanced ==
  ASSUME NEW s, NEW sv, NEW full, Balanced(s, sv, full), NEW sw, NEW fuller,
         Fed(s, sw, "ldw", "dzw"), Fed(s, sw, "ldr", "rd"),
         fuller => s.ld.on /\ Serviced(s, "none", "ldw", "dzw")
  PROVE  Balanced(s, sw, fuller)
BY DEF Balanced

\* ttyosrv takes a block, or ends.
LEMMA TtyosrvGetQueues ==
  ASSUME QInv, TtyosrvGet
  PROVE  QInv'
<1>1. PICK x : x = k.q["ldw"].items
  OBVIOUS
<1>2. PICK t : t = Getq(k, "ldw")
  OBVIOUS
<1>3. /\ srv.q = "ldw" /\ srv.b = NoBlock /\ k' = t /\ UNCHANGED <<pc, nc, written, sent>>
      /\ srv' = IF x = <<>> THEN NoService
                ELSE [srv EXCEPT !.b = Head(x), !.full = Has(k, "dzw", "QFULL")]
  BY <1>1, <1>2 DEF TtyosrvGet
<1>4. Held(srv) = {}
  BY <1>3 DEF Held, Num, NoBlock
<1>5. PICK full \in BOOLEAN : full = srv.full
  BY DEF QInv, Flow, SrvOK
<1>6. /\ Steady(k, "ldw", full, sent, {}, written) /\ Busy(k) /\ written \in Nat
      /\ Balanced(k, "ldw", full) /\ Typed(k) /\ DOMAIN srv = {"q", "b", "full"}
  BY <1>3, <1>4, <1>5 DEF QInv, Flow, SrvOK, Settled, Steady, Balanced
<1>7. Steady(t, "ldw", full, sent, IF x = <<>> THEN {} ELSE Num(x[1]), written)
      /\ Plumbed(k, t) /\ Busy(t)
  BY <1>1, <1>2, <1>6, DownGet
<1>8. Balanced(t, "ldw", full) /\ Loose(t)
      /\ Ordered(t, sent, IF x = <<>> THEN {} ELSE Num(x[1]), written)
  BY <1>7 DEF Steady
<1>9. Quiet(k, k')
  BY ServiceQuiet DEF QInv, Service
<1>10. CASE x = <<>>
  <2>1. t.q["ldw"].items = <<>>
    <3>1. k.q["ldw"].items = <<>>
      BY <1>1, <1>10
    <3>2. GetTo(k, "ldw", <<>>, t)
      BY <1>2, <1>6, <3>1, GetFacts, QueueNames
    <3> QED  BY <3>2 DEF GetTo
  <2>2. Has(t, "ldw", "QWANTR") \/ Has(t, "ldw", "QENAB")
    BY <1>1, <1>2, <1>6, <1>10, GetqBalanced, QueueNames
  <2>3. Fed(t, "none", "ldw", "dzw") /\ Fed(t, "none", "ldr", "rd")
    BY <1>8, <2>1, <2>2 DEF Balanced, Fed, Serviced
  <2>4. Balanced(t, "none", FALSE)
    BY <1>8, <2>3, Rebalanced
  <2>5. Calm(t, sent, written)
    BY <1>7, <1>8, <1>10, <2>4 DEF Calm, Settled, Steady
  <2>6. srv' = NoService
    BY <1>3, <1>10
  <2>7. Flow(t, NoService, sent, written)
    BY <1>6, <2>5, FlowCalm
  <2> QED  BY <1>3, <1>7, <1>9, <2>6, <2>7, BelowQueues DEF Service
<1>11. CASE x # <<>>
  <2>1. x \in Items("ldw") /\ k.ld.on
    BY <1>1, <1>6, <1>11, QueueNames DEF Balanced, Typed, Fed
  <2>2. Head(x) = x[1] /\ x[1] \in Fit("ldw")
    <3>1. Len(x) \in Nat /\ Len(x) # 0
      BY <1>11, <2>1, EmptyItems
    <3>2. 1 \in 1..Len(x)
      BY <3>1
    <3> QED  BY <1>11, <2>1, <3>2 DEF Items
  <2>3. PICK fuller \in BOOLEAN : fuller = Has(k, "dzw", "QFULL")
    <3>1. Has(k, "dzw", "QFULL") \in BOOLEAN
      BY SMT DEF Has
    <3> QED  BY <3>1
  <2>4. /\ srv'.q = "ldw" /\ srv'.b = x[1] /\ srv'.full = fuller
        /\ DOMAIN srv' = {"q", "b", "full"}
    BY <1>3, <1>6, <1>11, <2>2, <2>3
  <2>5. t.ld.on
    BY <1>7, <2>1 DEF Plumbed
  <2>6. fuller => Has(t, "dzw", "QWANTW")
    <3>1. fuller => Has(k, "dzw", "QWANTW")
      BY <1>6, <2>3 DEF Balanced, Asks
    <3>2. "dzw" \in QueueName \ {"ldw"}
      BY QueueNames
    <3> QED  BY <1>2, <1>6, <3>1, <3>2, GetqOther, QueueNames
  <2>7. Balanced(t, "ldw", fuller)
    <3>1. fuller => t.ld.on /\ Serviced(t, "none", "ldw", "dzw")
      BY <2>5, <2>6 DEF Serviced
    <3>2. Fed(t, "ldw", "ldw", "dzw") /\ Fed(t, "ldw", "ldr", "rd")
      BY <1>8 DEF Balanced
    <3> QED  BY <1>8, <3>1, <3>2, Rebalanced
  <2>8. Held(srv') = Num(x[1])
    BY <2>4 DEF Held
  <2>9. Settled(t, "ldw", fuller, sent, Num(x[1]), written)
    BY <1>7, <1>8, <1>11, <2>7 DEF Settled, Steady
  <2>10. SrvOK(t, srv')
    BY <2>2, <2>4, <2>5 DEF SrvOK
  <2>11. Flow(t, srv', sent, written)
    BY <1>6, <2>4, <2>8, <2>9, <2>10 DEF Flow
  <2> QED  BY <1>3, <1>7, <1>9, <2>11, BelowQueues DEF Service
<1> QED  BY <1>10, <1>11

\* ttyosrv puts the block back, or passes it on.
LEMMA TtyosrvPutQueues ==
  ASSUME QInv, TtyosrvPut
  PROVE  QInv'
<1>1. PICK b : b = srv.b
  OBVIOUS
<1>2. srv.q = "ldw" /\ b # NoBlock /\ UNCHANGED <<pc, nc, written, sent>>
  BY <1>1 DEF TtyosrvPut
<1>3. /\ DOMAIN srv = {"q", "b", "full"} /\ srv.full \in BOOLEAN /\ b \in Fit("ldw")
      /\ k.ld.on /\ Held(srv) = Num(b) /\ written \in Nat
  BY <1>1, <1>2 DEF QInv, Flow, SrvOK, Held
<1>4. PICK full \in BOOLEAN : full = srv.full
  BY <1>3
<1>5. /\ Settled(k, "ldw", full, sent, Num(b), written)
      /\ Balanced(k, "ldw", full) /\ Loose(k) /\ Busy(k) /\ Typed(k)
      /\ Ordered(k, sent, Num(b), written)
  BY <1>2, <1>3, <1>4 DEF QInv, Flow, Settled, Steady, Balanced
<1>6. Quiet(k, k')
  BY ServiceQuiet DEF QInv, Service
<1>7. IsOpen(k)
  BY <1>3, <1>5 DEF Loose
<1>8. ASSUME NEW t, k' = t, srv' = [srv EXCEPT !.b = NoBlock],
             Settled(t, "ldw", full, sent, {}, written), Plumbed(k, t)
      PROVE  QInv'
  <2>1. srv'.q = "ldw" /\ srv'.b = NoBlock /\ srv'.full = full
        /\ DOMAIN srv' = {"q", "b", "full"}
    BY <1>2, <1>3, <1>4, <1>8
  <2>2. Held(srv') = {} /\ SrvOK(t, srv')
    BY <2>1 DEF Held, Num, NoBlock, SrvOK
  <2>3. Flow(t, srv', sent, written)
    BY <1>3, <1>8, <2>1, <2>2 DEF Flow
  <2> QED  BY <1>2, <1>6, <1>8, <2>3, BelowQueues DEF Service
<1>9. CASE b.type = "DELIM"
  <2>1. k' = k /\ srv' = [srv EXCEPT !.b = NoBlock] /\ Num(b) = {}
    BY <1>1, <1>9 DEF TtyosrvPut, Num
  <2> QED  BY <1>5, <1>8, <2>1 DEF Plumbed
<1>10. CASE b.type # "DELIM" /\ full
  <2>1. PICK y : y = k.q["ldw"].items
    OBVIOUS
  <2>2. PICK z : z = <<b>> \o y
    OBVIOUS
  <2>3. PICK t : t = Put(k, "ldw", z)
    OBVIOUS
  <2>4. k' = t /\ srv' = NoService
    BY <1>1, <1>4, <1>10, <2>1, <2>2, <2>3 DEF TtyosrvPut, Putbq
  <2>5. y \in Items("ldw")
    BY <1>5, <2>1, QueueNames DEF Typed
  <2>6. z \in Items("ldw") /\ Len(z) >= Len(y)
    <3>1. z \in Items("ldw") /\ Len(z) = Len(y) + 1
      BY <1>3, <2>2, <2>5, AppendItems
    <3>2. Len(y) \in Nat
      BY <2>5, EmptyItems
    <3> QED  BY <3>1, <3>2
  <2>7. Order(sent, k.dz.oblock, k.q["dzw"].items, {}, z, k.lost, written)
    BY <1>3, <1>5, <2>1, <2>2, <2>5, OrderBack DEF Ordered
  <2>8. Balanced(k, "none", FALSE)
    <3>1. Fed(k, "none", "ldw", "dzw") /\ Fed(k, "none", "ldr", "rd")
      BY <1>3, <1>5, <1>10 DEF Balanced, Fed, Serviced
    <3> QED  BY <1>5, <3>1, Rebalanced
  <2>9. PICK none \in BOOLEAN : none = FALSE
    OBVIOUS
  <2>10. Steady(t, "none", none, sent, {}, written) /\ Plumbed(k, t) /\ (Busy(k) => Busy(t))
    BY <1>3, <1>5, <2>1, <2>3, <2>6, <2>7, <2>8, <2>9, DownPut
  <2>11. Calm(t, sent, written)
    BY <1>5, <2>9, <2>10 DEF Calm, Settled
  <2>12. Flow(t, NoService, sent, written)
    BY <1>3, <2>11, FlowCalm
  <2> QED  BY <1>2, <1>6, <2>4, <2>10, <2>12, BelowQueues DEF Service
<1>11. CASE b.type # "DELIM" /\ ~full
  <2>1. k' = (IF b.type = "IOCTL" THEN Ttldioc(k, b) ELSE Dzoput(k, b))
        /\ srv' = [srv EXCEPT !.b = NoBlock]
    BY <1>1, <1>4, <1>11 DEF TtyosrvPut
  <2>2. Settled(Ttldioc(k, b), "ldw", full, sent, {}, written) /\ Plumbed(k, Ttldioc(k, b))
    BY <1>3, <1>5, <1>7, TtldiocSettled
  <2>3. Settled(Dzoput(k, b), "ldw", full, sent, {}, written) /\ Plumbed(k, Dzoput(k, b))
    BY <1>3, <1>5, <1>7, DzoputSettled
  <2> QED  BY <1>8, <2>1, <2>2, <2>3
<1> QED  BY <1>9, <1>10, <1>11

\* ttyinsrv.
LEMMA TtyinsrvQueues ==
  ASSUME QInv, Ttyinsrv
  PROVE  QInv'
<1>1. srv.q = "ldr" /\ UNCHANGED <<pc, nc, written, sent>>
  BY DEF Ttyinsrv
<1>2. /\ DOMAIN srv = {"q", "b", "full"} /\ srv.full \in BOOLEAN /\ srv.b \in {NoBlock, Char}
      /\ Held(srv) = {} /\ written \in Nat
  BY <1>1 DEF QInv, Flow, SrvOK, Held
<1>3. PICK full \in BOOLEAN : full = srv.full
  BY <1>2
<1>4. /\ Settled(k, "ldr", full, sent, {}, written)
      /\ Balanced(k, "ldr", full) /\ Loose(k) /\ Busy(k) /\ Typed(k)
      /\ Ordered(k, sent, {}, written)
  BY <1>1, <1>2, <1>3 DEF QInv, Flow, Settled, Steady, Balanced
<1>5. Quiet(k, k')
  BY ServiceQuiet DEF QInv, Service
<1>6. ASSUME NEW t, k' = t, NEW b \in {NoBlock, Char}, srv' = [srv EXCEPT !.b = b],
             Settled(t, "ldr", full, sent, {}, written), Plumbed(k, t)
      PROVE  QInv'
  <2>1. srv'.q = "ldr" /\ srv'.b = b /\ srv'.full = full /\ DOMAIN srv' = {"q", "b", "full"}
    BY <1>1, <1>2, <1>3, <1>6
  <2>2. Held(srv') = {} /\ SrvOK(t, srv')
    BY <2>1 DEF Held, SrvOK
  <2>3. Flow(t, srv', sent, written)
    BY <1>2, <1>6, <2>1, <2>2 DEF Flow
  <2> QED  BY <1>1, <1>5, <1>6, <2>3, BelowQueues DEF Service
<1>7. ASSUME NEW t, k' = t, srv' = NoService, Balanced(t, "ldr", full), Loose(t), Busy(t),
             Ordered(t, sent, {}, written), Plumbed(k, t),
             Fed(t, "none", "ldw", "dzw"), Fed(t, "none", "ldr", "rd")
      PROVE  QInv'
  <2>1. Balanced(t, "none", FALSE)
    BY <1>7, Rebalanced
  <2>2. Calm(t, sent, written)
    BY <1>7, <2>1 DEF Calm, Settled, Steady
  <2>3. Flow(t, NoService, sent, written)
    BY <1>2, <2>2, FlowCalm
  <2> QED  BY <1>1, <1>5, <1>7, <2>3, BelowQueues DEF Service
<1>8. CASE srv.b # NoBlock
  <2>1. k' = StrputData(k, Char) /\ srv' = [srv EXCEPT !.b = NoBlock]
    BY <1>2, <1>8 DEF Ttyinsrv
  <2>2. Settled(StrputData(k, Char), "ldr", full, sent, {}, written)
        /\ Plumbed(k, StrputData(k, Char))
    BY <1>4, StrputSettled
  <2> QED  BY <1>6, <2>1, <2>2
<1>9. CASE srv.b = NoBlock /\ Has(k, "rd", "QFULL")
  <2>1. k' = k /\ srv' = NoService
    BY <1>9 DEF Ttyinsrv
  <2>2. Has(k, "rd", "QWANTW")
    BY <1>4, <1>9 DEF Balanced, Asks
  <2>3. Fed(k, "none", "ldw", "dzw") /\ Fed(k, "none", "ldr", "rd")
    BY <1>4, <2>2 DEF Balanced, Fed, Serviced
  <2> QED  BY <1>4, <1>7, <2>1, <2>3 DEF Plumbed
<1>10. CASE srv.b = NoBlock /\ ~Has(k, "rd", "QFULL")
  <2>1. PICK t : t = Getq(k, "ldr")
    OBVIOUS
  <2>2. k' = t /\ srv' = IF k.q["ldr"].items = <<>> THEN NoService ELSE [srv EXCEPT !.b = Char]
    BY <1>10, <2>1 DEF Ttyinsrv
  <2>3. Settled(t, "ldr", full, sent, {}, written) /\ Plumbed(k, t)
    BY <1>4, <2>1, GetSettled
  <2>4. CASE k.q["ldr"].items # <<>>
    BY <1>6, <2>2, <2>3, <2>4
  <2>5. CASE k.q["ldr"].items = <<>>
    <3>1. t.q["ldr"].items = <<>>
      BY <1>4, <2>1, <2>5, GetFacts, QueueNames DEF GetTo
    <3>2. Has(t, "ldr", "QWANTR") \/ Has(t, "ldr", "QENAB")
      BY <1>4, <2>1, <2>5, GetqBalanced, QueueNames
    <3>3. Balanced(t, "ldr", full) /\ Loose(t) /\ Busy(t) /\ Ordered(t, sent, {}, written)
      BY <2>3 DEF Settled, Steady
    <3>4. Fed(t, "none", "ldw", "dzw") /\ Fed(t, "none", "ldr", "rd")
      BY <3>1, <3>2, <3>3 DEF Balanced, Fed, Serviced
    <3> QED  BY <1>7, <2>2, <2>3, <2>5, <3>3, <3>4
  <2> QED  BY <2>4, <2>5
<1> QED  BY <1>8, <1>9, <1>10

-----------------------------------------------------------------------------
(* The interrupts                                                          *)

\* A step of the line, whatever service procedure it interrupts.
LEMMA SettledFlow ==
  ASSUME NEW s, NEW t, NEW sv, NEW S, NEW T, NEW w, Flow(s, sv, S, w), Plumbed(s, t),
         Settled(t, sv.q, sv.full, T, Held(sv), w)
  PROVE  Flow(t, sv, T, w)
BY DEF Flow, SrvOK, Plumbed

\* What an interrupt finds.
LEMMA Interrupts ==
  ASSUME QInv
  PROVE  /\ Settled(k, srv.q, srv.full, sent, Held(srv), written)
         /\ Steady(k, srv.q, srv.full, sent, Held(srv), written)
         /\ Balanced(k, srv.q, srv.full) /\ Loose(k) /\ Busy(k) /\ Typed(k) /\ Shape(k)
         /\ Ordered(k, sent, Held(srv), written) /\ k.dz \in LineState
         /\ srv.full \in BOOLEAN
BY DEF QInv, Flow, SrvOK, Settled, Steady, Balanced, Typed, LineState

\* A step that leaves the service procedure alone.
LEMMA InterruptQueues ==
  ASSUME QInv, TypeChar \/ TypeStop \/ TypeIntr \/ Dztint \/ Dztimo \/ CarrierBack,
         Plumbed(k, k'), Settled(k', srv.q, srv.full, sent', Held(srv), written)
  PROVE  QInv'
<1>1. Quiet(k, k') /\ UNCHANGED pc
  BY InterruptQuiet DEF QInv
<1>2. UNCHANGED <<srv, written>>
  BY DEF TypeChar, TypeStop, TypeIntr, Dztint, Dztimo, CarrierBack, Outside
<1>3. Flow(k', srv, sent', written)
  BY SettledFlow DEF QInv
<1>4. Flow(k', srv', sent', written')
  BY <1>2, <1>3
<1> QED  BY <1>1, <1>4, BelowQueues DEF Interrupt

\* A character, and those that stop output or interrupt.
LEMMA TypedQueues ==
  ASSUME QInv, TypeChar \/ TypeStop \/ TypeIntr
  PROVE  QInv'
<1>1. PICK sv, full, H : sv = srv.q /\ full = srv.full /\ H = Held(srv)
  OBVIOUS
<1>2. full \in BOOLEAN /\ Settled(k, sv, full, sent, H, written)
  BY <1>1, Interrupts
<1>3. UNCHANGED sent /\ IsOpen(k)
  BY DEF TypeChar, TypeStop, TypeIntr, Line, IsOpen
<1>4. Settled(k', sv, full, sent, H, written) /\ Plumbed(k, k')
  <2>1. CASE TypeChar
    <3>1. k' = k \/ (k.ld.on /\ k' = TtyChar(k)) \/ k' = StrputData(k, Char)
      BY <2>1 DEF TypeChar
    <3>2. Settled(k, sv, full, sent, H, written) /\ Plumbed(k, k)
      BY <1>2 DEF Plumbed
    <3>3. Settled(StrputData(k, Char), sv, full, sent, H, written)
          /\ Plumbed(k, StrputData(k, Char))
      BY <1>2, StrputSettled
    <3>4. k.ld.on => /\ Settled(TtyChar(k), sv, full, sent, H, written)
                     /\ Plumbed(k, TtyChar(k))
      BY <1>2, TtyCharSettled
    <3> QED  BY <3>1, <3>2, <3>3, <3>4
  <2>2. CASE TypeStop
    <3>1. Settled(TtyStop(k), sv, full, sent, H, written) /\ Plumbed(k, TtyStop(k))
      BY <1>2, <1>3, TtyStopSettled
    <3> QED  BY <2>2, <3>1 DEF TypeStop
  <2>3. CASE TypeIntr
    <3>1. Settled(TtySig(k), sv, full, sent, H, written) /\ Plumbed(k, TtySig(k))
      BY <1>2, TtySigSettled
    <3> QED  BY <2>3, <3>1 DEF TypeIntr
  <2> QED  BY <2>1, <2>2, <2>3
<1>5. Settled(k', srv.q, srv.full, sent', Held(srv), written)
  BY <1>1, <1>3, <1>4
<1> QED  BY <1>4, <1>5, InterruptQueues

\* A state of the line that differs in nothing that the queues depend on.
LEMMA LineSteady ==
  ASSUME NEW s, NEW t, NEW sv, NEW full, NEW S, NEW H, NEW T, NEW w,
         Steady(s, sv, full, S, H, w), Shape(t),
         t.q = s.q, t.ld = s.ld, t.lost = s.lost, t.dz \in LineState,
         IsOpen(t) <=> IsOpen(s), "TIMEOUT" \in t.dz.state => t.dz.timers > 0,
         Order(T, t.dz.oblock, s.q["dzw"].items, H, s.q["ldw"].items, s.lost, w)
  PROVE  Steady(t, sv, full, T, H, w) /\ Plumbed(s, t)
<1>1. Balanced(s, sv, full) /\ Loose(s)
  BY DEF Steady
<1>2. Balanced(t, sv, full)
  BY <1>1, LineBalanced
<1>3. Loose(t) /\ Plumbed(s, t)
  BY <1>1 DEF Loose, Plumbed
<1>4. Ordered(t, T, H, w)
  BY DEF Ordered
<1> QED  BY <1>2, <1>3, <1>4 DEF Steady

\* The block has been transmitted.
LEMMA DztintQueues ==
  ASSUME QInv, Dztint
  PROVE  QInv'
<1>1. PICK sv, full, H : sv = srv.q /\ full = srv.full /\ H = Held(srv)
  OBVIOUS
<1>2. /\ full \in BOOLEAN /\ Steady(k, sv, full, sent, H, written) /\ Loose(k) /\ Shape(k)
      /\ Ordered(k, sent, H, written) /\ k.dz \in LineState
  BY <1>1, Interrupts
<1>3. PICK o : o = k.dz.oblock
  OBVIOUS
<1>4. PICK s : s = [k EXCEPT !.dz.oblock = 0]
  OBVIOUS
<1>5. o # 0 /\ sent' = sent \cup {o} /\ k' = Dzstart(s)
  BY <1>3, <1>4 DEF Dztint
<1>6. /\ Shape(s) /\ s.q = k.q /\ s.ld = k.ld /\ s.lost = k.lost
      /\ s.dz = [k.dz EXCEPT !.oblock = 0]
  BY <1>2, <1>4 DEF Shape
<1>7. s.dz \in LineState /\ s.dz.oblock = 0 /\ s.dz.state = k.dz.state
      /\ s.dz.timers = k.dz.timers
  BY <1>2, <1>6 DEF LineState
<1>8. Order(sent \cup {o}, 0, k.q["dzw"].items, H, k.q["ldw"].items, k.lost, written)
  BY <1>2, <1>3, <1>5, OrderSent DEF Ordered
<1>9. Steady(s, sv, full, sent', H, written) /\ Plumbed(k, s)
  <2>1. (IsOpen(s) <=> IsOpen(k)) /\ ("TIMEOUT" \in s.dz.state => s.dz.timers > 0)
    BY <1>2, <1>7 DEF IsOpen, Loose
  <2>2. Order(sent', s.dz.oblock, k.q["dzw"].items, H, k.q["ldw"].items, k.lost, written)
    BY <1>5, <1>7, <1>8
  <2> QED  BY <1>2, <1>6, <1>7, <2>1, <2>2, LineSteady
<1>10. Settled(k', sv, full, sent', H, written) /\ Plumbed(k, k')
  BY <1>2, <1>5, <1>9, DzstartSettled, PlumbedOn
<1>11. Settled(k', srv.q, srv.full, sent', Held(srv), written)
  BY <1>1, <1>10
<1> QED  BY <1>10, <1>11, InterruptQueues

\* A callout comes.
LEMMA DztimoQueues ==
  ASSUME QInv, Dztimo
  PROVE  QInv'
<1>1. PICK sv, full, H : sv = srv.q /\ full = srv.full /\ H = Held(srv)
  OBVIOUS
<1>2. /\ full \in BOOLEAN /\ Steady(k, sv, full, sent, H, written) /\ Loose(k) /\ Shape(k)
      /\ Ordered(k, sent, H, written) /\ k.dz \in LineState
  BY <1>1, Interrupts
<1>3. PICK timers, state : timers = k.dz.timers - 1 /\ state = k.dz.state \ {"TIMEOUT"}
  OBVIOUS
<1>4. PICK s : s = [k EXCEPT !.dz.timers = timers, !.dz.state = state]
  OBVIOUS
<1>5. k.dz.timers > 0 /\ sent' = sent /\ k' = Dzstart(s)
  BY <1>3, <1>4 DEF Dztimo
<1>6. /\ Shape(s) /\ s.q = k.q /\ s.ld = k.ld /\ s.lost = k.lost
      /\ s.dz = [[k.dz EXCEPT !.timers = timers] EXCEPT !.state = state]
  BY <1>2, <1>4 DEF Shape
<1>7. s.dz \in LineState /\ s.dz.oblock = k.dz.oblock /\ s.dz.state = state
  <2>1. state \in SUBSET {"ISOPEN", "DZSTOP", "TIMEOUT"} /\ timers \in Nat
    BY <1>2, <1>3, <1>5 DEF LineState
  <2>2. s.dz = [state |-> state, carrier |-> k.dz.carrier, oblock |-> k.dz.oblock,
                timers |-> timers]
    BY <1>2, <1>6 DEF LineState
  <2> QED  BY <1>2, <2>1, <2>2 DEF LineState
<1>8. Steady(s, sv, full, sent, H, written) /\ Plumbed(k, s)
  <2>1. (IsOpen(s) <=> IsOpen(k)) /\ "TIMEOUT" \notin s.dz.state
    BY <1>3, <1>7 DEF IsOpen
  <2>2. Order(sent, s.dz.oblock, k.q["dzw"].items, H, k.q["ldw"].items, k.lost, written)
    BY <1>2, <1>7 DEF Ordered
  <2> QED  BY <1>2, <1>6, <1>7, <2>1, <2>2, LineSteady
<1>9. Settled(k', sv, full, sent, H, written) /\ Plumbed(k, k')
  BY <1>2, <1>5, <1>8, DzstartSettled, PlumbedOn
<1>10. Settled(k', srv.q, srv.full, sent', Held(srv), written)
  BY <1>1, <1>5, <1>9
<1> QED  BY <1>9, <1>10, InterruptQueues

\* The carrier comes or goes.
LEMMA CarrierSettled ==
  ASSUME NEW s, NEW sv, NEW full, NEW S, NEW H, NEW w, Settled(s, sv, full, S, H, w),
         NEW c \in BOOLEAN
  PROVE  LET t == [s EXCEPT !.dz.carrier = c]
         IN /\ Settled(t, sv, full, S, H, w) /\ Plumbed(s, t) /\ Shape(t)
            /\ t.head = s.head /\ t.chan = s.chan /\ t.file = s.file
<1>1. PICK t : t = [s EXCEPT !.dz.carrier = c]
  OBVIOUS
<1>2. /\ Steady(s, sv, full, S, H, w) /\ Loose(s) /\ Shape(s) /\ Busy(s)
      /\ Ordered(s, S, H, w) /\ s.dz \in LineState
  BY DEF Settled, Steady, Balanced, Typed, LineState
<1>3. /\ Shape(t) /\ t.q = s.q /\ t.ld = s.ld /\ t.lost = s.lost
      /\ t.dz = [s.dz EXCEPT !.carrier = c]
      /\ t.head = s.head /\ t.chan = s.chan /\ t.file = s.file
  BY <1>1, <1>2 DEF Shape
<1>4. t.dz \in LineState /\ t.dz.oblock = s.dz.oblock /\ t.dz.state = s.dz.state
      /\ t.dz.timers = s.dz.timers
  BY <1>2, <1>3 DEF LineState
<1>5. (IsOpen(t) <=> IsOpen(s)) /\ ("TIMEOUT" \in t.dz.state => t.dz.timers > 0)
  BY <1>2, <1>4 DEF IsOpen, Loose
<1>6. Order(S, t.dz.oblock, s.q["dzw"].items, H, s.q["ldw"].items, s.lost, w)
  BY <1>2, <1>4 DEF Ordered
<1>7. Steady(t, sv, full, S, H, w) /\ Plumbed(s, t)
  BY <1>2, <1>3, <1>4, <1>5, <1>6, LineSteady
<1>8. Busy(t)
  BY <1>2, <1>3, <1>4 DEF Busy
<1> QED  BY <1>1, <1>3, <1>7, <1>8 DEF Settled

\* The carrier comes back: the openers are woken.
LEMMA CarrierBackQueues ==
  ASSUME QInv, CarrierBack
  PROVE  QInv'
<1>1. PICK sv, full, H : sv = srv.q /\ full = srv.full /\ H = Held(srv)
  OBVIOUS
<1>2. full \in BOOLEAN /\ Settled(k, sv, full, sent, H, written)
  BY <1>1, Interrupts
<1>3. PICK c \in BOOLEAN : c = TRUE
  OBVIOUS
<1>4. PICK s : s = [k EXCEPT !.dz.carrier = c]
  OBVIOUS
<1>5. sent' = sent /\ k' = Wakeup(s, "dzp")
  BY <1>3, <1>4 DEF CarrierBack
<1>6. Settled(s, sv, full, sent, H, written) /\ Plumbed(k, s) /\ Shape(s)
  BY <1>2, <1>4, CarrierSettled
<1>7. Alike(s, Wakeup(s, "dzp"))
  BY <1>6, HeadChanges DEF HeadOnly
<1>8. Settled(k', sv, full, sent, H, written) /\ Plumbed(k, k')
  BY <1>5, <1>6, <1>7, AlikeSteady, PlumbedOn DEF Settled
<1>9. Settled(k', srv.q, srv.full, sent', Held(srv), written)
  BY <1>1, <1>5, <1>8
<1> QED  BY <1>8, <1>9, InterruptQueues

\* The hangup is for the head: the queues are as they were, and so is the line.
LEMMA CarrierLostQueues ==
  ASSUME QInv, CarrierLost
  PROVE  QInv'
<1>1. PICK sv, full, H : sv = srv.q /\ full = srv.full /\ H = Held(srv)
  OBVIOUS
<1>2. full \in BOOLEAN /\ Settled(k, sv, full, sent, H, written)
  BY <1>1, Interrupts
<1>3. PICK c \in BOOLEAN : c = FALSE
  OBVIOUS
<1>4. PICK s : s = [k EXCEPT !.dz.carrier = c]
  OBVIOUS
<1>5. UNCHANGED <<srv, sent, written, pc>>
      /\ k' = IF IsOpen(k) THEN StrputHangup(s) ELSE s
  BY <1>3, <1>4 DEF CarrierLost, IsOpen, Outside
<1>6. /\ Settled(s, sv, full, sent, H, written) /\ Plumbed(k, s) /\ Shape(s)
      /\ s.head = k.head /\ s.chan = k.chan /\ s.file = k.file
  BY <1>2, <1>4, CarrierSettled
<1>7. HeadOnly(s, StrputHangup(s))
  <2>1. PICK s1 : s1 = [s EXCEPT !.head.flag = @ \cup {"HUNGUP"}]
    OBVIOUS
  <2>2. PICK s2 : s2 = Forceclose(s1, "nowrite")
    OBVIOUS
  <2>3. HeadOnly(s, s1) /\ Shape(s1)
    BY <1>6, <2>1 DEF HeadOnly, Alike, Shape
  <2>4. HeadOnly(s1, s2) /\ Shape(s2)
    BY <2>2, <2>3 DEF HeadOnly, Alike, Shape, Forceclose
  <2>5. PICK s3 : s3 = Wakeup(s2, "rd")
    OBVIOUS
  <2>6. PICK s4 : s4 = Wakeup(s3, "wrq")
    OBVIOUS
  <2>7. HeadOnly(s2, s3) /\ Shape(s3)
    <3>1. HeadOnly(s2, s3)
      BY <2>4, <2>5, HeadChanges
    <3> QED  BY <3>1 DEF HeadOnly, Alike
  <2>8. HeadOnly(s3, s4) /\ Shape(s4)
    <3>1. HeadOnly(s3, s4)
      BY <2>6, <2>7, HeadChanges
    <3> QED  BY <3>1 DEF HeadOnly, Alike
  <2>9. HeadOnly(s4, Wakeup(s4, "stp"))
    BY <2>8, HeadChanges
  <2>10. StrputHangup(s) = Wakeup(s4, "stp")
    BY <2>1, <2>2, <2>5, <2>6 DEF StrputHangup
  <2>11. HeadOnly(s, s2) /\ HeadOnly(s2, s4)
    BY <2>3, <2>4, <2>7, <2>8, HeadOnlyOn
  <2>12. HeadOnly(s, s4)
    BY <2>11, HeadOnlyOn
  <2> QED  BY <2>9, <2>10, <2>12, HeadOnlyOn
<1>8. HeadOnly(s, k')
  <2>1. HeadOnly(s, s)
    BY <1>6, HeadChanges
  <2> QED  BY <1>5, <1>7, <2>1
<1>9. Settled(k', sv, full, sent, H, written) /\ Plumbed(k, k')
  BY <1>6, <1>8, AlikeSteady, PlumbedOn DEF Settled, HeadOnly
<1>10. k'.head.open = k.head.open
  BY <1>6, <1>8 DEF HeadOnly
<1>11. Flow(k', srv, sent, written)
  BY <1>1, <1>9, SettledFlow DEF QInv
<1>12. Opened(k', pc)
  <2>1. CASE IsOpen(k)
    BY <1>9, <1>10, <2>1 DEF QInv, Opened, Plumbed
  <2>2. CASE ~IsOpen(k)
    <3>1. k' = s
      BY <1>5, <2>2
    <3>2. k'.head = k.head /\ k'.file = k.file /\ (IsOpen(k') <=> IsOpen(k))
      BY <1>6, <1>9, <3>1 DEF Plumbed
    <3> QED  BY <3>2 DEF QInv, Opened, Hungup
  <2> QED  BY <2>1, <2>2
<1>13. Flow(k', srv', sent', written') /\ Opened(k', pc')
  BY <1>5, <1>11, <1>12
<1>14. SInv'
  BY BelowGood DEF QInv, Interrupt
<1> QED  BY <1>13, <1>14 DEF QInv

-----------------------------------------------------------------------------
(* The invariant, and what follows from it                                 *)

\* The queues are empty, the line is closed.
LEMMA QInvInit == Init => QInv
<1> SUFFICES ASSUME Init PROVE QInv
  OBVIOUS
<1>1. SInv
  BY SInvInit
<1>2. /\ k.q = [n \in QueueName |-> EmptyQueue] /\ k.ld = [on |-> FALSE, stop |-> FALSE]
      /\ k.dz = [state |-> {}, carrier |-> TRUE, oblock |-> 0, timers |-> 0]
      /\ k.lost = {} /\ ~k.head.open /\ (\A p \in Proc: k.file[p] = "none")
      /\ srv = NoService /\ written = 0 /\ sent = {} /\ (\A p \in Proc: pc[p] = "idle")
  BY DEF Init
<1>3. \A n \in QueueName: k.q[n].items = <<>> /\ k.q[n].flag = {}
  BY <1>2 DEF EmptyQueue
<1>4. \A n \in QueueName: \A f: ~Has(k, n, f)
  BY <1>3 DEF Has
<1>5. Typed(k)
  <2>1. Shape(k)
    BY <1>1 DEF SInv, Good
  <2>2. EmptyQueue \in Queue
    BY DEF EmptyQueue, Queue
  <2>3. k.q \in [QueueName -> Queue]
    BY <1>2, <2>2
  <2>4. \A n \in QueueName: k.q[n].items \in Items(n)
    BY <1>3, EmptyItems
  <2> QED  BY <1>2, <2>1, <2>3, <2>4 DEF Typed
<1>6. Balanced(k, "none", FALSE)
  BY <1>2, <1>3, <1>4, <1>5, QueueNames DEF Balanced, Marked, Asks, Fed
<1>7. Loose(k) /\ Busy(k) /\ ~IsOpen(k)
  BY <1>2, <1>3, QueueNames DEF Loose, Busy, IsOpen
<1>8. Ordered(k, sent, {}, written)
  <2>1. 1..0 = {}
    OBVIOUS
  <2> QED  BY <1>2, <1>3, <2>1, EmptyNumbers, QueueNames DEF Ordered, Order, Chain, Below
<1>9. Flow(k, NoService, sent, written)
  <2>1. Calm(k, sent, written)
    BY <1>6, <1>7, <1>8 DEF Calm, Settled, Steady
  <2> QED  BY <1>2, <2>1, FlowCalm
<1>10. Opened(k, pc)
  BY <1>2, <1>7 DEF Opened, Inner
<1> QED  BY <1>1, <1>2, <1>9, <1>10 DEF QInv

\* Every step keeps the invariant.
LEMMA QInvStep == QInv /\ [Next]_vars => QInv'
<1> SUFFICES ASSUME QInv, [Next]_vars PROVE QInv'
  OBVIOUS
<1>1. CASE UNCHANGED vars
  BY <1>1 DEF vars, QInv, SInv
<1>2. ASSUME NEW p \in Proc, Call(p) PROVE QInv'
  <2>1. CASE Read(p)
    <3>1. {"open", "nowrite"} \subseteq {"open", "nowrite"}
      OBVIOUS
    <3> QED  BY <2>1, <3>1, EnterQueues DEF Read
  <2>2. CASE Write(p)
    <3>1. {"open"} \subseteq {"open", "nowrite"}
      OBVIOUS
    <3> QED  BY <2>2, <3>1, EnterQueues DEF Write
  <2> QED  BY <1>2, <2>1, <2>2, IoctlQueues, PushQueues, PopQueues, CloseQueues DEF Call
<1>3. ASSUME NEW p \in Proc, Continue(p) PROVE QInv'
  BY <1>3, DzopenQueues, ReopenQueues, StreadQueues, StreadCopiedQueues, StwriteQueues,
     StwriteFilledQueues, StioctlSendQueues, StioctlWaitQueues, DrainQueues DEF Continue
<1>4. ASSUME NEW p \in Proc, OpenNew(p) \/ OpenOld(p) \/ DzopenFails(p) \/ Interrupted(p)
      PROVE  QInv'
  BY <1>4, OpenNewQueues, OpenOldQueues, DzopenFailsQueues, InterruptedQueues
<1>5. CASE Service
  BY <1>5, QueuerunQueues, TtyosrvGetQueues, TtyosrvPutQueues, TtyinsrvQueues DEF Service
<1>6. CASE Interrupt
  BY <1>6, TypedQueues, DztintQueues, DztimoQueues, CarrierBackQueues, CarrierLostQueues
     DEF Interrupt
<1> QED  BY <1>1, <1>2, <1>3, <1>4, <1>5, <1>6 DEF Next

\* It holds always.
LEMMA QInvAlways == Spec => []QInv
BY QInvInit, QInvStep, PTL DEF Spec

\* Nothing is stranded in a queue: its service procedure is enabled or runs, or
\* the full queue ahead will enable it, and the line's queue waits for the block
\* in transmission, for a callout or for the character that restarts output.
THEOREM NothingStranded == Spec => []NotStranded
<1>1. QInv => NotStranded
  <2> SUFFICES ASSUME QInv PROVE NotStranded
    OBVIOUS
  <2>1. Balanced(k, srv.q, srv.full) /\ Busy(k) /\ Loose(k)
    BY Interrupts
  <2>2. \A n \in QueueName: Has(k, n, "QWANTW") => Len(k.q[n].items) > Low[n]
    BY <2>1 DEF Balanced, Marked
  <2>3. /\ k.q["ldw"].items # <<>> => Serviced(k, srv.q, "ldw", "dzw")
        /\ k.q["ldr"].items # <<>> => Serviced(k, srv.q, "ldr", "rd")
    BY <2>1 DEF Balanced, Fed
  <2>4. k.q["dzw"].items # <<>> => \/ k.dz.oblock # 0 \/ "DZSTOP" \in k.dz.state
                                   \/ "TIMEOUT" \in k.dz.state /\ k.dz.timers > 0
    BY <2>1 DEF Busy, Loose
  <2> QED  BY <2>2, <2>3, <2>4 DEF NotStranded, Serviced
<1> QED  BY <1>1, QInvAlways, PTL

\* Sequences of blocks of output, one behind the other.
Solid(x) == /\ x \in Seq(AnyBlock)
            /\ \A i \in 1..Len(x): x[i].type = "DATA" => x[i].n \in Nat \ {0}

\* The queues of the output are such sequences.
LEMMA SolidItems ==
  ASSUME NEW n \in {"ldw", "dzw"}, NEW x \in Items(n)
  PROVE  Solid(x)
<1>1. /\ Numbers(x) \subseteq Nat \ {0}
      /\ \A i \in 1..Len(x): x[i].type = "DATA" => x[i].n \in Numbers(x)
  BY NumbersNat
<1> QED  BY <1>1 DEF Solid, Items

\* A block alone, or none.
LEMMA SolidBlock ==
  /\ \A b \in Fit("ldw"): /\ Solid(<<b>>) /\ Sorted(<<b>>)
                          /\ Numbers(<<b>>) = Num(b)
  /\ Solid(<<>>) /\ Sorted(<<>>) /\ Numbers(<<>>) = {}
<1>1. Solid(<<>>) /\ Sorted(<<>>) /\ Numbers(<<>>) = {}
  BY EmptyNumbers DEF Solid
<1>2. ASSUME NEW b \in Fit("ldw")
      PROVE  Solid(<<b>>) /\ Sorted(<<b>>) /\ Numbers(<<b>>) = Num(b)
  <2>1. <<>> \in Items("ldw")
    BY EmptyItems
  <2>2. Append(<<>>, b) = <<b>>
    OBVIOUS
  <2>3. Append(<<>>, b) \in Items("ldw")
    BY <2>1, AppendItems
  <2>4. Numbers(Append(<<>>, b)) = Numbers(<<>>) \cup Num(b)
        /\ ((\A v \in Numbers(<<>>), u \in Num(b): v < u) => Sorted(Append(<<>>, b)))
    BY <1>1, <2>1, AppendNumbers
  <2> QED  BY <1>1, <2>2, <2>3, <2>4, SolidItems
<1> QED  BY <1>1, <1>2

\* One behind the other: all of the second come after all of the first.
LEMMA SolidConcat ==
  ASSUME NEW x, NEW y, Solid(x), Solid(y), Sorted(x), Sorted(y), Below(Numbers(x), Numbers(y))
  PROVE  /\ Solid(x \o y) /\ Sorted(x \o y)
         /\ Numbers(x \o y) = Numbers(x) \cup Numbers(y)
<1>1. PICK z : z = x \o y
  OBVIOUS
<1> HIDE DEF AnyBlock
<1>2. x \in Seq(AnyBlock) /\ y \in Seq(AnyBlock)
  BY DEF Solid
<1>3. /\ z \in Seq(AnyBlock) /\ Len(z) = Len(x) + Len(y)
      /\ \A i \in 1..Len(x) + Len(y): z[i] = IF i <= Len(x) THEN x[i] ELSE y[i - Len(x)]
      /\ Len(x) \in Nat /\ Len(y) \in Nat
  BY <1>1, <1>2
<1>4. /\ \A i \in 1..Len(x): i \in 1..Len(z) /\ z[i] = x[i]
      /\ \A i \in 1..Len(y): i + Len(x) \in 1..Len(z) /\ z[i + Len(x)] = y[i]
      /\ \A i \in 1..Len(z): \/ i \in 1..Len(x) /\ z[i] = x[i]
                             \/ i - Len(x) \in 1..Len(y) /\ z[i] = y[i - Len(x)]
  BY <1>3
<1>5. Solid(z)
  BY <1>3, <1>4 DEF Solid
<1>6. ASSUME NEW v PROVE v \in Numbers(z) <=> v \in Numbers(x) \cup Numbers(y)
  <2>1. ASSUME v \in Numbers(z) PROVE v \in Numbers(x) \cup Numbers(y)
    <3>1. PICK i \in 1..Len(z) : z[i].type = "DATA" /\ z[i].n # 0 /\ v = z[i].n
      BY <2>1, InNumbers
    <3>2. CASE i \in 1..Len(x) /\ z[i] = x[i]
      BY <3>1, <3>2, InNumbers
    <3>3. CASE i - Len(x) \in 1..Len(y) /\ z[i] = y[i - Len(x)]
      BY <3>1, <3>3, InNumbers
    <3> QED  BY <1>4, <3>2, <3>3
  <2>2. ASSUME v \in Numbers(x) PROVE v \in Numbers(z)
    <3>1. PICK i \in 1..Len(x) : x[i].type = "DATA" /\ x[i].n # 0 /\ v = x[i].n
      BY <2>2, InNumbers
    <3>2. i \in 1..Len(z) /\ z[i] = x[i]
      BY <1>4
    <3> QED  BY <3>1, <3>2, InNumbers
  <2>3. ASSUME v \in Numbers(y) PROVE v \in Numbers(z)
    <3>1. PICK i \in 1..Len(y) : y[i].type = "DATA" /\ y[i].n # 0 /\ v = y[i].n
      BY <2>3, InNumbers
    <3>2. i + Len(x) \in 1..Len(z) /\ z[i + Len(x)] = y[i]
      BY <1>4
    <3> QED  BY <3>1, <3>2, InNumbers
  <2> QED  BY <2>1, <2>2, <2>3
<1>7. Sorted(z)
  <2> SUFFICES ASSUME NEW i \in 1..Len(z), NEW j \in 1..Len(z), i < j,
                      z[i].type = "DATA", z[j].type = "DATA"
               PROVE  z[i].n < z[j].n
    BY DEF Sorted
  <2>1. CASE i \in 1..Len(x) /\ j \in 1..Len(x)
    BY <1>4, <2>1 DEF Sorted
  <2>2. CASE i \in 1..Len(x) /\ j \notin 1..Len(x)
    <3>1. z[i] = x[i] /\ j - Len(x) \in 1..Len(y) /\ z[j] = y[j - Len(x)]
      BY <1>4, <2>2
    <3>2. x[i].n \in Numbers(x)
      BY <2>2, <3>1, InNumbers DEF Solid
    <3>3. y[j - Len(x)].n \in Numbers(y)
      BY <3>1, InNumbers DEF Solid
    <3> QED  BY <3>1, <3>2, <3>3 DEF Below
  <2>3. CASE i \notin 1..Len(x)
    <3>1. i - Len(x) \in 1..Len(y) /\ z[i] = y[i - Len(x)]
      BY <1>4, <2>3
    <3>2. j \notin 1..Len(x)
      BY <1>3, <2>3
    <3>3. j - Len(x) \in 1..Len(y) /\ z[j] = y[j - Len(x)]
      BY <1>4, <3>2
    <3>4. i - Len(x) < j - Len(x)
      BY <1>3
    <3> QED  BY <3>1, <3>3, <3>4 DEF Sorted
  <2> QED  BY <2>1, <2>2, <2>3
<1> QED  BY <1>1, <1>5, <1>6, <1>7

\* What was written is on its way in the order it was written, behind all that
\* has been sent, and a block is missing only where a flush, a pop or a close has
\* thrown it away.
THEOREM OutputIsKept == Spec => []OutputKept
<1>1. QInv => OutputKept
  <2> SUFFICES ASSUME QInv PROVE OutputKept
    OBVIOUS
  <2>1. PICK o, x, y, H : o = k.dz.oblock /\ x = k.q["dzw"].items /\ y = k.q["ldw"].items
                          /\ H = Held(srv)
    OBVIOUS
  <2>2. /\ x \in Items("dzw") /\ y \in Items("ldw") /\ o \in Nat
        /\ Order(sent, o, x, H, y, k.lost, written)
    BY <2>1, Interrupts, QueueNames DEF Typed, Ordered, LineState
  <2>3. PICK held : held = IF srv.q = "ldw" /\ srv.b # NoBlock THEN <<srv.b>> ELSE <<>>
    OBVIOUS
  <2>4. PICK line : line = IF o = 0 THEN <<>> ELSE <<[type |-> "DATA", n |-> o]>>
    OBVIOUS
  <2>5. PICK way : way = line \o x \o held \o y
    OBVIOUS
  <2>6. OnTheWay = way
    BY <2>1, <2>3, <2>4, <2>5 DEF OnTheWay
  <2>7. Solid(x) /\ Solid(y) /\ Sorted(x) /\ Sorted(y)
        /\ Chain(sent, {o} \ {0}, Numbers(x), H, Numbers(y))
        /\ 1..written = sent \cup k.lost \cup ({o} \ {0}) \cup Numbers(x) \cup H \cup Numbers(y)
    BY <2>2, SolidItems DEF Order
  <2>8. Solid(held) /\ Sorted(held) /\ Numbers(held) = H
    <3>1. CASE srv.q = "ldw" /\ srv.b # NoBlock
      <4>1. srv.b \in Fit("ldw") /\ H = Num(srv.b) /\ held = <<srv.b>>
        BY <2>1, <2>3, <3>1 DEF QInv, Flow, SrvOK, Held
      <4> QED  BY <4>1, SolidBlock
    <3>2. CASE ~(srv.q = "ldw" /\ srv.b # NoBlock)
      <4>1. H = {} /\ held = <<>>
        BY <2>1, <2>3, <3>2 DEF Held, Num, NoBlock
      <4> QED  BY <4>1, SolidBlock
    <3> QED  BY <3>1, <3>2
  <2>9. Solid(line) /\ Sorted(line) /\ Numbers(line) = {o} \ {0}
    <3>1. CASE o = 0
      BY <2>4, <3>1, SolidBlock
    <3>2. CASE o # 0
      <4>1. PICK b : b = [type |-> "DATA", n |-> o]
        OBVIOUS
      <4>2. b \in Fit("ldw") /\ Num(b) = {o} /\ line = <<b>>
        BY <2>2, <2>4, <3>2, <4>1 DEF Fit, Output, Num
      <4> QED  BY <3>2, <4>2, SolidBlock
    <3> QED  BY <3>1, <3>2
  <2>10. PICK first : first = line \o x
    OBVIOUS
  <2>11. Solid(first) /\ Sorted(first) /\ Numbers(first) = ({o} \ {0}) \cup Numbers(x)
    <3>1. Below(Numbers(line), Numbers(x))
      BY <2>7, <2>9 DEF Chain
    <3> QED  BY <2>7, <2>9, <2>10, <3>1, SolidConcat
  <2>12. PICK second : second = first \o held
    OBVIOUS
  <2>13. Solid(second) /\ Sorted(second) /\ Numbers(second) = ({o} \ {0}) \cup Numbers(x) \cup H
    <3>1. Below(Numbers(first), Numbers(held))
      BY <2>7, <2>8, <2>11 DEF Chain, Below
    <3> QED  BY <2>8, <2>11, <2>12, <3>1, SolidConcat
  <2>14. /\ Solid(way) /\ Sorted(way)
         /\ Numbers(way) = ({o} \ {0}) \cup Numbers(x) \cup H \cup Numbers(y)
    <3>1. Below(Numbers(second), Numbers(y))
      BY <2>7, <2>13 DEF Chain, Below
    <3>2. way = second \o y
      BY <2>5, <2>10, <2>12
    <3> QED  BY <2>7, <2>13, <3>1, <3>2, SolidConcat
  <2>15. Below(sent, Numbers(way))
    BY <2>7, <2>14 DEF Chain, Below
  <2>16. 1..written = sent \cup k.lost \cup Numbers(way)
    BY <2>7, <2>14
  <2>17. \A i \in 1..Len(way): way[i].type = "DATA" => way[i].n \in Numbers(way)
    BY <2>14, InNumbers DEF Solid
  <2> QED  BY <2>6, <2>14, <2>15, <2>16, <2>17 DEF OutputKept, Sorted, Below
<1> QED  BY <1>1, QInvAlways, PTL
=============================================================================
