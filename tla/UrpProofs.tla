----------------------------- MODULE UrpProofs -----------------------------
(***************************************************************************)
(* The window of the sender in Urp, for every length and number of         *)
(* messages and every window of up to three.                               *)
(***************************************************************************)
EXTENDS Urp, SequenceTheorems, FiniteSetTheorems, TLAPS

-----------------------------------------------------------------------------
(* Numbers modulo 8                                                        *)

\* What the window arithmetic needs of the remainder by 8.
LEMMA ModEight ==
  ASSUME NEW w \in Nat
  PROVE  /\ w % 8 \in 0..7
         /\ w < 8 => w % 8 = w
         /\ w \in 8..15 => w % 8 = w - 8
         /\ w \in 16..18 => w % 8 = w - 16
OBVIOUS

\* There is a last message, and the first number is one.
LEMMA Messages ==
  /\ Highest \in Nat /\ XW \in 1..3 /\ Firsts \subseteq 1..7
  /\ None \in 0..Highest
  /\ \A f \in Firsts : Total[f] \in Nat /\ f - 1 + Total[f] <= Highest
<1>1. None \in 0..Highest
  BY UrpAssumption DEF None
<1> QED  BY <1>1, UrpAssumption

-----------------------------------------------------------------------------
(* The operators                                                           *)

Forth == Seq(ToReceiver)

\* What dkpxmit sends of a message is data, a trailer and a number.
LEMMA XmitType ==
  ASSUME NEW m \in 0..Highest
  PROVE  Xmit(m) \in Forth
<1>1. CASE m = None
  BY <1>1 DEF Xmit, Forth
<1>2. CASE m # None
  <2>1. m \in 1..Highest /\ m \in Nat
    BY <1>2, UrpAssumption DEF None
  <2>2. m % 8 \in 0..7
    BY <2>1, ModEight
  <2>3. Size[m] \in 0..MaxData
    BY <2>1, UrpAssumption
  <2>4. /\ Item("DATA", m) \in ToReceiver
        /\ Item("BOT", Size[m]) \in ToReceiver /\ (Size[m] = 0 => Item("BOT", 0) \in ToReceiver)
        /\ Item("SEQ", m % 8) \in ToReceiver
    BY <2>1, <2>2, <2>3 DEF Item, ToReceiver
  <2> QED  BY <1>2, <2>4 DEF Xmit, Forth
<1> QED  BY <1>1, <1>2

\* A retransmission sends whole messages.
LEMMA ResendType ==
  ASSUME NEW w \in 0..10, NEW b \in [0..7 -> 0..Highest]
  PROVE  Resend(w, b) \in Forth
<1> DEFINE A(i) == IF i < WNX THEN Xmit(b[i % 8]) ELSE <<>>
<1>1. ASSUME NEW i \in 0..12 PROVE A(i) \in Forth
  <2>1. i % 8 \in 0..7
    BY ModEight
  <2>2. b[i % 8] \in 0..Highest
    BY <2>1
  <2>3. Xmit(b[i % 8]) \in Forth
    BY <2>2, XmitType
  <2>4. <<>> \in Forth
    BY DEF Forth
  <2> QED  BY <2>3, <2>4
<1>2. A(w) \in Forth /\ A(w + 1) \in Forth /\ A(w + 2) \in Forth
  <2>1. w \in 0..12 /\ w + 1 \in 0..12 /\ w + 2 \in 0..12
    OBVIOUS
  <2> HIDE DEF A
  <2> QED  BY <1>1, <2>1
<1>3. Resend(w, b) = A(w) \o A(w + 1) \o A(w + 2)
  BY DEF Resend
<1> HIDE DEF A
<1> QED  BY <1>2, <1>3 DEF Forth

-----------------------------------------------------------------------------
(* The inductive invariant                                                 *)

\* Messages are sent in the order they are written.
InOrder == sent <= written /\ written <= first - 1 + Total[first]

\* WNX is the number of the next message, less what was taken off the window
\* whenever WS came to 8.
Numbered == \E k \in Nat : sent + 1 = WNX + 8 * k

UInv == WindowOK /\ InOrder /\ Numbered

\* Steps that leave the window alone.
Sender == <<WS, WACK, WNX, xb, first, written, sent>>

\* What goes on between the ends does not disturb the window.
LEMMA StillUInv ==
  ASSUME UInv, UNCHANGED Sender, TypeOK'
  PROVE  UInv'
BY DEF UInv, WindowOK, InOrder, Numbered, Number, Sender

\* The bounds of the numbers written and sent.
LEMMA Bounds ==
  ASSUME TypeOK, InOrder
  PROVE  /\ first \in 1..7 /\ Total[first] \in Nat /\ XW \in 1..3
         /\ Highest \in Nat /\ written <= Highest /\ sent <= Highest
<1>1. first \in Firsts /\ first \in 1..7 /\ Total[first] \in Nat /\ XW \in 1..3
      /\ Highest \in Nat /\ first - 1 + Total[first] <= Highest
  BY Messages DEF TypeOK
<1>2. written \in Int /\ sent \in Int
  BY <1>1 DEF TypeOK
<1> QED  BY <1>1, <1>2 DEF InOrder

-----------------------------------------------------------------------------
(* The steps of the sender                                                 *)

\* dkpoput puts a message behind those that wait.
LEMMA WriteStep == ASSUME UInv, Write PROVE UInv'
<1> USE DEF UInv, WindowOK
<1>1. /\ first \in 1..7 /\ Total[first] \in Nat /\ XW \in 1..3
      /\ Highest \in Nat /\ written <= Highest /\ sent <= Highest
  BY Bounds
<1>2. written' = written + 1 /\ sent' = sent /\ first' = first /\ written < Highest
  <2>1. /\ written < first - 1 + Total[first] /\ written \in Int
        /\ first - 1 + Total[first] <= Highest
    BY Messages DEF Write, TypeOK
  <2> QED  BY <1>1, <2>1 DEF Write
<1>3. enabled' \in BOOLEAN
  BY DEF Write
<1>4. TypeOK'
  <2>1. written' \in 0..Highest
    BY <1>1, <1>2 DEF TypeOK
  <2> QED  BY <1>2, <1>3, <2>1 DEF Write, TypeOK, windows, receiver
<1>5. InOrder'
  <2>1. written < first - 1 + Total[first] /\ written \in Int /\ sent \in Int
    BY DEF Write, TypeOK
  <2> QED  BY <1>1, <1>2, <2>1 DEF InOrder
<1> QED  BY <1>2, <1>4, <1>5 DEF Write, Numbered, Number, windows

\* dkposrv finds nothing to send, or no room in the window.
LEMMA SendEndStep == ASSUME UInv, SendEnd PROVE UInv'
<1>1. TypeOK'
  BY DEF UInv, WindowOK, SendEnd, TypeOK, windows, receiver
<1> QED  BY <1>1, StillUInv DEF SendEnd, Sender, windows

\* A message is given the number after the last and the buffer of that number,
\* which is free.
LEMMA SendStep == ASSUME UInv, Send PROVE UInv'
<1> USE DEF UInv, WindowOK
<1>1. /\ first \in 1..7 /\ Total[first] \in Nat /\ XW \in 1..3
      /\ Highest \in Nat /\ written <= Highest /\ sent <= Highest
  BY Bounds
<1>2. /\ WS \in 0..7 /\ WACK \in 0..10 /\ WNX \in 0..10 /\ sent \in Nat /\ written \in Nat
      /\ xb \in [0..7 -> 0..Highest]
  <2>1. /\ WS \in 0..7 /\ WACK \in 0..10 /\ WNX \in 0..10
        /\ xb \in [0..7 -> 0..Highest]
        /\ sent \in Nat /\ written \in Nat
    BY DEF TypeOK
  <2> QED  BY <1>1, <2>1
<1>3. /\ WNX < WS + XW /\ sent < written
      /\ sent' = sent + 1 /\ WNX' = WNX + 1 /\ WS' = WS /\ WACK' = WACK
      /\ written' = written /\ first' = first
  BY DEF Send, MaySend
<1>4. xb' = [xb EXCEPT ![WNX % 8] = sent + 1]
  BY DEF Send
<1>5. WNX % 8 \in 0..7 /\ sent + 1 \in 1..Highest /\ sent + 1 \in 0..Highest
  BY <1>1, <1>2, <1>3, ModEight
<1>6. Xmit(sent + 1) \in Forth
  BY <1>5, XmitType
<1>7. TypeOK'
  <2>1. xb' \in [0..7 -> 0..Highest]
    BY <1>2, <1>4, <1>5
  <2>2. forth' \in Forth
    BY <1>6 DEF Send, TypeOK, Forth
  <2>3. WNX' \in 0..10 /\ sent' \in 0..Highest
    BY <1>1, <1>2, <1>3
  <2> QED  BY <1>3, <2>1, <2>2, <2>3 DEF Send, TypeOK, receiver, Forth
<1>8. PICK k \in Nat : sent + 1 = WNX + 8 * k
  BY DEF Numbered
<1>9. InOrder' /\ Numbered'
  <2>1. sent' + 1 = WNX' + 8 * k
    BY <1>2, <1>3, <1>8
  <2>2. Numbered'
    BY <2>1 DEF Numbered
  <2> QED  BY <1>2, <1>3, <2>2 DEF InOrder
<1>10. WS' <= WACK' /\ WACK' <= WNX' /\ WNX' <= WS' + XW
  BY <1>1, <1>2, <1>3
<1>11. ASSUME NEW i \in 0..7
       PROVE  \/ xb'[i] = None /\ ~\E w \in WACK'..(WNX' - 1) : w % 8 = i
              \/ xb'[i] # None /\ xb'[i] % 8 = i /\ xb'[i] \in Number(WACK)'..sent'
  <2>0. Number(WACK) = WACK + 8 * k /\ Number(WACK)' = WACK + 8 * k
    BY <1>2, <1>3, <1>8 DEF Number
  <2>1. CASE i = WNX % 8
    <3>1. xb'[i] = sent + 1
      BY <1>2, <1>4, <1>5, <2>1
    <3>2. (sent + 1) % 8 = WNX % 8
      BY <1>2, <1>8
    <3>3. sent + 1 \in Number(WACK)'..sent'
      BY <1>2, <1>3, <1>8, <2>0
    <3> QED  BY <1>5, <2>1, <3>1, <3>2, <3>3 DEF None
  <2>2. CASE i # WNX % 8
    <3>1. xb'[i] = xb[i]
      BY <1>2, <1>4, <2>2
    <3>2. CASE xb[i] = None /\ ~\E w \in WACK..(WNX - 1) : w % 8 = i
      <4>1. ASSUME NEW w \in WACK'..(WNX' - 1) PROVE w % 8 # i
        <5>1. w \in WACK..(WNX - 1) \/ w = WNX
          BY <1>2, <1>3
        <5> QED  BY <2>2, <3>2, <5>1
      <4> QED  BY <3>1, <3>2, <4>1
    <3>3. CASE xb[i] # None /\ xb[i] % 8 = i /\ xb[i] \in Number(WACK)..sent
      <4>1. xb[i] \in Number(WACK)'..sent'
        BY <1>2, <1>3, <2>0, <3>3
      <4> QED  BY <3>1, <3>3, <4>1
    <3> QED  BY <3>2, <3>3
  <2> QED  BY <2>1, <2>2
<1> QED  BY <1>7, <1>9, <1>10, <1>11

\* dkptimer asks; the window stays.
LEMMA TimerStep == ASSUME UInv, Dkptimer PROVE UInv'
<1>1. Item("INIT1", 0) \in ToReceiver /\ Item("ENQ", 0) \in ToReceiver
  BY DEF ToReceiver
<1>2. forth' \in Seq(ToReceiver)
  <2>1. forth \in Seq(ToReceiver)
    BY DEF UInv, WindowOK, TypeOK
  <2>2. forth' = Append(forth, Item("INIT1", 0)) \/ forth' = Append(forth, Item("ENQ", 0))
    BY DEF Dkptimer
  <2> QED  BY <1>1, <2>1, <2>2
<1>3. TypeOK'
  BY <1>2 DEF UInv, WindowOK, Dkptimer, TypeOK, windows, writer, receiver
<1> QED  BY <1>3, StillUInv DEF Dkptimer, Sender, windows, writer

Reply == Control \cup {Item("AINIT", 0)}

\* What is taken from the line behind a reply is a list of replies.
LEMMA BackType ==
  ASSUME TypeOK, back # <<>>
  PROVE  Head(back) \in Reply /\ Tail(back) \in Seq(Reply)
<1>1. back \in Seq(Reply)
  BY DEF TypeOK, Reply
<1> QED  BY <1>1

\* An AINIT opens the circuit.
LEMMA HearAinitStep == ASSUME UInv, Hear, HearAinit PROVE UInv'
<1>1. back' \in Seq(Reply)
  BY BackType DEF UInv, WindowOK, Hear
<1>2. state' \subseteq Flags /\ enabled' \in BOOLEAN
  BY DEF UInv, WindowOK, TypeOK, Flags, HearAinit
<1>3. TypeOK'
  BY <1>1, <1>2 DEF UInv, WindowOK, Hear, HearAinit, TypeOK, windows, receiver, Reply
<1> QED  BY <1>3, StillUInv DEF Hear, HearAinit, Sender, windows

\* A REJ has the unacknowledged messages sent again.
LEMMA HearRejStep == ASSUME UInv, Hear, HearRej PROVE UInv'
<1>1. back' \in Seq(Reply)
  BY BackType DEF UInv, WindowOK, Hear
<1>2. Resend(WACK, xb) \in Forth /\ forth \in Forth
  BY ResendType DEF UInv, WindowOK, TypeOK, Forth
<1>3. /\ (state' = state \cup {"RJING"} /\ forth' = forth \o Resend(WACK, xb))
         \/ (state' = state /\ forth' = forth)
      /\ UNCHANGED <<WS, WACK, WNX, xb, enabled>>
  BY DEF HearRej
<1>4. forth' \in Forth
  <2>1. CASE forth' = forth \o Resend(WACK, xb)
    BY <1>2, <2>1 DEF Forth
  <2> QED  BY <1>2, <1>3, <2>1
<1>5. state' \subseteq Flags
  BY <1>3 DEF UInv, WindowOK, TypeOK, Flags
<1>6. TypeOK'
  BY <1>1, <1>3, <1>4, <1>5 DEF UInv, WindowOK, Hear, TypeOK, receiver, Reply, Forth
<1> QED  BY <1>3, <1>6, StillUInv DEF Hear, Sender

\* A reply never means a message that has not been sent, whatever its number.
LEMMA MeantFacts ==
  ASSUME NEW n \in 0..7, WNX \in 0..10
  PROVE  Meant(n) \in -8..9 /\ Meant(n) < WNX
BY DEF Meant

\* Whatever an acknowledgement says, it keeps the order of the window, frees the
\* buffers of what it acknowledges and no others.
LEMMA HearAckStep == ASSUME UInv, Hear, HearAck PROVE UInv'
<1> USE DEF UInv, WindowOK
<1>1. /\ first \in 1..7 /\ Total[first] \in Nat /\ XW \in 1..3
      /\ Highest \in Nat /\ written <= Highest /\ sent <= Highest
  BY Bounds
<1>2. /\ WS \in 0..7 /\ WACK \in 0..10 /\ WNX \in 0..10 /\ sent \in Nat /\ written \in Nat
      /\ xb \in [0..7 -> 0..Highest]
  <2>1. /\ WS \in 0..7 /\ WACK \in 0..10 /\ WNX \in 0..10
        /\ xb \in [0..7 -> 0..Highest]
        /\ sent \in Nat /\ written \in Nat
    BY DEF TypeOK
  <2> QED  BY <1>1, <2>1
<1>3. Head(back) \in Reply /\ back' \in Seq(Reply)
  BY BackType DEF Hear
<1>4. PICK c \in {"ECHO", "ACK"}, n \in 0..7 : c = Head(back).k /\ n = Head(back).n
  BY <1>3 DEF HearAck, Reply, Control, Item
<1>5. Rack(c, n)
  BY <1>4 DEF HearAck
<1>6. PICK s \in -8..9 : s = Meant(n) /\ s < WNX
  BY <1>2, MeantFacts
<1>7. PICK ack \in 0..10 : ack = IF WACK <= s THEN s + 1 ELSE WACK
  BY <1>2, <1>6
<1>8. PICK ws \in 0..10 : ws = IF c = "ECHO" /\ WS <= s THEN s + 1 ELSE WS
  BY <1>2, <1>6
<1>9. PICK wrap \in {0, 8} : wrap = IF ws >= 8 THEN 8 ELSE 0
  BY <1>8
<1>10. /\ xb' = [i \in 0..7 |-> IF \E j \in WS..s : j % 8 = i THEN None ELSE xb[i]]
       /\ WS' = ws - wrap /\ WACK' = ack - wrap /\ WNX' = WNX - wrap
       /\ state' = state \ {"RJING"}
  BY <1>5, <1>6, <1>7, <1>8, <1>9 DEF Rack
<1>11. ws <= ack /\ ack <= WNX /\ WNX <= ws + XW /\ WS <= ws /\ WACK <= ack
  BY <1>1, <1>2, <1>6, <1>7, <1>8
<1>12. /\ WS' \in 0..7 /\ WACK' \in 0..10 /\ WNX' \in 0..10
       /\ WS' <= WACK' /\ WACK' <= WNX' /\ WNX' <= WS' + XW
  BY <1>1, <1>2, <1>7, <1>8, <1>9, <1>10, <1>11
<1>13. xb' \in [0..7 -> 0..Highest]
  BY <1>2, <1>10, Messages
<1>14. forth' \in Forth
  <2>1. forth' = forth \o (IF c = "ACK" THEN Resend(ack, xb') ELSE <<>>)
    BY <1>5, <1>6, <1>7 DEF Rack
  <2>2. Resend(ack, xb') \in Forth
    BY <1>7, <1>13, ResendType
  <2> QED  BY <2>1, <2>2 DEF TypeOK, Forth
<1>15. enabled' \in BOOLEAN
  BY <1>5 DEF Rack, TypeOK
<1>16. TypeOK'
  BY <1>3, <1>10, <1>12, <1>13, <1>14, <1>15
     DEF Hear, TypeOK, receiver, Reply, Forth
<1>17. PICK k \in Nat : sent + 1 = WNX + 8 * k
  BY DEF Numbered
<1>18. PICK m \in Nat : sent + 1 = WNX - wrap + 8 * m
  <2>1. CASE wrap = 0
    <3>1. k \in Nat /\ sent + 1 = WNX - wrap + 8 * k
      BY <1>2, <1>17, <2>1
    <3> QED  BY <3>1
  <2>2. CASE wrap = 8
    <3>1. k + 1 \in Nat /\ sent + 1 = WNX - wrap + 8 * (k + 1)
      BY <1>2, <1>17, <2>2
    <3> QED  BY <3>1
  <2> QED  BY <2>1, <2>2
<1>19. sent' = sent /\ written' = written /\ first' = first
  BY DEF Hear
<1>20. InOrder' /\ Numbered'
  <2>1. Numbered'
    BY <1>10, <1>18, <1>19 DEF Numbered
  <2> QED  BY <1>19, <2>1 DEF InOrder
<1>21. Number(WACK) = WACK + 8 * k /\ Number(WACK)' = ack + 8 * k
  BY <1>2, <1>7, <1>10, <1>17, <1>19 DEF Number
<1>22. ASSUME NEW i \in 0..7
       PROVE  \/ xb'[i] = None /\ ~\E w \in WACK'..(WNX' - 1) : w % 8 = i
              \/ xb'[i] # None /\ xb'[i] % 8 = i /\ xb'[i] \in Number(WACK)'..sent'
  <2>1. ASSUME NEW w \in WACK'..(WNX' - 1), w % 8 = i
        PROVE  \E v \in ack..(WNX - 1) : v % 8 = i
    <3>1. w + wrap \in ack..(WNX - 1) /\ (w + wrap) % 8 = w % 8
      BY <1>2, <1>7, <1>9, <1>10, <1>12
    <3> QED  BY <2>1, <3>1
  <2>2. CASE \E j \in WS..s : j % 8 = i
    <3>1. xb'[i] = None
      BY <1>10, <2>2
    <3>2. PICK j \in WS..s : j % 8 = i
      BY <2>2
    <3>3. ASSUME NEW v \in ack..(WNX - 1) PROVE v % 8 # i
      <4>1. v \in Int /\ j \in Int /\ s \in Int /\ j <= s /\ s < v /\ v - j < 8
        BY <1>1, <1>2, <1>6, <1>7, <1>11, <3>2
      <4>2. j \in 0..9 /\ v \in 0..9
        BY <1>1, <1>2, <1>6, <1>7, <3>2, <4>1
      <4> QED  BY <3>2, <4>1, <4>2
    <3> QED  BY <2>1, <3>1, <3>3
  <2>3. CASE ~\E j \in WS..s : j % 8 = i
    <3>1. xb'[i] = xb[i]
      BY <1>10, <2>3
    <3>2. CASE xb[i] = None /\ ~\E w \in WACK..(WNX - 1) : w % 8 = i
      <4>1. ~\E v \in ack..(WNX - 1) : v % 8 = i
        BY <1>2, <1>7, <1>11, <3>2
      <4> QED  BY <2>1, <3>1, <3>2, <4>1
    <3>3. CASE xb[i] # None /\ xb[i] % 8 = i /\ xb[i] \in Number(WACK)..sent
      <4>1. PICK w \in Int : w = xb[i] - 8 * k
        BY <1>2, <3>3
      <4>2. w \in WACK..(WNX - 1) /\ w % 8 = i
        BY <1>2, <1>17, <1>21, <3>3, <4>1
      <4>3. w >= ack
        <5>1. CASE WACK <= s
          <6>1. w \notin WS..s
            BY <2>3, <4>2
          <6> QED  BY <1>2, <1>6, <1>7, <4>2, <5>1, <6>1
        <5>2. CASE ~(WACK <= s)
          BY <1>2, <1>7, <4>2, <5>2
        <5> QED  BY <5>1, <5>2
      <4>4. xb[i] \in Number(WACK)'..sent'
        BY <1>2, <1>7, <1>19, <1>21, <3>3, <4>1, <4>3
      <4> QED  BY <3>1, <3>3, <4>4
    <3> QED  BY <3>2, <3>3
  <2> QED  BY <2>2, <2>3
<1> QED  BY <1>12, <1>16, <1>20, <1>22

\* Whatever reply comes.
LEMMA HearStep == ASSUME UInv, Hear PROVE UInv'
BY HearAinitStep, HearRejStep, HearAckStep DEF Hear

-----------------------------------------------------------------------------
(* The steps of the receiver, which keep its types                         *)

Collected == Seq(0..Highest)   \* the blocks of a message
InItem == Control \cup [k: {"DATA"}, n: Collected]
InQueue == Seq(InItem)

\* What the receiver has of its own.
ReceiverOK ==
  /\ inp \in Collected /\ indata \in 0..2 * MaxData /\ trx \in 0..3
  /\ trsize \in 0..2 * MaxData + 1 /\ iseq \in 0..7 /\ lastecho \in Control
  /\ rq \in InQueue /\ read \in Seq(Collected) /\ back \in Seq(Reply)

\* The invariant says what the receiver keeps.
LEMMA ReceiverParts == ASSUME UInv PROVE ReceiverOK /\ forth \in Forth
BY DEF UInv, WindowOK, TypeOK, ReceiverOK, Collected, InItem, InQueue, Reply, Forth

\* A step of the receiver that keeps its types keeps the invariant.
LEMMA ReceiverUInv ==
  ASSUME UInv, ReceiverOK', forth' \in Forth, losses' = losses,
         UNCHANGED <<state, windows, first, writer>>
  PROVE  UInv'
<1>1. TypeOK'
  BY DEF UInv, WindowOK, TypeOK, ReceiverOK, Collected, InItem, InQueue, Reply, Forth, windows,
         writer
<1> QED  BY <1>1, StillUInv DEF Sender, windows, writer

\* INFLUSH drops what was collected.
LEMMA FlushType == ASSUME Inflush PROVE /\ inp' \in Collected /\ trx' \in 0..3
                                        /\ indata' \in 0..2 * MaxData
BY DEF Inflush, MaxData, Collected

\* A data block is collected, or dropped, or its bytes go to the trailer.
LEMMA RecvDataStep ==
  ASSUME ReceiverOK, NEW m \in 1..Highest, RecvData(m), read' = read PROVE ReceiverOK'
<1> DEFINE k == Least(Size[m], Lacking)
           len == Size[m] - k
<1>1. Size[m] \in 0..256
  BY UrpAssumption DEF MaxData
<1>2. inp \in Collected /\ indata \in 0..512 /\ trx \in 0..3 /\ trsize \in 0..513
  BY DEF ReceiverOK, MaxData
<1>3. Lacking \in 0..2 /\ (Lacking # 0 => Lacking = 3 - trx)
  BY <1>2 DEF Lacking
<1>4. k \in 0..2 /\ len \in 0..256 /\ (k # 0 => k <= 3 - trx)
  BY <1>1, <1>2, <1>3 DEF Least
<1>5. m \in 0..Highest /\ None \in 0..Highest
  BY Messages
<1>6. \/ UNCHANGED <<inp, indata, trx, trsize>>
      \/ /\ trx' = trx + k /\ (trsize' \in {indata, indata + 1} \/ trsize' = trsize)
         /\ UNCHANGED <<inp, indata>>
      \/ trx' = 0 /\ UNCHANGED <<inp, indata, trsize>>
      \/ /\ trx' = 0 /\ indata <= 256 /\ indata' = indata + len /\ trsize' = trsize
         /\ inp' = Append(inp, m) \/ inp' = Append(inp, None)
  BY <1>2 DEF RecvData, MaxData
<1> HIDE DEF k, len
<1>7. inp' \in Collected
  <2>1. inp' = inp \/ inp' = Append(inp, m) \/ inp' = Append(inp, None)
    BY <1>6
  <2>2. \A n \in 0..Highest : Append(inp, n) \in Collected
    BY <1>2 DEF Collected
  <2> QED  BY <1>2, <1>5, <2>1, <2>2
<1>8. trx' \in 0..3
  <2>1. trx' = trx \/ trx' = trx + k \/ trx' = 0
    BY <1>6
  <2> QED  BY <1>2, <1>4, <2>1
<1>9. indata' \in 0..512 /\ trsize' \in 0..513
  <2>1. \/ indata' = indata
        \/ indata <= 256 /\ indata' = indata + len
    BY <1>6
  <2>2. trsize' = trsize \/ trsize' = indata \/ trsize' = indata + 1
    BY <1>6
  <2> QED  BY <1>2, <1>4, <2>1, <2>2
<1> QED  BY <1>7, <1>8, <1>9 DEF RecvData, ReceiverOK, MaxData

\* A trailer is noted, or lost.
LEMMA RecvTrailerStep ==
  ASSUME ReceiverOK, NEW size \in 0..MaxData, RecvTrailer(size), read' = read
  PROVE  ReceiverOK'
<1>1. trx' \in 0..3 /\ trsize' \in 0..2 * MaxData + 1
  <2>1. trx \in 0..3 /\ trsize \in 0..2 * MaxData + 1 /\ 0..MaxData \subseteq 0..2 * MaxData + 1
    BY DEF ReceiverOK, MaxData
  <2> QED  BY <2>1 DEF RecvTrailer
<1> QED  BY <1>1 DEF ReceiverOK, RecvTrailer

\* A number accepts the message or rejects it.
LEMMA RecvSeqStep ==
  ASSUME ReceiverOK, NEW i \in 0..7, RecvSeq(i), read' = read PROVE ReceiverOK'
<1>1. /\ inp' \in Collected /\ trx' \in 0..3 /\ indata' \in 0..2 * MaxData
  BY FlushType DEF RecvSeq
<1>2. iseq' \in 0..7
  BY DEF RecvSeq, ReceiverOK
<1>3. Item("ECHO", i) \in Control /\ Item("REJ", iseq) \in Control
  BY DEF Control, Item, ReceiverOK
<1>4. rq' \in InQueue
  <2>1. \/ rq' = rq \o <<Item("DATA", inp), Item("ECHO", i)>>
        \/ rq' = Append(rq, Item("REJ", iseq))
    BY DEF RecvSeq
  <2>2. rq \in InQueue
    BY DEF ReceiverOK
  <2>3. rq \o <<Item("DATA", inp), Item("ECHO", i)>> \in InQueue
    <3>1. Item("ECHO", i) \in InItem /\ Item("DATA", inp) \in InItem
      BY <1>3 DEF ReceiverOK, InItem, Item
    <3> QED  BY <2>2, <3>1 DEF InQueue
  <2>4. Append(rq, Item("REJ", iseq)) \in InQueue
    <3>1. Item("REJ", iseq) \in InItem
      BY <1>3 DEF InItem
    <3> QED  BY <2>2, <3>1 DEF InQueue
  <2> QED  BY <2>1, <2>3, <2>4
<1> QED  BY <1>1, <1>2, <1>4 DEF RecvSeq, ReceiverOK

\* An ENQ is answered.
LEMMA RecvEnqStep == ASSUME ReceiverOK, RecvEnq, read' = read PROVE ReceiverOK'
<1>1. /\ inp' \in Collected /\ trx' \in 0..3 /\ indata' \in 0..2 * MaxData
  BY FlushType DEF RecvEnq
<1>2. lastecho \in Reply /\ Item("ACK", iseq) \in Reply /\ back \in Seq(Reply)
  BY DEF ReceiverOK, Reply, Control, Item
<1>3. back' \in Seq(Reply)
  BY <1>2 DEF RecvEnq
<1> QED  BY <1>1, <1>3 DEF RecvEnq, ReceiverOK

\* An INIT1 is answered and starts the numbers again.
LEMMA RecvInitStep == ASSUME ReceiverOK, RecvInit, read' = read PROVE ReceiverOK'
<1>1. /\ inp' \in Collected /\ trx' \in 0..3 /\ indata' \in 0..2 * MaxData
  BY FlushType DEF RecvInit
<1>2. Item("AINIT", 0) \in Reply /\ back \in Seq(Reply)
  BY DEF ReceiverOK, Reply
<1>3. back' \in Seq(Reply)
  BY <1>2 DEF RecvInit
<1> QED  BY <1>1, <1>3 DEF RecvInit, ReceiverOK

\* Whatever comes in at the receiver.
LEMMA RecvStep == ASSUME UInv, Recv PROVE UInv'
<1>1. ReceiverOK /\ forth \in Forth
  BY ReceiverParts
<1>2. PICK x \in ToReceiver : x = Head(forth)
  BY <1>1 DEF Recv, Forth
<1>3. forth' \in Forth
  BY <1>1 DEF Recv, Forth
<1>4. read' = read /\ losses' = losses /\ UNCHANGED <<state, windows, first, writer>>
  BY DEF Recv
<1>5. ReceiverOK'
  <2>1. CASE x.k = "DATA" /\ RecvData(x.n)
    <3>1. x.n \in 1..Highest
      BY <2>1 DEF ToReceiver, Item
    <3> QED  BY <1>1, <1>4, <2>1, <3>1, RecvDataStep
  <2>2. CASE x.k = "BOT" /\ RecvTrailer(x.n)
    <3>1. x.n \in 0..MaxData
      BY <2>2 DEF ToReceiver, Item
    <3> QED  BY <1>1, <1>4, <2>2, <3>1, RecvTrailerStep
  <2>3. CASE x.k = "SEQ" /\ RecvSeq(x.n)
    <3>1. x.n \in 0..7
      BY <2>3 DEF ToReceiver, Item
    <3> QED  BY <1>1, <1>4, <2>3, <3>1, RecvSeqStep
  <2>4. CASE x.k = "ENQ" /\ RecvEnq
    BY <1>1, <1>4, <2>4, RecvEnqStep
  <2>5. CASE x.k = "INIT1" /\ RecvInit
    BY <1>1, <1>4, <2>5, RecvInitStep
  <2> QED  BY <1>2, <2>1, <2>2, <2>3, <2>4, <2>5 DEF Recv
<1> QED  BY <1>3, <1>4, <1>5, ReceiverUInv

\* dkpisrv passes an item on.
LEMMA IsrvStep == ASSUME UInv, Dkpisrv PROVE UInv'
<1>1. ReceiverOK /\ forth \in Forth
  BY ReceiverParts
<1>2. PICK x \in InItem : x = Head(rq)
  BY <1>1 DEF Dkpisrv, ReceiverOK, InQueue
<1>3. rq' \in InQueue
  BY <1>1 DEF Dkpisrv, ReceiverOK, InQueue
<1>4. read' \in Seq(Collected) /\ lastecho' \in Control /\ back' \in Seq(Reply)
  <2>1. read \in Seq(Collected) /\ lastecho \in Control /\ back \in Seq(Reply)
    BY <1>1 DEF ReceiverOK
  <2>2. CASE x.k = "DATA"
    <3>1. x.n \in Collected
      BY <2>2 DEF Control, InItem
    <3>2. read' = Append(read, x.n) /\ UNCHANGED <<lastecho, back>>
      BY <1>2, <2>2 DEF Dkpisrv
    <3> QED  BY <2>1, <3>1, <3>2
  <2>3. CASE x.k # "DATA"
    <3>1. x \in Control /\ x \in Reply
      BY <2>3 DEF Reply, InItem
    <3>2. lastecho' = x /\ back' = Append(back, x) /\ read' = read
      BY <1>2, <2>3 DEF Dkpisrv
    <3> QED  BY <2>1, <3>1, <3>2
  <2> QED  BY <2>2, <2>3
<1>5. ReceiverOK'
  BY <1>1, <1>3, <1>4 DEF Dkpisrv, ReceiverOK
<1> QED  BY <1>1, <1>5, ReceiverUInv DEF Dkpisrv

\* The lines lose an item.
LEMMA LoseStep == ASSUME UInv, Lose PROVE UInv'
<1>1. ReceiverOK /\ forth \in Forth
  BY ReceiverParts
<1>2. forth' \in Forth /\ back' \in Seq(Reply)
  <2>0. forth \in Seq(ToReceiver) /\ back \in Seq(Reply)
    BY <1>1 DEF ReceiverOK, Forth
  <2>1. CASE forth # <<>> /\ forth' = Tail(forth) /\ back' = back
    BY <2>0, <2>1 DEF Forth
  <2>2. CASE back # <<>> /\ back' = Tail(back) /\ forth' = forth
    BY <2>0, <2>2 DEF Forth
  <2> QED  BY <2>1, <2>2 DEF Lose
<1>3. losses' \in 0..MaxLoss
  BY UrpAssumption DEF Lose, UInv, WindowOK, TypeOK
<1>4. TypeOK'
  BY <1>2, <1>3 DEF Lose, UInv, WindowOK, TypeOK, Reply, Forth, windows, writer, receiver
<1> QED  BY <1>4, StillUInv DEF Lose, Sender, windows, writer

-----------------------------------------------------------------------------
(* The theorem                                                             *)

\* A circuit that is opened, or has been running.
LEMMA InitUInv == ASSUME Init PROVE UInv
<1>1. /\ first \in Firsts /\ first \in 1..7 /\ Total[first] \in Nat /\ XW \in 1..3 /\ MaxLoss \in Nat
      /\ Highest \in Nat /\ first - 1 <= Highest
  BY UrpAssumption DEF Init
<1>2. TypeOK
  <2>1. state \subseteq Flags /\ xb \in [0..7 -> 0..Highest]
    BY Messages DEF Init, Flags
  <2>2. Item("INIT1", 0) \in ToReceiver
    BY DEF ToReceiver
  <2>3. forth \in Seq(ToReceiver)
    BY <2>2 DEF Init
  <2>4. lastecho \in Control
    BY <1>1 DEF Init, Control, Item
  <2>5. /\ WS \in 0..7 /\ WACK \in 0..10 /\ WNX \in 0..10
        /\ written \in 0..Highest /\ sent \in 0..Highest
        /\ iseq \in 0..7 /\ losses \in 0..MaxLoss
    BY <1>1 DEF Init
  <2>6. /\ indata \in 0..2 * MaxData /\ trx \in 0..3 /\ trsize \in 0..2 * MaxData + 1
    BY DEF Init, MaxData
  <2>7. /\ enabled \in BOOLEAN /\ back = <<>> /\ inp = <<>> /\ rq = <<>> /\ read = <<>>
    BY DEF Init
  <2> QED  BY <1>1, <2>1, <2>3, <2>4, <2>5, <2>6, <2>7 DEF TypeOK
<1>3. InOrder
  BY <1>1 DEF Init, InOrder
<1>4. Numbered
  <2>1. 0 \in Nat /\ sent + 1 = WNX + 8 * 0
    BY <1>1 DEF Init
  <2> QED  BY <2>1 DEF Numbered
<1>5. WS <= WACK /\ WACK <= WNX /\ WNX <= WS + XW
  BY <1>1 DEF Init
<1>6. \A i \in 0..7 : xb[i] = None /\ ~\E w \in WACK..(WNX - 1) : w % 8 = i
  BY <1>1 DEF Init
<1> QED  BY <1>2, <1>3, <1>4, <1>5, <1>6 DEF UInv, WindowOK

\* Every step keeps the window.
LEMMA UInvStep == ASSUME UInv, [Next]_vars PROVE UInv'
<1>1. CASE UNCHANGED vars
  <2>1. TypeOK'
    BY <1>1 DEF UInv, WindowOK, TypeOK, vars, windows, writer, receiver
  <2> QED  BY <1>1, <2>1, StillUInv DEF vars, Sender, windows, writer
<1> QED  BY <1>1, WriteStep, SendStep, SendEndStep, HearStep, TimerStep, RecvStep,
            IsrvStep, LoseStep DEF Next

\* The sender's window: 0 <= WS <= WACK <= WNX <= WS + XW, and the buffers are
\* those of the messages that are not acknowledged, whatever the line loses
\* and however late the replies come (dkp.c:657).
THEOREM WindowKept == Spec => []WindowOK
<1>1. Init => UInv
  BY InitUInv
<1>2. UInv /\ [Next]_vars => UInv'
  BY UInvStep
<1>3. UInv => WindowOK
  BY DEF UInv
<1> QED  BY <1>1, <1>2, <1>3, PTL DEF Spec

-----------------------------------------------------------------------------
(***************************************************************************)
(* What a reply says is true of the numbers (Urp.NumbersAccepted): every    *)
(* one is accepted once and in turn, an acknowledged one has been, and what *)
(* was accepted under one the window has left behind has been passed on.    *)
(* Which data were accepted under a number is another matter: a trailer     *)
(* tells only how long they are (Urp.EchoesTrue, UrpLosses.cfg).            *)
(*                                                                         *)
(* Numbers are modulo 8, so the argument is about the message a number      *)
(* stands for, given how many have been sent (Val).  Every number on its    *)
(* way, on the lines, in lastecho or in the read queue, stands for one of   *)
(* the last eight messages; replies lie between what the window has left    *)
(* behind and what has been accepted, and no number follows an echo of a    *)
(* later message.  An echo in the read queue has the data before it.  A     *)
(* number on the line forth is less than XW behind whatever was accepted    *)
(* before it, so that the number after the last accepted one is that of     *)
(* the message after.                                                      *)
(***************************************************************************)

-----------------------------------------------------------------------------
(* The message a number stands for                                         *)

\* When s messages have been sent: the last of them with number n, modulo 8.
Val(s, n) == s - ((s - n) % 8)

\* It is one of the last eight.
LEMMA ValRange ==
  ASSUME NEW s \in Nat, NEW n \in 0..7
  PROVE  Val(s, n) \in Int /\ s - 7 <= Val(s, n) /\ Val(s, n) <= s
BY DEF Val

\* A message that is one of the last eight is meant by its number.
LEMMA ValIs ==
  ASSUME NEW s \in Nat, NEW m \in Nat, s - 7 <= m, m <= s
  PROVE  m % 8 \in 0..7 /\ Val(s, m % 8) = m
BY DEF Val

\* Another message does not change what a number means, unless it is its own.
LEMMA ValKeeps ==
  ASSUME NEW s \in Nat, NEW n \in 0..7, s - 6 <= Val(s, n)
  PROVE  Val(s + 1, n) = Val(s, n)
BY DEF Val

\* The number after i, when it cannot be far away, means the message after.
LEMMA ValNext ==
  ASSUME NEW s \in Nat, NEW i \in 0..7, NEW n \in 0..7, n = (i + 1) % 8,
         Val(s, i) - 3 <= Val(s, n), Val(s, n) <= Val(s, i) + 3
  PROVE  Val(s, n) = Val(s, i) + 1
BY DEF Val

\* A message has its number.
LEMMA ValMod ==
  ASSUME NEW s \in Nat, NEW n \in 0..7, Val(s, n) \in Nat
  PROVE  Val(s, n) % 8 = n
BY DEF Val

\* dkprack finds the message a number stands for.
LEMMA MeantVal ==
  ASSUME UInv, NEW n \in 0..7
  PROVE  Number(Meant(n)) = Val(sent, n)
<1>1. WNX \in 0..10 /\ sent \in Nat
  BY DEF UInv, WindowOK, TypeOK
<1>2. PICK k \in Nat : sent + 1 = WNX + 8 * k
  BY DEF UInv, Numbered
<1> QED  BY <1>1, <1>2 DEF Number, Meant, Val

-----------------------------------------------------------------------------
(* Counting what is data                                                   *)

Data(s, j) == {i \in 1..j : s[i].k = "DATA"}
UpTo(s, j) == Cardinality(Data(s, j))

\* The count is a number, and 0 before the first item.
LEMMA UpToType ==
  ASSUME NEW s, NEW j \in Nat
  PROVE  UpTo(s, j) \in Nat /\ IsFiniteSet(Data(s, j)) /\ UpTo(s, 0) = 0
<1>1. IsFiniteSet(1..j)
  BY FS_Interval
<1>2. Data(s, j) \subseteq 1..j
  BY DEF Data
<1>3. IsFiniteSet(Data(s, j))
  BY <1>1, <1>2, FS_Subset
<1>4. Data(s, 0) = {}
  BY DEF Data
<1> QED  BY <1>3, <1>4, FS_CardinalityType, FS_EmptySet DEF UpTo

\* The items of s come before those of t.
LEMMA UpToConcat ==
  ASSUME NEW S, NEW s \in Seq(S), NEW t \in Seq(S)
  PROVE  /\ \A j \in 1..Len(s) : UpTo(s \o t, j) = UpTo(s, j)
         /\ \A j \in 0..Len(t) : UpTo(s \o t, Len(s) + j) = UpTo(s, Len(s)) + UpTo(t, j)
<1>1. /\ Len(s) \in Nat /\ Len(t) \in Nat
      /\ \A i \in 1..Len(s) : (s \o t)[i] = s[i]
      /\ \A i \in 1..Len(t) : (s \o t)[Len(s) + i] = t[i]
  OBVIOUS
<1> DEFINE st == s \o t
<1> HIDE DEF st
<1>2. /\ \A i \in 1..Len(s) : st[i] = s[i]
      /\ \A i \in 1..Len(t) : st[Len(s) + i] = t[i]
  BY <1>1 DEF st
<1>3. ASSUME NEW j \in 1..Len(s) PROVE UpTo(st, j) = UpTo(s, j)
  <2>1. 1..j \subseteq 1..Len(s)
    BY <1>1
  <2>2. \A i \in 1..j : st[i] = s[i]
    BY <1>2, <2>1
  <2>3. Data(st, j) = Data(s, j)
    BY <2>2 DEF Data
  <2> QED  BY <2>3 DEF UpTo
<1>4. ASSUME NEW j \in 0..Len(t)
      PROVE  UpTo(st, Len(s) + j) = UpTo(s, Len(s)) + UpTo(t, j)
  <2> DEFINE A == Data(s, Len(s))
             B == Data(t, j)
             C == {Len(s) + i : i \in B}
             f == [i \in B |-> Len(s) + i]
  <2>1. IsFiniteSet(A) /\ IsFiniteSet(B)
    BY <1>1, UpToType
  <2>2. f \in Bijection(B, C)
    BY <1>1 DEF Data, Bijection, Injection, Surjection, IsInjective
  <2>3. IsFiniteSet(C) /\ Cardinality(C) = Cardinality(B)
    <3>1. ExistsBijection(B, C)
      BY <2>2 DEF ExistsBijection
    <3> HIDE DEF B, C, f
    <3> QED  BY <2>1, <3>1, FS_Bijection
  <2>4. A \cap C = {}
    BY <1>1 DEF Data
  <2>5. Data(st, Len(s) + j) = A \cup C
    <3>1. ASSUME NEW i \in Data(st, Len(s) + j) PROVE i \in A \cup C
      <4>1. i \in 1..(Len(s) + j) /\ st[i].k = "DATA"
        BY DEF Data
      <4>2. CASE i <= Len(s)
        <5>1. i \in 1..Len(s)
          BY <1>1, <4>1, <4>2
        <5> QED  BY <1>2, <4>1, <5>1 DEF Data
      <4>3. CASE i > Len(s)
        <5>1. i - Len(s) \in 1..j /\ i - Len(s) \in 1..Len(t) /\ i = Len(s) + (i - Len(s))
          BY <1>1, <4>1, <4>3
        <5>2. t[i - Len(s)].k = "DATA"
          BY <1>2, <4>1, <5>1
        <5>3. i - Len(s) \in B
          BY <5>1, <5>2 DEF Data
        <5> QED  BY <5>1, <5>3
      <4> QED  BY <1>1, <4>1, <4>2, <4>3
    <3>2. ASSUME NEW i \in A PROVE i \in Data(st, Len(s) + j)
      <4>1. i \in 1..Len(s) /\ s[i].k = "DATA"
        BY DEF Data
      <4>2. i \in 1..(Len(s) + j)
        BY <1>1, <4>1
      <4> QED  BY <1>2, <4>1, <4>2 DEF Data
    <3>3. ASSUME NEW i \in B PROVE Len(s) + i \in Data(st, Len(s) + j)
      <4>1. i \in 1..j /\ i \in 1..Len(t) /\ t[i].k = "DATA"
        BY <1>1 DEF Data
      <4>2. Len(s) + i \in 1..(Len(s) + j)
        BY <1>1, <4>1
      <4> QED  BY <1>2, <4>1, <4>2 DEF Data
    <3> QED  BY <3>1, <3>2, <3>3
  <2> HIDE DEF A, B, C, f
  <2>6. Cardinality(A \cup C) = Cardinality(A) + Cardinality(C)
    <3>1. Cardinality(A) \in Nat /\ Cardinality(C) \in Nat
      BY <2>1, <2>3, FS_CardinalityType
    <3>2. Cardinality(A \cap C) = 0
      BY <2>4, FS_EmptySet
    <3>3. Cardinality(A \cup C) = Cardinality(A) + Cardinality(C) - Cardinality(A \cap C)
      BY <2>1, <2>3, FS_Union
    <3> QED  BY <3>1, <3>2, <3>3
  <2> QED  BY <2>3, <2>5, <2>6 DEF UpTo, A, B
<1> QED  BY <1>3, <1>4 DEF st

\* One item is data or not.
LEMMA UpToOne ==
  ASSUME NEW x
  PROVE  UpTo(<<x>>, 1) = IF x.k = "DATA" THEN 1 ELSE 0
<1>1. CASE x.k = "DATA"
  <2>1. Data(<<x>>, 1) = {1}
    BY <1>1 DEF Data
  <2> QED  BY <1>1, <2>1, FS_Singleton DEF UpTo
<1>2. CASE x.k # "DATA"
  <2>1. Data(<<x>>, 1) = {}
    BY <1>2 DEF Data
  <2> QED  BY <1>2, <2>1, FS_EmptySet DEF UpTo
<1> QED  BY <1>1, <1>2

\* An item that is taken off is counted, or is none.
LEMMA UpToTail ==
  ASSUME NEW S, NEW s \in Seq(S), s # <<>>
  PROVE  \A j \in 0..Len(Tail(s)) :
            UpTo(s, j + 1) = UpTo(Tail(s), j) + IF Head(s).k = "DATA" THEN 1 ELSE 0
<1>1. PICK h, t : h = <<Head(s)>> /\ t = Tail(s)
  OBVIOUS
<1>2. h \in Seq(S) /\ t \in Seq(S) /\ s = h \o t /\ Len(h) = 1 /\ Len(t) \in Nat
  BY <1>1
<1>3. ASSUME NEW j \in 0..Len(t)
      PROVE  UpTo(s, j + 1) = UpTo(t, j) + UpTo(h, 1)
  <2>1. UpTo(h \o t, Len(h) + j) = UpTo(h, Len(h)) + UpTo(t, j)
    <3>1. \A i \in 0..Len(t) : UpTo(h \o t, Len(h) + i) = UpTo(h, Len(h)) + UpTo(t, i)
      <4>1. h \in Seq(S) /\ t \in Seq(S)
        BY <1>2
      <4> QED  BY <4>1, UpToConcat, SMTT(30)
    <3> QED  BY <3>1
  <2>2. UpTo(t, j) \in Nat /\ UpTo(h, 1) \in Nat
    BY <1>2, UpToType
  <2>3. Len(h) + j = j + 1
    BY <1>2
  <2> QED  BY <1>2, <2>1, <2>2, <2>3
<1> QED  BY <1>1, <1>3, UpToOne

-----------------------------------------------------------------------------
(* Sequences of replies and of numbered items                              *)

IsNumber(x) == x.k \in {"ECHO", "ACK"}
Numeric(f) == \A j \in DOMAIN f : IsNumber(f[j]) => f[j].n \in 0..7
NumberedItems(f) == \A j \in DOMAIN f : f[j].k = "SEQ" => f[j].n \in 0..7

\* The numbers in f stand for messages from lo to hi.
NumsIn(f, s, lo, hi) ==
  \A j \in DOMAIN f : IsNumber(f[j]) => lo <= Val(s, f[j].n) /\ Val(s, f[j].n) <= hi

\* No number in f or g says less than an echo before it.
Before(f, g, s) ==
  \A i \in DOMAIN f : \A j \in DOMAIN g :
     f[i].k = "ECHO" /\ IsNumber(g[j]) => Val(s, f[i].n) <= Val(s, g[j].n)
Sorted(f, s) ==
  \A i, j \in DOMAIN f :
     i < j /\ f[i].k = "ECHO" /\ IsNumber(f[j]) => Val(s, f[i].n) <= Val(s, f[j].n)

\* The echoes in f are of messages up to hi.
EchoIn(f, s, hi) == \A j \in DOMAIN f : f[j].k = "ECHO" => Val(s, f[j].n) <= hi

\* An echo in the read queue is behind the data it echoes.
Heard(q, s, passed) ==
  \A j \in DOMAIN q : q[j].k = "ECHO" => Val(s, q[j].n) <= passed + UpTo(q, j)

\* The number of a data block is not far behind what is accepted before it.
NumbersOK(f, s, a) ==
  /\ \A j \in DOMAIN f : f[j].k = "SEQ" => a < Val(s, f[j].n) + XW
  /\ \A i, j \in DOMAIN f :
       i < j /\ f[i].k = "SEQ" /\ f[j].k = "SEQ" => Val(s, f[i].n) < Val(s, f[j].n) + XW

\* A circuit that is being opened has not carried a number.
OpensOK(f, q, opening, s) ==
  /\ opening => s = 0 /\ q = 0
  /\ \A j \in DOMAIN f : opening => f[j].k # "SEQ"
  /\ \A j \in DOMAIN f : f[j].k = "INIT1" => q = 0
  /\ \A i, j \in DOMAIN f : i < j /\ f[j].k = "INIT1" => f[i].k # "SEQ"

\* What is sent, now or again, is in the window.
Fresh(t, s) ==
  \A j \in DOMAIN t : /\ t[j].k # "INIT1"
                      /\ t[j].k = "SEQ" => s >= 1 /\ s < Val(s, t[j].n) + XW

\* The indices of a tail and of a concatenation.
LEMMA TailIndex ==
  ASSUME NEW S, NEW f \in Seq(S), f # <<>>
  PROVE  /\ 1 \in DOMAIN f /\ Head(f) = f[1] /\ Tail(f) \in Seq(S)
         /\ \A j \in DOMAIN Tail(f) : j + 1 \in DOMAIN f /\ Tail(f)[j] = f[j + 1] /\ j \in Nat \ {0}
         /\ Len(Tail(f)) = Len(f) - 1
OBVIOUS

\* An item of a concatenation comes from one of the two.
LEMMA ConcatIndex ==
  ASSUME NEW S, NEW f \in Seq(S), NEW t \in Seq(S)
  PROVE  /\ f \o t \in Seq(S)
         /\ \A j \in DOMAIN (f \o t) :
              \/ j \in DOMAIN f /\ (f \o t)[j] = f[j] /\ j \in 1..Len(f)
              \/ j - Len(f) \in DOMAIN t /\ (f \o t)[j] = t[j - Len(f)] /\ j > Len(f) /\ j \in Int
         /\ DOMAIN f \subseteq Nat /\ DOMAIN t \subseteq Nat /\ Len(f) \in Nat
OBVIOUS

\* What holds of replies holds when the first of them is taken off.
LEMMA TailReplies ==
  ASSUME NEW S, NEW f \in Seq(S), f # <<>>, NEW s
  PROVE  /\ Numeric(f) => Numeric(Tail(f))
         /\ \A lo, hi : NumsIn(f, s, lo, hi) => NumsIn(Tail(f), s, lo, hi)
         /\ \A g : Before(f, g, s) => Before(Tail(f), g, s) /\ Before(<<Head(f)>>, g, s)
         /\ \A g : Before(g, f, s) => Before(g, Tail(f), s) /\ Before(g, <<Head(f)>>, s)
         /\ Sorted(f, s) => Sorted(Tail(f), s) /\ Before(<<Head(f)>>, Tail(f), s)
         /\ \A hi : EchoIn(f, s, hi) => EchoIn(Tail(f), s, hi)
<1>1. /\ 1 \in DOMAIN f /\ Head(f) = f[1]
      /\ \A j \in DOMAIN Tail(f) : j + 1 \in DOMAIN f /\ Tail(f)[j] = f[j + 1] /\ j \in Nat \ {0}
  BY TailIndex
<1>2. PICK g0, h : g0 = Tail(f) /\ h = <<Head(f)>>
  OBVIOUS
<1>3. /\ \A j \in DOMAIN g0 : j + 1 \in DOMAIN f /\ g0[j] = f[j + 1] /\ j \in Nat \ {0}
      /\ \A j \in DOMAIN h : h[j] = f[1]
  BY <1>1, <1>2
<1>4. Numeric(f) => Numeric(g0)
  BY <1>3 DEF Numeric
<1>5. ASSUME NEW lo, NEW hi, NumsIn(f, s, lo, hi) PROVE NumsIn(g0, s, lo, hi)
  BY <1>3, <1>5 DEF NumsIn
<1>6. ASSUME NEW g, Before(f, g, s) PROVE Before(g0, g, s) /\ Before(h, g, s)
  BY <1>1, <1>3, <1>6 DEF Before
<1>7. ASSUME NEW g, Before(g, f, s) PROVE Before(g, g0, s) /\ Before(g, h, s)
  BY <1>1, <1>3, <1>7 DEF Before
<1>8. ASSUME Sorted(f, s) PROVE Sorted(g0, s) /\ Before(h, g0, s)
  <2>1. Sorted(g0, s)
    BY <1>3, <1>8 DEF Sorted
  <2>2. Before(h, g0, s)
    BY <1>1, <1>3, <1>8 DEF Sorted, Before
  <2> QED  BY <2>1, <2>2
<1>9. ASSUME NEW hi, EchoIn(f, s, hi) PROVE EchoIn(g0, s, hi)
  BY <1>3, <1>9 DEF EchoIn
<1> QED  BY <1>2, <1>4, <1>5, <1>6, <1>7, <1>8, <1>9

\* And of two lists of replies, one behind the other.
LEMMA ConcatReplies ==
  ASSUME NEW S, NEW f \in Seq(S), NEW t \in Seq(S), NEW s
  PROVE  /\ Numeric(f) /\ Numeric(t) => Numeric(f \o t)
         /\ \A lo, hi : NumsIn(f, s, lo, hi) /\ NumsIn(t, s, lo, hi) => NumsIn(f \o t, s, lo, hi)
         /\ \A g : Before(f, g, s) /\ Before(t, g, s) => Before(f \o t, g, s)
         /\ \A g : Before(g, f, s) /\ Before(g, t, s) => Before(g, f \o t, s)
         /\ Sorted(f, s) /\ Sorted(t, s) /\ Before(f, t, s) => Sorted(f \o t, s)
         /\ \A hi : EchoIn(f, s, hi) /\ EchoIn(t, s, hi) => EchoIn(f \o t, s, hi)
<1>1. PICK g0 : g0 = f \o t
  OBVIOUS
<1>2. PICK n : n = Len(f)
  OBVIOUS
<1>3. /\ \A j \in DOMAIN g0 :
           \/ j \in DOMAIN f /\ g0[j] = f[j] /\ j \in 1..n
           \/ j - n \in DOMAIN t /\ g0[j] = t[j - n] /\ j > n /\ j \in Int
      /\ DOMAIN f \subseteq Nat /\ DOMAIN t \subseteq Nat /\ n \in Nat
  BY <1>1, <1>2, ConcatIndex
<1>4. ASSUME Numeric(f), Numeric(t) PROVE Numeric(g0)
  BY <1>3, <1>4 DEF Numeric
<1>5. ASSUME NEW lo, NEW hi, NumsIn(f, s, lo, hi), NumsIn(t, s, lo, hi)
      PROVE  NumsIn(g0, s, lo, hi)
  BY <1>3, <1>5 DEF NumsIn
<1>6. ASSUME NEW g, Before(f, g, s), Before(t, g, s) PROVE Before(g0, g, s)
  BY <1>3, <1>6 DEF Before
<1>7. ASSUME NEW g, Before(g, f, s), Before(g, t, s) PROVE Before(g, g0, s)
  BY <1>3, <1>7 DEF Before
<1>8. ASSUME Sorted(f, s), Sorted(t, s), Before(f, t, s) PROVE Sorted(g0, s)
  <2> SUFFICES ASSUME NEW i \in DOMAIN g0, NEW j \in DOMAIN g0, i < j,
                      g0[i].k = "ECHO", IsNumber(g0[j])
               PROVE  Val(s, g0[i].n) <= Val(s, g0[j].n)
    BY DEF Sorted
  <2>1. CASE j \in DOMAIN f /\ g0[j] = f[j] /\ j \in 1..n
    <3>1. i \in DOMAIN f /\ g0[i] = f[i]
      BY <1>3, <2>1
    <3> QED  BY <1>8, <2>1, <3>1 DEF Sorted
  <2>2. CASE j - n \in DOMAIN t /\ g0[j] = t[j - n] /\ j > n /\ j \in Int
    <3>1. CASE i \in DOMAIN f /\ g0[i] = f[i]
      BY <1>8, <2>2, <3>1 DEF Before
    <3>2. CASE i - n \in DOMAIN t /\ g0[i] = t[i - n] /\ i > n /\ i \in Int
      <4>1. i - n < j - n
        BY <1>3, <2>2, <3>2
      <4> QED  BY <1>8, <2>2, <3>2, <4>1 DEF Sorted
    <3> QED  BY <1>3, <3>1, <3>2
  <2> QED  BY <1>3, <2>1, <2>2
<1>9. ASSUME NEW hi, EchoIn(f, s, hi), EchoIn(t, s, hi) PROVE EchoIn(g0, s, hi)
  BY <1>3, <1>9 DEF EchoIn
<1> QED  BY <1>1, <1>4, <1>5, <1>6, <1>7, <1>8, <1>9

\* One item.
LEMMA OneReply ==
  ASSUME NEW x, NEW s
  PROVE  /\ Numeric(<<x>>) <=> (IsNumber(x) => x.n \in 0..7)
         /\ \A lo, hi : NumsIn(<<x>>, s, lo, hi)
                          <=> (IsNumber(x) => lo <= Val(s, x.n) /\ Val(s, x.n) <= hi)
         /\ Sorted(<<x>>, s)
         /\ \A hi : EchoIn(<<x>>, s, hi) <=> (x.k = "ECHO" => Val(s, x.n) <= hi)
<1>1. PICK f : f = <<x>>
  OBVIOUS
<1>2. DOMAIN f = {1} /\ f[1] = x
  BY <1>1
<1> QED  BY <1>1, <1>2 DEF Numeric, NumsIn, Sorted, EchoIn

\* A message more does not change what the replies say.
LEMMA MoreReplies ==
  ASSUME NEW s \in Nat, NEW f, Numeric(f), NEW lo \in Int, NEW hi \in Int, NumsIn(f, s, lo, hi),
         s - 6 <= lo
  PROVE  \A j \in DOMAIN f : IsNumber(f[j]) => Val(s + 1, f[j].n) = Val(s, f[j].n)
<1> SUFFICES ASSUME NEW j \in DOMAIN f, IsNumber(f[j]) PROVE Val(s + 1, f[j].n) = Val(s, f[j].n)
  OBVIOUS
<1>1. PICK n \in 0..7 : n = f[j].n
  BY DEF Numeric
<1>2. lo <= Val(s, n) /\ Val(s, n) \in Int
  BY <1>1, ValRange DEF NumsIn
<1>3. s - 6 <= Val(s, n)
  BY <1>2
<1> QED  BY <1>1, <1>3, ValKeeps

\* Numbers that are taken off the line.
LEMMA NumbersTail ==
  ASSUME NEW f \in Forth, f # <<>>, NEW s, NEW a, NumbersOK(f, s, a)
  PROVE  /\ NumbersOK(Tail(f), s, a)
         /\ f[1].k = "SEQ" => NumbersOK(Tail(f), s, Val(s, f[1].n))
<1>1. PICK g : g = Tail(f)
  OBVIOUS
<1>2. /\ 1 \in DOMAIN f
      /\ \A j \in DOMAIN g : j + 1 \in DOMAIN f /\ g[j] = f[j + 1] /\ j \in Nat \ {0}
  BY <1>1, TailIndex DEF Forth
<1>3. NumbersOK(g, s, a)
  BY <1>2 DEF NumbersOK
<1>4. ASSUME f[1].k = "SEQ" PROVE NumbersOK(g, s, Val(s, f[1].n))
  BY <1>2, <1>4 DEF NumbersOK
<1> QED  BY <1>1, <1>3, <1>4

\* Numbers that come after those of the line.
LEMMA NumbersConcat ==
  ASSUME NEW f \in Forth, NEW t \in Forth, NEW s \in Nat, NEW a \in Int, a <= s,
         NumberedItems(f), NumberedItems(t), Fresh(t, s), NumbersOK(f, s, a)
  PROVE  NumbersOK(f \o t, s, a)
<1>1. PICK g, n : g = f \o t /\ n = Len(f)
  OBVIOUS
<1>2. /\ \A j \in DOMAIN g :
           \/ j \in DOMAIN f /\ g[j] = f[j] /\ j \in 1..n
           \/ j - n \in DOMAIN t /\ g[j] = t[j - n] /\ j > n /\ j \in Int
      /\ DOMAIN f \subseteq Nat /\ DOMAIN t \subseteq Nat /\ n \in Nat
  BY <1>1, ConcatIndex DEF Forth
<1>x. XW \in 1..3
  BY UrpAssumption
<1>3. \A j \in DOMAIN g : g[j].k = "SEQ" => Val(s, g[j].n) \in Int /\ Val(s, g[j].n) <= s
  <2> SUFFICES ASSUME NEW j \in DOMAIN g, g[j].k = "SEQ"
               PROVE  Val(s, g[j].n) \in Int /\ Val(s, g[j].n) <= s
    OBVIOUS
  <2>1. PICK m \in 0..7 : m = g[j].n
    BY <1>2 DEF NumberedItems
  <2> QED  BY <2>1, ValRange
<1>4. \A j \in DOMAIN t : t[j].k = "SEQ" => s < Val(s, t[j].n) + XW
  BY DEF Fresh
<1>5. \A j \in DOMAIN g : g[j].k = "SEQ" => a < Val(s, g[j].n) + XW
  <2> SUFFICES ASSUME NEW j \in DOMAIN g, g[j].k = "SEQ" PROVE a < Val(s, g[j].n) + XW
    OBVIOUS
  <2>1. CASE j \in DOMAIN f /\ g[j] = f[j]
    BY <2>1 DEF NumbersOK
  <2>2. CASE j - n \in DOMAIN t /\ g[j] = t[j - n]
    <3>1. s < Val(s, g[j].n) + XW /\ Val(s, g[j].n) \in Int
      BY <1>3, <1>4, <2>2
    <3> QED  BY <1>x, <3>1
  <2> QED  BY <1>2, <2>1, <2>2
<1>6. \A i, j \in DOMAIN g :
         i < j /\ g[i].k = "SEQ" /\ g[j].k = "SEQ" => Val(s, g[i].n) < Val(s, g[j].n) + XW
  <2> SUFFICES ASSUME NEW i \in DOMAIN g, NEW j \in DOMAIN g, i < j, g[i].k = "SEQ", g[j].k = "SEQ"
               PROVE  Val(s, g[i].n) < Val(s, g[j].n) + XW
    OBVIOUS
  <2>1. CASE j \in DOMAIN f /\ g[j] = f[j] /\ j \in 1..n
    <3>1. i \in DOMAIN f /\ g[i] = f[i]
      BY <1>2, <2>1
    <3> QED  BY <2>1, <3>1 DEF NumbersOK
  <2>2. CASE j - n \in DOMAIN t /\ g[j] = t[j - n]
    <3>1. s < Val(s, g[j].n) + XW
      BY <1>4, <2>2
    <3>2. Val(s, g[i].n) \in Int /\ Val(s, g[i].n) <= s /\ Val(s, g[j].n) \in Int
      BY <1>3
    <3> QED  BY <1>x, <3>1, <3>2
  <2> QED  BY <1>2, <2>1, <2>2
<1> QED  BY <1>1, <1>5, <1>6 DEF NumbersOK

\* A message more does not change what the numbers on the line mean.
LEMMA MoreNumbers ==
  ASSUME NEW f, NumberedItems(f), NEW s \in Nat, NEW a \in Int, s - 7 + XW <= a,
         NumbersOK(f, s, a)
  PROVE  NumbersOK(f, s + 1, a)
<1>x. XW \in 1..3
  BY UrpAssumption
<1>1. \A j \in DOMAIN f : f[j].k = "SEQ" => Val(s + 1, f[j].n) = Val(s, f[j].n)
  <2> SUFFICES ASSUME NEW j \in DOMAIN f, f[j].k = "SEQ" PROVE Val(s + 1, f[j].n) = Val(s, f[j].n)
    OBVIOUS
  <2>1. PICK n \in 0..7 : n = f[j].n
    BY DEF NumberedItems
  <2>2. a < Val(s, n) + XW /\ Val(s, n) \in Int
    BY <2>1, ValRange DEF NumbersOK
  <2>3. s - 6 <= Val(s, n)
    BY <1>x, <2>2
  <2> QED  BY <2>1, <2>3, ValKeeps
<1> QED  BY <1>1 DEF NumbersOK

\* The opening of a circuit, when an item is taken off.
LEMMA OpensTail ==
  ASSUME NEW f \in Forth, f # <<>>, NEW q, NEW op, NEW s, OpensOK(f, q, op, s)
  PROVE  OpensOK(Tail(f), q, op, s)
<1>1. PICK g : g = Tail(f)
  OBVIOUS
<1>2. \A j \in DOMAIN g : j + 1 \in DOMAIN f /\ g[j] = f[j + 1] /\ j \in Nat \ {0}
  BY <1>1, TailIndex DEF Forth
<1> QED  BY <1>1, <1>2 DEF OpensOK

\* And when others come after.
LEMMA OpensConcat ==
  ASSUME NEW f \in Forth, NEW t \in Forth, NEW q, NEW op, NEW s \in Int, OpensOK(f, q, op, s),
         Fresh(t, s)
  PROVE  OpensOK(f \o t, q, op, s)
<1>1. PICK g, n : g = f \o t /\ n = Len(f)
  OBVIOUS
<1>2. /\ \A j \in DOMAIN g :
           \/ j \in DOMAIN f /\ g[j] = f[j] /\ j \in 1..n
           \/ j - n \in DOMAIN t /\ g[j] = t[j - n] /\ j > n /\ j \in Int
      /\ DOMAIN f \subseteq Nat /\ DOMAIN t \subseteq Nat /\ n \in Nat
  BY <1>1, ConcatIndex DEF Forth
<1>3. \A j \in DOMAIN t : t[j].k # "INIT1" /\ (op => t[j].k # "SEQ")
  BY DEF Fresh, OpensOK
<1>4. \A j \in DOMAIN g : op => g[j].k # "SEQ"
  BY <1>2, <1>3 DEF OpensOK
<1>5. \A j \in DOMAIN g : g[j].k = "INIT1" => q = 0
  BY <1>2, <1>3 DEF OpensOK
<1>6. \A i, j \in DOMAIN g : i < j /\ g[j].k = "INIT1" => g[i].k # "SEQ"
  <2> SUFFICES ASSUME NEW i \in DOMAIN g, NEW j \in DOMAIN g, i < j, g[j].k = "INIT1"
               PROVE  g[i].k # "SEQ"
    OBVIOUS
  <2>1. j \in DOMAIN f /\ g[j] = f[j] /\ j \in 1..n
    BY <1>2, <1>3
  <2>2. i \in DOMAIN f /\ g[i] = f[i]
    BY <1>2, <2>1
  <2> QED  BY <2>1, <2>2 DEF OpensOK
<1> QED  BY <1>1, <1>4, <1>5, <1>6 DEF OpensOK

\* dkptimer sends INIT1 while the circuit is being opened, or ENQ.
LEMMA OpensTimer ==
  ASSUME NEW f \in Forth, NEW x \in ToReceiver, NEW q, NEW op, NEW s \in Int,
         OpensOK(f, q, op, s), (x.k = "INIT1" /\ op) \/ x.k = "ENQ"
  PROVE  OpensOK(Append(f, x), q, op, s)
<1>1. PICK g, n : g = Append(f, x) /\ n = Len(f)
  OBVIOUS
<1>2. /\ \A j \in DOMAIN g :
           \/ j \in DOMAIN f /\ g[j] = f[j] /\ j \in 1..n
           \/ j = n + 1 /\ g[j] = x
      /\ DOMAIN f \subseteq Nat /\ n \in Nat
  <2>1. f \in Seq(ToReceiver)
    BY DEF Forth
  <2>2. DOMAIN f = 1..n /\ n \in Nat /\ DOMAIN g = 1..(n + 1)
    BY <1>1, <2>1
  <2>3. g[n + 1] = x /\ \A j \in 1..n : g[j] = f[j]
    BY <1>1, <2>1
  <2> QED  BY <2>2, <2>3
<1>3. \A j \in DOMAIN g : op => g[j].k # "SEQ"
  BY <1>2 DEF OpensOK
<1>4. \A j \in DOMAIN g : g[j].k = "INIT1" => q = 0
  BY <1>2 DEF OpensOK
<1>5. \A i, j \in DOMAIN g : i < j /\ g[j].k = "INIT1" => g[i].k # "SEQ"
  <2> SUFFICES ASSUME NEW i \in DOMAIN g, NEW j \in DOMAIN g, i < j, g[j].k = "INIT1"
               PROVE  g[i].k # "SEQ"
    OBVIOUS
  <2>1. CASE j \in DOMAIN f /\ g[j] = f[j] /\ j \in 1..n
    <3>1. i \in DOMAIN f /\ g[i] = f[i]
      BY <1>2, <2>1
    <3> QED  BY <2>1, <3>1 DEF OpensOK
  <2>2. CASE j = n + 1 /\ g[j] = x
    BY <1>3, <2>2
  <2> QED  BY <1>2, <2>1, <2>2
<1> QED  BY <1>1, <1>3, <1>4, <1>5 DEF OpensOK

\* An accepted message comes before every INIT1.
LEMMA OpensAccept ==
  ASSUME NEW f \in Forth, f # <<>>, f[1].k = "SEQ", NEW q, NEW op, NEW s, NEW r,
         OpensOK(f, q, op, s)
  PROVE  OpensOK(Tail(f), r, op, s)
<1>1. PICK g : g = Tail(f)
  OBVIOUS
<1>2. /\ 1 \in DOMAIN f
      /\ \A j \in DOMAIN g : j + 1 \in DOMAIN f /\ g[j] = f[j + 1] /\ j \in Nat \ {0}
  BY <1>1, TailIndex DEF Forth
<1>3. ~op
  BY <1>2 DEF OpensOK
<1>4. \A j \in DOMAIN g : g[j].k # "INIT1"
  BY <1>2 DEF OpensOK
<1> QED  BY <1>1, <1>3, <1>4 DEF OpensOK

\* What is in the window is sent with its number.
LEMMA FreshXmit ==
  ASSUME NEW s \in Nat, NEW m \in Nat, m = None \/ (1 <= m /\ m <= s /\ s < m + XW)
  PROVE  Fresh(Xmit(m), s) /\ NumberedItems(Xmit(m))
<1>1. CASE m = None
  <2>1. Xmit(m) = <<>>
    BY <1>1 DEF Xmit
  <2> QED  BY <2>1 DEF Fresh, NumberedItems
<1>2. CASE m # None
  <2>1. PICK t : t = Xmit(m)
    OBVIOUS
  <2>2. PICK l \in {2, 3} :
          /\ DOMAIN t = 1..l /\ t[l].k = "SEQ" /\ t[l].n = m % 8
          /\ \A j \in 1..l : j # l => t[j].k \in {"DATA", "BOT"}
    <3>1. PICK x, y, z : x = Item("DATA", m) /\ y = Item("BOT", Size[m]) /\ z = Item("SEQ", m % 8)
      OBVIOUS
    <3>2. t = <<y, z>> \/ t = <<x, y, z>>
      BY <1>2, <2>1, <3>1 DEF Xmit
    <3>3. CASE t = <<y, z>>
      BY <3>1, <3>3 DEF Item
    <3>4. CASE t = <<x, y, z>>
      BY <3>1, <3>4 DEF Item
    <3> QED  BY <3>2, <3>3, <3>4
  <2>3. m % 8 \in 0..7 /\ Val(s, m % 8) = m
    <3>1. s - 7 <= m /\ m <= s
      BY <1>2, UrpAssumption
    <3> QED  BY <3>1, ValIs
  <2>4. \A j \in 1..l : t[j].k = "SEQ" => j = l
    BY <2>2
  <2>5. s >= 1 /\ s < m + XW
    BY <1>2
  <2>6. Fresh(t, s)
    BY <2>2, <2>3, <2>4, <2>5 DEF Fresh
  <2>7. NumberedItems(t)
    BY <2>2, <2>3, <2>4 DEF NumberedItems
  <2> QED  BY <2>1, <2>6, <2>7
<1> QED  BY <1>1, <1>2

\* Two lists of them, one behind the other.
LEMMA FreshConcat ==
  ASSUME NEW f \in Forth, NEW t \in Forth, NEW s, Fresh(f, s), Fresh(t, s)
  PROVE  Fresh(f \o t, s)
<1>1. PICK g, n : g = f \o t /\ n = Len(f)
  OBVIOUS
<1>2. \A j \in DOMAIN g :
           \/ j \in DOMAIN f /\ g[j] = f[j] /\ j \in 1..n
           \/ j - n \in DOMAIN t /\ g[j] = t[j - n] /\ j > n /\ j \in Int
  BY <1>1, ConcatIndex DEF Forth
<1>3. Fresh(g, s)
  BY <1>2 DEF Fresh
<1> QED  BY <1>1, <1>3

\* So is everything that is sent again.
LEMMA FreshResend ==
  ASSUME NEW w \in 0..10, NEW b \in [0..7 -> 0..Highest], NEW s \in Nat,
         \A i \in 0..7 : b[i] = None \/ (1 <= b[i] /\ b[i] <= s /\ s < b[i] + XW)
  PROVE  Fresh(Resend(w, b), s)
<1> DEFINE A(i) == IF i < WNX THEN Xmit(b[i % 8]) ELSE <<>>
<1>1. ASSUME NEW i \in 0..12 PROVE A(i) \in Forth /\ Fresh(A(i), s)
  <2>1. i % 8 \in 0..7
    BY ModEight
  <2>2. PICK m \in 0..Highest : m = b[i % 8]
    BY <2>1
  <2>3. Xmit(m) \in Forth /\ Fresh(Xmit(m), s)
    BY <2>1, <2>2, XmitType, FreshXmit
  <2>4. <<>> \in Forth /\ Fresh(<<>>, s)
    BY DEF Forth, Fresh
  <2> QED  BY <2>2, <2>3, <2>4
<1>2. /\ A(w) \in Forth /\ A(w + 1) \in Forth /\ A(w + 2) \in Forth
      /\ Fresh(A(w), s) /\ Fresh(A(w + 1), s) /\ Fresh(A(w + 2), s)
  <2>1. w \in 0..12 /\ w + 1 \in 0..12 /\ w + 2 \in 0..12
    OBVIOUS
  <2> HIDE DEF A
  <2> QED  BY <1>1, <2>1
<1>3. Resend(w, b) = A(w) \o A(w + 1) \o A(w + 2)
  BY DEF Resend
<1> HIDE DEF A
<1>4. A(w) \o A(w + 1) \in Forth /\ Fresh(A(w) \o A(w + 1), s)
  <2>1. A(w) \o A(w + 1) \in Forth
    BY <1>2 DEF Forth
  <2> QED  BY <1>2, <2>1, FreshConcat
<1> QED  BY <1>2, <1>3, <1>4, FreshConcat

\* The items on the line have numbers modulo 8.
LEMMA ForthNumbered ==
  ASSUME NEW f \in Forth
  PROVE  NumberedItems(f)
<1>1. \A x \in ToReceiver : x.k = "SEQ" => x.n \in 0..7
  BY DEF ToReceiver, Item
<1>2. \A j \in DOMAIN f : f[j] \in ToReceiver
  BY DEF Forth
<1> QED  BY <1>1, <1>2 DEF NumberedItems

\* So have the replies.
LEMMA RepliesNumeric ==
  /\ \A f \in Seq(Reply) : Numeric(f)
  /\ \A f \in InQueue : Numeric(f)
  /\ \A x \in Control : Numeric(<<x>>)
<1>1. /\ \A x \in Reply : IsNumber(x) => x.n \in 0..7
      /\ \A x \in InItem : IsNumber(x) => x.n \in 0..7
      /\ \A x \in Control : IsNumber(x) => x.n \in 0..7
  BY DEF Reply, Control, InItem, Item, IsNumber
<1>2. ASSUME NEW f \in Seq(Reply) PROVE Numeric(f)
  <2>1. \A j \in DOMAIN f : f[j] \in Reply
    OBVIOUS
  <2> QED  BY <1>1, <2>1 DEF Numeric
<1>3. ASSUME NEW f \in InQueue PROVE Numeric(f)
  <2>1. \A j \in DOMAIN f : f[j] \in InItem
    BY DEF InQueue
  <2> QED  BY <1>1, <2>1 DEF Numeric
<1>4. ASSUME NEW x \in Control PROVE Numeric(<<x>>)
  BY <1>1, OneReply
<1> QED  BY <1>2, <1>3, <1>4

-----------------------------------------------------------------------------
(* The read queue                                                          *)

\* What dkpisrv takes off.
LEMMA HeardTail ==
  ASSUME NEW q \in InQueue, q # <<>>, NEW s \in Nat, NEW pa \in Int, Heard(q, s, pa)
  PROVE  /\ Head(q).k = "DATA" => Heard(Tail(q), s, pa + 1)
         /\ Head(q).k # "DATA" => Heard(Tail(q), s, pa)
         /\ Head(q).k = "ECHO" => Val(s, Head(q).n) <= pa
<1>1. PICK g, d : g = Tail(q) /\ d = IF Head(q).k = "DATA" THEN 1 ELSE 0
  OBVIOUS
<1>2. /\ 1 \in DOMAIN q /\ Head(q) = q[1] /\ g \in InQueue /\ Len(g) \in Nat
      /\ \A j \in DOMAIN g : j + 1 \in DOMAIN q /\ g[j] = q[j + 1] /\ j \in Nat \ {0} /\ j \in 0..Len(g)
  BY <1>1 DEF InQueue
<1>3. \A j \in 0..Len(g) : UpTo(q, j + 1) = UpTo(g, j) + d
  BY <1>1, UpToTail DEF InQueue
<1>4. \A j \in Nat : UpTo(g, j) \in Nat
  BY UpToType
<1>5. Heard(g, s, pa + d)
  <2> SUFFICES ASSUME NEW j \in DOMAIN g, g[j].k = "ECHO"
               PROVE  Val(s, g[j].n) <= pa + d + UpTo(g, j)
    BY DEF Heard
  <2>1. Val(s, g[j].n) <= pa + UpTo(q, j + 1)
    BY <1>2 DEF Heard
  <2>2. UpTo(q, j + 1) = UpTo(g, j) + d /\ UpTo(g, j) \in Nat /\ d \in Nat
    BY <1>1, <1>2, <1>3, <1>4
  <2>3. pa + UpTo(q, j + 1) = pa + d + UpTo(g, j)
    BY <2>2
  <2> QED  BY <2>1, <2>3
<1>6. Head(q).k = "ECHO" => Val(s, Head(q).n) <= pa
  <2> SUFFICES ASSUME Head(q).k = "ECHO" PROVE Val(s, Head(q).n) <= pa
    OBVIOUS
  <2>1. UpTo(q, 0 + 1) = UpTo(g, 0) + d /\ d = 0 /\ UpTo(g, 0) = 0
    BY <1>1, <1>2, <1>3, UpToType
  <2>2. UpTo(q, 1) = 0
    BY <2>1
  <2>3. Val(s, q[1].n) <= pa + UpTo(q, 1)
    BY <1>2 DEF Heard
  <2> QED  BY <1>2, <2>2, <2>3
<1> QED  BY <1>1, <1>5, <1>6

\* What is put behind.
LEMMA HeardConcat ==
  ASSUME NEW q \in InQueue, NEW t \in InQueue, NEW s, NEW pa \in Int, Heard(q, s, pa),
         Heard(t, s, pa + UpTo(q, Len(q)))
  PROVE  Heard(q \o t, s, pa)
<1>1. PICK g, n : g = q \o t /\ n = Len(q)
  OBVIOUS
<1>2. /\ \A j \in DOMAIN g :
           \/ j \in DOMAIN q /\ g[j] = q[j] /\ j \in 1..n
           \/ j - n \in DOMAIN t /\ g[j] = t[j - n] /\ j > n /\ j \in Int
      /\ n \in Nat
  BY <1>1, ConcatIndex DEF InQueue
<1>3. /\ \A j \in 1..n : UpTo(g, j) = UpTo(q, j)
      /\ \A j \in 0..Len(t) : UpTo(g, n + j) = UpTo(q, n) + UpTo(t, j)
  BY <1>1, UpToConcat DEF InQueue
<1>4. \A j \in DOMAIN t : j \in 0..Len(t) /\ j \in Nat
  BY DEF InQueue
<1> SUFFICES ASSUME NEW j \in DOMAIN g, g[j].k = "ECHO"
             PROVE  Val(s, g[j].n) <= pa + UpTo(g, j)
  BY <1>1 DEF Heard
<1>5. CASE j \in DOMAIN q /\ g[j] = q[j] /\ j \in 1..n
  BY <1>3, <1>5 DEF Heard
<1>6. CASE j - n \in DOMAIN t /\ g[j] = t[j - n] /\ j > n /\ j \in Int
  <2>1. PICK i : i = j - n
    OBVIOUS
  <2>2. i \in DOMAIN t /\ g[j] = t[i] /\ i \in 0..Len(t) /\ i \in Nat /\ j = n + i
    BY <1>2, <1>4, <1>6, <2>1
  <2>3. Val(s, t[i].n) <= pa + UpTo(q, n) + UpTo(t, i)
    BY <1>1, <2>2 DEF Heard
  <2>4. UpTo(g, j) = UpTo(q, n) + UpTo(t, i) /\ UpTo(q, n) \in Nat /\ UpTo(t, i) \in Nat
    BY <1>2, <1>3, <2>2, UpToType
  <2>5. pa + UpTo(g, j) = pa + UpTo(q, n) + UpTo(t, i)
    BY <2>4
  <2> QED  BY <2>2, <2>3, <2>5
<1> QED  BY <1>2, <1>5, <1>6

\* An accepted message: its blocks and its echo.
LEMMA HeardAccept ==
  ASSUME NEW d \in InQueue, \A j \in DOMAIN d : d[j].k = "DATA", NEW x \in InItem, x.k = "ECHO",
         NEW s \in Nat, NEW b \in Int, Val(s, x.n) <= b + Len(d)
  PROVE  /\ Heard(d \o <<x>>, s, b) /\ UpTo(d \o <<x>>, Len(d) + 1) = Len(d)
<1>1. PICK g : g = d \o <<x>>
  OBVIOUS
<1>2. Len(d) \in Nat /\ DOMAIN d = 1..Len(d) /\ <<x>> \in InQueue /\ Len(<<x>>) = 1
  BY DEF InQueue
<1>3. \A j \in DOMAIN g : (j \in DOMAIN d /\ g[j] = d[j]) \/ (j = Len(d) + 1 /\ g[j] = x)
  BY <1>1, <1>2 DEF InQueue
<1>4. UpTo(d, Len(d)) = Len(d)
  <2>1. Data(d, Len(d)) = 1..Len(d)
    BY <1>2 DEF Data
  <2>2. Cardinality(1..Len(d)) = Len(d)
    <3>1. PICK n \in Nat : n = Len(d)
      BY <1>2
    <3>2. Cardinality(1..n) = IF 1 > n THEN 0 ELSE n - 1 + 1
      BY FS_Interval
    <3> QED  BY <3>1, <3>2, SMTT(60)
  <2> QED  BY <2>1, <2>2 DEF UpTo
<1>5. UpTo(g, Len(d) + 1) = Len(d)
  <2>1. UpTo(g, Len(d) + 1) = UpTo(d, Len(d)) + UpTo(<<x>>, 1)
    <3>1. PICK t : t = <<x>>
      OBVIOUS
    <3>2. d \in Seq(InItem) /\ t \in Seq(InItem) /\ Len(t) = 1 /\ g = d \o t
      BY <1>1, <1>2, <3>1 DEF InQueue
    <3>3. \A j \in 0..Len(t) : UpTo(d \o t, Len(d) + j) = UpTo(d, Len(d)) + UpTo(t, j)
      <4>1. d \in Seq(InItem) /\ t \in Seq(InItem)
        BY <3>2
      <4> QED  BY <4>1, UpToConcat, SMTT(30)
    <3>4. UpTo(g, Len(d) + 1) = UpTo(d, Len(d)) + UpTo(t, 1)
      BY <3>2, <3>3
    <3> QED  BY <3>1, <3>4
  <2>2. UpTo(<<x>>, 1) = 0
    BY UpToOne
  <2> QED  BY <1>2, <1>4, <2>1, <2>2
<1>6. Heard(g, s, b)
  <2> SUFFICES ASSUME NEW j \in DOMAIN g, g[j].k = "ECHO"
               PROVE  Val(s, g[j].n) <= b + UpTo(g, j)
    BY DEF Heard
  <2>1. j = Len(d) + 1 /\ g[j] = x
    BY <1>3
  <2> QED  BY <1>5, <2>1
<1> QED  BY <1>1, <1>5, <1>6

-----------------------------------------------------------------------------
(* The replies, from the read queue by lastecho to the line behind         *)

\* They are numbers of messages from lo to hi, echoes come in turn, and none
\* comes before the reader has the data.
RepliesOK(b, e, q, s, lo, hi, pa) ==
  /\ NumsIn(b, s, lo, hi) /\ NumsIn(<<e>>, s, lo, hi) /\ NumsIn(q, s, lo, hi)
  /\ Sorted(b, s) /\ Sorted(q, s)
  /\ Before(b, <<e>>, s) /\ Before(<<e>>, q, s) /\ Before(b, q, s)
  /\ EchoIn(b, s, pa) /\ EchoIn(<<e>>, s, pa) /\ Heard(q, s, pa)

\* A reply is taken off the line.
LEMMA RepliesTail ==
  ASSUME NEW b \in Seq(Reply), b # <<>>, NEW e, NEW q, NEW s, NEW lo, NEW hi, NEW pa,
         RepliesOK(b, e, q, s, lo, hi, pa)
  PROVE  RepliesOK(Tail(b), e, q, s, lo, hi, pa)
<1>1. NumsIn(Tail(b), s, lo, hi) /\ Sorted(Tail(b), s) /\ EchoIn(Tail(b), s, pa)
  BY TailReplies DEF RepliesOK
<1>2. Before(Tail(b), <<e>>, s) /\ Before(Tail(b), q, s)
  BY TailReplies DEF RepliesOK
<1> QED  BY <1>1, <1>2 DEF RepliesOK

\* An acknowledgement is taken off the line: it is true, and no reply behind an
\* echo says less.
LEMMA RepliesRack ==
  ASSUME NEW b \in Seq(Reply), b # <<>>, NEW e \in Control, NEW q, NEW s, NEW lo, NEW hi, NEW pa,
         RepliesOK(b, e, q, s, lo, hi, pa), NEW c, NEW n, c = Head(b).k, n = Head(b).n,
         c \in {"ECHO", "ACK"}
  PROVE  /\ lo <= Val(s, n) /\ Val(s, n) <= hi
         /\ c = "ECHO" => Val(s, n) <= pa /\ RepliesOK(Tail(b), e, q, s, Val(s, n), hi, pa)
<1>1. 1 \in DOMAIN b /\ Head(b) = b[1]
  BY TailIndex
<1>2. lo <= Val(s, n) /\ Val(s, n) <= hi /\ (c = "ECHO" => Val(s, n) <= pa)
  BY <1>1 DEF RepliesOK, NumsIn, EchoIn, IsNumber
<1>3. ASSUME c = "ECHO"
      PROVE  RepliesOK(Tail(b), e, q, s, Val(s, n), hi, pa)
  <2>1. PICK h, g : h = <<Head(b)>> /\ g = Tail(b)
    OBVIOUS
  <2>2. Before(h, g, s) /\ Before(h, <<e>>, s) /\ Before(h, q, s)
    BY <2>1, TailReplies DEF RepliesOK
  <2>3. RepliesOK(g, e, q, s, lo, hi, pa)
    BY <2>1, RepliesTail
  <2>4. DOMAIN h = {1} /\ h[1].k = "ECHO" /\ h[1].n = n
    BY <1>3, <2>1
  <2>5. ASSUME NEW f, Before(h, f, s), NumsIn(f, s, lo, hi) PROVE NumsIn(f, s, Val(s, n), hi)
    BY <2>4, <2>5 DEF Before, NumsIn
  <2>6. NumsIn(g, s, Val(s, n), hi) /\ NumsIn(<<e>>, s, Val(s, n), hi) /\ NumsIn(q, s, Val(s, n), hi)
    BY <2>2, <2>3, <2>5 DEF RepliesOK
  <2> QED  BY <2>1, <2>3, <2>6 DEF RepliesOK
<1> QED  BY <1>2, <1>3

\* A message more is sent.
LEMMA RepliesMore ==
  ASSUME NEW b \in Seq(Reply), NEW e \in Control, NEW q \in InQueue, NEW s \in Nat,
         NEW lo \in Int, NEW hi \in Int, NEW pa \in Int,
         RepliesOK(b, e, q, s, lo, hi, pa), s - 6 <= lo
  PROVE  RepliesOK(b, e, q, s + 1, lo, hi, pa)
<1>1. PICK f : f = <<e>>
  OBVIOUS
<1>2. Numeric(b) /\ Numeric(f) /\ Numeric(q)
  BY <1>1, RepliesNumeric
<1>3. NumsIn(b, s, lo, hi) /\ NumsIn(f, s, lo, hi) /\ NumsIn(q, s, lo, hi)
  BY <1>1 DEF RepliesOK
<1>4. /\ \A j \in DOMAIN b : IsNumber(b[j]) => Val(s + 1, b[j].n) = Val(s, b[j].n)
      /\ \A j \in DOMAIN f : IsNumber(f[j]) => Val(s + 1, f[j].n) = Val(s, f[j].n)
      /\ \A j \in DOMAIN q : IsNumber(q[j]) => Val(s + 1, q[j].n) = Val(s, q[j].n)
  BY <1>2, <1>3, MoreReplies
<1>5. \A x : x.k = "ECHO" => IsNumber(x)
  BY DEF IsNumber
<1>6. NumsIn(b, s + 1, lo, hi) /\ NumsIn(f, s + 1, lo, hi) /\ NumsIn(q, s + 1, lo, hi)
  BY <1>3, <1>4 DEF NumsIn
<1>7. Sorted(b, s + 1) /\ Sorted(q, s + 1)
  BY <1>4, <1>5 DEF RepliesOK, Sorted
<1>8. Before(b, f, s + 1) /\ Before(f, q, s + 1) /\ Before(b, q, s + 1)
  BY <1>1, <1>4, <1>5 DEF RepliesOK, Before
<1>9. EchoIn(b, s + 1, pa) /\ EchoIn(f, s + 1, pa) /\ Heard(q, s + 1, pa)
  BY <1>1, <1>4, <1>5 DEF RepliesOK, EchoIn, Heard
<1> QED  BY <1>1, <1>6, <1>7, <1>8, <1>9 DEF RepliesOK

\* A reply that is no number goes behind the others.
LEMMA RepliesOther ==
  ASSUME NEW b \in Seq(Reply), NEW x \in Reply, ~IsNumber(x), NEW e, NEW q, NEW s,
         NEW lo, NEW hi, NEW pa, RepliesOK(b, e, q, s, lo, hi, pa)
  PROVE  RepliesOK(Append(b, x), e, q, s, lo, hi, pa)
<1>1. PICK g : g = Append(b, x)
  OBVIOUS
<1>2. \A j \in DOMAIN g : (j \in DOMAIN b /\ g[j] = b[j]) \/ (~IsNumber(g[j]) /\ g[j].k # "ECHO")
  BY <1>1 DEF IsNumber
<1>3. NumsIn(g, s, lo, hi) /\ EchoIn(g, s, pa)
  BY <1>2 DEF RepliesOK, NumsIn, EchoIn
<1>4. Sorted(g, s)
  BY <1>2 DEF RepliesOK, Sorted
<1>5. Before(g, <<e>>, s) /\ Before(g, q, s)
  BY <1>2 DEF RepliesOK, Before
<1> QED  BY <1>1, <1>3, <1>4, <1>5 DEF RepliesOK

\* ENQ is answered by the last echo, and by what has been accepted.
LEMMA RepliesEnq ==
  ASSUME NEW b \in Seq(Reply), NEW e \in Control, NEW q \in InQueue, NEW s \in Nat,
         NEW n \in 0..7, NEW lo \in Int, NEW pa \in Int, lo <= Val(s, n),
         RepliesOK(b, e, q, s, lo, Val(s, n), pa)
  PROVE  RepliesOK(b \o <<e, Item("ACK", n)>>, e, q, s, lo, Val(s, n), pa)
<1>1. PICK f, a, hi : f = <<e>> /\ a = <<Item("ACK", n)>> /\ hi = Val(s, n)
  OBVIOUS
<1>2. /\ f \in Seq(Reply) /\ a \in Seq(Reply) /\ f \o a \in Seq(Reply)
      /\ <<e, Item("ACK", n)>> = f \o a
  <2>1. e \in Reply /\ Item("ACK", n) \in Reply
    BY DEF Reply, Control, Item
  <2>2. f \in Seq(Reply) /\ a \in Seq(Reply)
    BY <1>1, <2>1
  <2> QED  BY <1>1, <2>2
<1>3. DOMAIN a = {1} /\ a[1].k = "ACK" /\ a[1].n = n /\ DOMAIN f = {1} /\ f[1] = e
  BY <1>1 DEF Item
<1>r. /\ NumsIn(b, s, lo, hi) /\ NumsIn(f, s, lo, hi) /\ NumsIn(q, s, lo, hi)
      /\ Sorted(b, s) /\ Sorted(q, s)
      /\ Before(b, f, s) /\ Before(f, q, s) /\ Before(b, q, s)
      /\ EchoIn(b, s, pa) /\ EchoIn(f, s, pa) /\ Heard(q, s, pa)
  BY <1>1 DEF RepliesOK
<1>i. hi \in Int /\ lo <= hi /\ hi <= hi
  <2>1. Val(s, n) \in Int
    BY ValRange
  <2> QED  BY <1>1, <2>1
<1>4. NumsIn(a, s, lo, hi) /\ EchoIn(a, s, pa) /\ Sorted(a, s) /\ Sorted(f, s)
  <2>1. NumsIn(a, s, lo, hi)
    BY <1>1, <1>3, <1>i DEF NumsIn
  <2>2. EchoIn(a, s, pa) /\ Sorted(a, s) /\ Sorted(f, s)
    BY <1>3 DEF EchoIn, Sorted
  <2> QED  BY <2>1, <2>2
<1>5. /\ Before(a, f, s) /\ Before(a, q, s)
  BY <1>3 DEF Before
<1>6. Before(b, a, s) /\ Before(f, a, s)
  <2>1. ASSUME NEW g, NumsIn(g, s, lo, hi) PROVE Before(g, a, s)
    BY <1>1, <1>3, <2>1 DEF Before, NumsIn, IsNumber
  <2> QED  BY <1>r, <2>1
<1>7. Before(f, f, s)
  <2>1. IsNumber(e) => e.n \in 0..7
    BY RepliesNumeric, OneReply
  <2>2. IsNumber(e) => Val(s, e.n) \in Int
    BY <2>1, ValRange
  <2> QED  BY <1>3, <2>2 DEF Before
<1>8. PICK t : t = f \o a
  OBVIOUS
<1>9. /\ NumsIn(t, s, lo, hi) /\ Sorted(t, s) /\ EchoIn(t, s, pa)
      /\ Before(t, f, s) /\ Before(t, q, s) /\ Before(b, t, s)
  <2>1. /\ NumsIn(t, s, lo, hi) /\ Sorted(t, s) /\ EchoIn(t, s, pa)
    BY <1>2, <1>4, <1>6, <1>8, <1>r, ConcatReplies
  <2>2. Before(t, f, s) /\ Before(t, q, s) /\ Before(b, t, s)
    BY <1>2, <1>5, <1>6, <1>7, <1>8, <1>r, ConcatReplies
  <2> QED  BY <2>1, <2>2
<1>10. PICK g : g = b \o t
  OBVIOUS
<1>11. /\ NumsIn(g, s, lo, hi) /\ Sorted(g, s) /\ EchoIn(g, s, pa)
       /\ Before(g, f, s) /\ Before(g, q, s)
  <2>0. t \in Seq(Reply)
    BY <1>2, <1>8
  <2>1. /\ NumsIn(g, s, lo, hi) /\ Sorted(g, s) /\ EchoIn(g, s, pa)
    BY <1>9, <1>10, <1>r, <2>0, ConcatReplies
  <2>2. Before(g, f, s) /\ Before(g, q, s)
    BY <1>9, <1>10, <1>r, <2>0, ConcatReplies
  <2> QED  BY <2>1, <2>2
<1>12. RepliesOK(g, e, q, s, lo, hi, pa)
  BY <1>1, <1>11, <1>r DEF RepliesOK
<1> QED  BY <1>1, <1>2, <1>8, <1>10, <1>12

\* A rejection goes behind the echoes.
LEMMA RepliesReject ==
  ASSUME NEW b, NEW e, NEW q \in InQueue, NEW x \in InItem, x.k = "REJ", NEW s,
         NEW lo, NEW hi, NEW pa \in Int, RepliesOK(b, e, q, s, lo, hi, pa)
  PROVE  /\ RepliesOK(b, e, Append(q, x), s, lo, hi, pa)
         /\ UpTo(Append(q, x), Len(Append(q, x))) = UpTo(q, Len(q))
<1>1. PICK g, n : g = Append(q, x) /\ n = Len(q)
  OBVIOUS
<1>2. /\ n \in Nat /\ Len(g) = n + 1 /\ DOMAIN q = 1..n /\ g[n + 1] = x
      /\ \A j \in 1..n : g[j] = q[j]
      /\ DOMAIN g = 1..(n + 1)
  BY <1>1 DEF InQueue
<1>3. \A j \in DOMAIN g :
         \/ j \in DOMAIN q /\ g[j] = q[j] /\ j \in 1..n
         \/ ~IsNumber(g[j]) /\ g[j].k # "ECHO"
  <2>1. ~IsNumber(g[n + 1]) /\ g[n + 1].k # "ECHO"
    BY <1>2 DEF IsNumber
  <2>2. ASSUME NEW j \in DOMAIN g, j # n + 1 PROVE j \in DOMAIN q /\ g[j] = q[j] /\ j \in 1..n
    <3>1. j \in 1..n
      BY <1>2, <2>2
    <3> QED  BY <1>2, <3>1
  <2> QED  BY <2>1, <2>2
<1>4. \A j \in 1..n : UpTo(g, j) = UpTo(q, j)
  <2> SUFFICES ASSUME NEW j \in 1..n PROVE UpTo(g, j) = UpTo(q, j)
    OBVIOUS
  <2>1. \A i \in 1..j : g[i] = q[i]
    BY <1>2
  <2>2. Data(g, j) = Data(q, j)
    BY <2>1 DEF Data
  <2> QED  BY <2>2 DEF UpTo
<1>5. UpTo(g, n + 1) = UpTo(q, n)
  <2>1. Data(g, n + 1) = Data(q, n)
    <3>1. \A i \in 1..(n + 1) : g[i].k = "DATA" <=> i \in 1..n /\ q[i].k = "DATA"
      BY <1>2
    <3>2. 1..n \subseteq 1..(n + 1)
      BY <1>2
    <3> QED  BY <3>1, <3>2 DEF Data
  <2> QED  BY <2>1 DEF UpTo
<1>6. NumsIn(g, s, lo, hi) /\ Heard(g, s, pa)
  <2>1. NumsIn(g, s, lo, hi)
    BY <1>3 DEF RepliesOK, NumsIn
  <2>2. Heard(g, s, pa)
    BY <1>3, <1>4 DEF RepliesOK, Heard
  <2> QED  BY <2>1, <2>2
<1>7. Sorted(g, s)
  BY <1>3 DEF RepliesOK, Sorted
<1>8. Before(<<e>>, g, s) /\ Before(b, g, s)
  BY <1>3 DEF RepliesOK, Before
<1>9. RepliesOK(b, e, g, s, lo, hi, pa)
  BY <1>6, <1>7, <1>8 DEF RepliesOK
<1> QED  BY <1>1, <1>2, <1>5, <1>9

\* What dkpiput puts on the read queue for an accepted message.
Joined(g, q, d, x) == g = q \o (d \o <<x>>)

\* An accepted message is put on the read queue, its echo behind it.
LEMMA RepliesAccept ==
  ASSUME NEW b \in Seq(Reply), NEW e \in Control, NEW q \in InQueue, NEW d \in InQueue,
         \A j \in DOMAIN d : d[j].k = "DATA", NEW x \in InItem, x.k = "ECHO", x.n \in 0..7,
         NEW s \in Nat, NEW lo \in Int, NEW hi \in Int, NEW pa \in Int,
         RepliesOK(b, e, q, s, lo, hi, pa),
         lo <= hi, Val(s, x.n) = hi + 1, hi + 1 <= UpTo(q, Len(q)) + pa + Len(d),
         NEW g, Joined(g, q, d, x)
  PROVE  /\ RepliesOK(b, e, g, s, lo, hi + 1, pa)
         /\ UpTo(g, Len(g)) = UpTo(q, Len(q)) + Len(d)
<1>1. PICK t : t = d \o <<x>>
  OBVIOUS
<1>2. /\ t \in InQueue /\ Len(t) = Len(d) + 1 /\ Len(d) \in Nat /\ Len(q) \in Nat
      /\ \A j \in DOMAIN t : t[j].k = "DATA" \/ (j = Len(d) + 1 /\ t[j] = x)
  BY <1>1 DEF InQueue
<1>3. PICK c : c = UpTo(q, Len(q))
  OBVIOUS
<1>4. c \in Nat
  BY <1>2, <1>3, UpToType
<1>5. Heard(t, s, pa + c) /\ UpTo(t, Len(t)) = Len(d)
  <2>1. pa + c \in Int /\ Val(s, x.n) <= pa + c + Len(d)
    BY <1>2, <1>3, <1>4, SMTT(60)
  <2> QED  BY <1>1, <1>2, <2>1, HeardAccept
<1>6. g = q \o t
  BY <1>1 DEF Joined
<1>7. Heard(g, s, pa)
  <2>1. Heard(q, s, pa)
    BY DEF RepliesOK
  <2> QED  BY <1>2, <1>3, <1>5, <1>6, <2>1, HeardConcat
<1>8. UpTo(g, Len(g)) = c + Len(d)
  <2>1. q \in Seq(InItem) /\ t \in Seq(InItem)
    BY <1>2 DEF InQueue
  <2>2. \A j \in 0..Len(t) : UpTo(q \o t, Len(q) + j) = UpTo(q, Len(q)) + UpTo(t, j)
    BY <2>1, UpToConcat, SMTT(30)
  <2>3. Len(t) \in 0..Len(t) /\ Len(g) = Len(q) + Len(t)
    <3>1. Len(g) = Len(q) + Len(t)
      BY <1>6, <2>1
    <3>2. Len(t) \in Nat
      BY <2>1
    <3> QED  BY <3>1, <3>2
  <2> QED  BY <1>3, <1>5, <1>6, <2>2, <2>3
<1>9. \A j \in DOMAIN t : IsNumber(t[j]) => Val(s, t[j].n) = hi + 1
  BY <1>2 DEF IsNumber
<1>10. ASSUME NEW f, NumsIn(f, s, lo, hi), Numeric(f) PROVE NumsIn(f, s, lo, hi + 1) /\ Before(f, t, s)
  <2>1. \A j \in DOMAIN f : IsNumber(f[j]) => Val(s, f[j].n) \in Int
    BY <1>10, ValRange DEF Numeric
  <2>2. \A j \in DOMAIN f : IsNumber(f[j]) => lo <= Val(s, f[j].n) /\ Val(s, f[j].n) <= hi + 1
    BY <1>10, <2>1 DEF NumsIn
  <2> QED  BY <1>9, <2>2 DEF NumsIn, Before, IsNumber
<1>11. NumsIn(t, s, lo, hi + 1) /\ Sorted(t, s)
  <2>1. NumsIn(t, s, lo, hi + 1)
    BY <1>9 DEF NumsIn
  <2>2. Sorted(t, s)
    BY <1>2 DEF Sorted, IsNumber
  <2> QED  BY <2>1, <2>2
<1>12. PICK f : f = <<e>>
  OBVIOUS
<1>13. Numeric(b) /\ Numeric(f) /\ Numeric(q)
  BY <1>12, RepliesNumeric
<1>14. /\ NumsIn(b, s, lo, hi + 1) /\ NumsIn(f, s, lo, hi + 1) /\ NumsIn(q, s, lo, hi + 1)
       /\ Before(b, t, s) /\ Before(f, t, s) /\ Before(q, t, s)
  BY <1>10, <1>12, <1>13 DEF RepliesOK
<1>15. NumsIn(g, s, lo, hi + 1) /\ Sorted(g, s) /\ Before(f, g, s) /\ Before(b, g, s)
  <2>1. q \in Seq(InItem) /\ t \in Seq(InItem)
    BY <1>2 DEF InQueue
  <2>2. Sorted(q, s) /\ Before(f, q, s) /\ Before(b, q, s)
    BY <1>12 DEF RepliesOK
  <2>3. NumsIn(g, s, lo, hi + 1) /\ Sorted(g, s)
    BY <1>6, <1>11, <1>14, <2>1, <2>2, ConcatReplies
  <2>4. Before(f, g, s) /\ Before(b, g, s)
    BY <1>6, <1>14, <2>1, <2>2, ConcatReplies
  <2> QED  BY <2>3, <2>4
<1>16. RepliesOK(b, e, g, s, lo, hi + 1, pa)
  BY <1>7, <1>12, <1>14, <1>15 DEF RepliesOK
<1> QED  BY <1>1, <1>3, <1>6, <1>8, <1>16

\* The reader gets a block.
LEMMA RepliesData ==
  ASSUME NEW b, NEW e, NEW q \in InQueue, q # <<>>, Head(q).k = "DATA", NEW s \in Nat,
         NEW lo, NEW hi, NEW pa \in Int, RepliesOK(b, e, q, s, lo, hi, pa),
         Numeric(b), Numeric(<<e>>)
  PROVE  RepliesOK(b, e, Tail(q), s, lo, hi, pa + 1)
<1>1. q \in Seq(InItem)
  BY DEF InQueue
<1>2. NumsIn(Tail(q), s, lo, hi) /\ Sorted(Tail(q), s)
  BY <1>1, TailReplies DEF RepliesOK
<1>3. Before(<<e>>, Tail(q), s) /\ Before(b, Tail(q), s)
  BY <1>1, TailReplies DEF RepliesOK
<1>4. Heard(Tail(q), s, pa + 1)
  BY HeardTail DEF RepliesOK
<1>5. ASSUME NEW f, Numeric(f), EchoIn(f, s, pa) PROVE EchoIn(f, s, pa + 1)
  <2>1. \A j \in DOMAIN f : f[j].k = "ECHO" => Val(s, f[j].n) \in Int
    BY <1>5, ValRange DEF Numeric, IsNumber
  <2> QED  BY <1>5, <2>1 DEF EchoIn
<1>6. EchoIn(b, s, pa + 1) /\ EchoIn(<<e>>, s, pa + 1)
  BY <1>5 DEF RepliesOK
<1> QED  BY <1>2, <1>3, <1>4, <1>6 DEF RepliesOK

\* An echo, or a rejection, is noted and sent.
LEMMA RepliesEcho ==
  ASSUME NEW b \in Seq(Reply), NEW e, NEW q \in InQueue, q # <<>>, NEW x \in Control, x = Head(q),
         NEW s \in Nat, NEW lo, NEW hi, NEW pa \in Int, RepliesOK(b, e, q, s, lo, hi, pa)
  PROVE  RepliesOK(Append(b, x), x, Tail(q), s, lo, hi, pa)
<1>1. PICK h, g : h = <<x>> /\ g = Tail(q)
  OBVIOUS
<1>2. q \in Seq(InItem) /\ h \in Seq(Reply) /\ x.k # "DATA" /\ Append(b, x) = b \o h
  <2>1. q \in Seq(InItem) /\ x.k # "DATA" /\ x \in Reply
    BY DEF InQueue, Reply, Control
  <2>2. h \in Seq(Reply)
    BY <1>1, <2>1
  <2>3. Append(b, x) = b \o h
    BY <1>1, <2>1
  <2> QED  BY <2>1, <2>2, <2>3
<1>3. NumsIn(g, s, lo, hi) /\ Sorted(g, s)
  BY <1>1, <1>2, TailReplies DEF RepliesOK
<1>4. Before(b, g, s) /\ Before(b, h, s) /\ Before(h, g, s)
  BY <1>1, <1>2, TailReplies DEF RepliesOK
<1>5. Heard(g, s, pa) /\ (x.k = "ECHO" => Val(s, x.n) <= pa)
  BY <1>1, <1>2, HeardTail DEF RepliesOK
<1>6. NumsIn(h, s, lo, hi) /\ EchoIn(h, s, pa) /\ Sorted(h, s)
  <2>1. 1 \in DOMAIN q /\ x = q[1]
    BY <1>2, TailIndex
  <2>2. IsNumber(x) => lo <= Val(s, x.n) /\ Val(s, x.n) <= hi
    BY <2>1 DEF RepliesOK, NumsIn
  <2> QED  BY <1>1, <1>5, <2>2, OneReply
<1>7. Before(h, h, s)
  <2>1. IsNumber(x) => x.n \in 0..7
    BY RepliesNumeric, OneReply
  <2>2. IsNumber(x) => Val(s, x.n) \in Int
    BY <2>1, ValRange
  <2>3. DOMAIN h = {1} /\ h[1] = x
    BY <1>1
  <2> QED  BY <2>2, <2>3 DEF Before
<1>8. PICK c : c = b \o h
  OBVIOUS
<1>9. NumsIn(c, s, lo, hi) /\ Sorted(c, s) /\ EchoIn(c, s, pa)
  <2>1. NumsIn(b, s, lo, hi) /\ Sorted(b, s) /\ EchoIn(b, s, pa)
    BY DEF RepliesOK
  <2> QED  BY <1>2, <1>4, <1>6, <1>8, <2>1, ConcatReplies
<1>10. Before(c, g, s) /\ Before(c, h, s)
  BY <1>2, <1>4, <1>7, <1>8, ConcatReplies
<1>11. RepliesOK(c, x, g, s, lo, hi, pa)
  BY <1>1, <1>3, <1>4, <1>5, <1>6, <1>9, <1>10 DEF RepliesOK
<1> QED  BY <1>1, <1>2, <1>8, <1>11

-----------------------------------------------------------------------------
(* The inductive invariant of the two ends                                 *)

Acc == Val(sent, iseq)              \* the last message that has been accepted
Passed == Len(read) + first - 1     \* how much the reader has
Oldest == Number(WS) - 1            \* the last message the window has left behind
Opening == "OPENING" \in state

\* What has been accepted is in the read queue or passed on, what is acknowledged
\* has been accepted, and the window leaves behind what is passed on.
Under ==
  /\ Acc = UpTo(rq, Len(rq)) + Passed
  /\ Number(WACK) - 1 <= Acc
  /\ Oldest <= Passed

AInv ==
  /\ OpensOK(forth, iseq, Opening, sent)
  /\ Under
  /\ NumbersOK(forth, sent, Acc)
  /\ RepliesOK(back, lastecho, rq, sent, Oldest, Acc, Passed)

\* What the window says of these numbers.
LEMMA Known ==
  ASSUME UInv
  PROVE  /\ sent \in Nat /\ iseq \in 0..7 /\ XW \in 1..3 /\ first \in 1..7
         /\ WS \in 0..7 /\ WACK \in 0..10 /\ WNX \in 0..10
         /\ xb \in [0..7 -> 0..Highest]
         /\ forth \in Forth /\ back \in Seq(Reply) /\ rq \in InQueue /\ lastecho \in Control
         /\ read \in Seq(Collected) /\ inp \in Collected
         /\ Passed \in Int /\ Oldest \in Int /\ Number(WACK) \in Int
         /\ Acc \in Int /\ Acc <= sent
         /\ Oldest = sent - (WNX - WS) /\ sent - XW <= Oldest
         /\ Oldest <= Number(WACK) - 1 /\ Number(WACK) - 1 <= sent
         /\ \A i \in 0..7 : xb[i] = None \/ (1 <= xb[i] /\ xb[i] <= sent /\ sent < xb[i] + XW)
<1>1. ReceiverOK /\ forth \in Forth
  BY ReceiverParts
<1>2. /\ first \in 1..7 /\ XW \in 1..3
  BY Bounds DEF UInv, WindowOK
<1>3. /\ WS \in 0..7 /\ WACK \in 0..10 /\ WNX \in 0..10 /\ sent \in Nat
      /\ xb \in [0..7 -> 0..Highest]
  BY DEF UInv, WindowOK, TypeOK
<1>4. WS <= WACK /\ WACK <= WNX /\ WNX <= WS + XW
  BY DEF UInv, WindowOK
<1>5. sent \in Nat /\ iseq \in 0..7
  BY <1>1, <1>2, <1>3 DEF ReceiverOK
<1>6. /\ Oldest \in Int /\ Number(WACK) \in Int /\ Oldest = sent - (WNX - WS)
      /\ sent - XW <= Oldest /\ Oldest <= Number(WACK) - 1 /\ Number(WACK) - 1 <= sent
  BY <1>2, <1>3, <1>4 DEF Oldest, Number
<1>7. Acc \in Int /\ Acc <= sent
  BY <1>3, <1>5, ValRange DEF Acc
<1>8. read \in Seq(Collected)
  BY <1>1 DEF ReceiverOK
<1>9. Passed \in Int
  BY <1>2, <1>8 DEF Passed
<1>10. ASSUME NEW i \in 0..7, xb[i] # None
       PROVE  1 <= xb[i] /\ xb[i] <= sent /\ sent < xb[i] + XW
  <2>1. xb[i] \in Number(WACK)..sent /\ xb[i] \in 0..Highest /\ Highest \in Nat
    BY <1>3, <1>10, Messages DEF UInv, WindowOK
  <2> QED  BY <1>2, <1>3, <1>6, <1>10, <2>1 DEF None
<1> QED  BY <1>1, <1>2, <1>3, <1>5, <1>6, <1>7, <1>8, <1>9, <1>10 DEF ReceiverOK

\* What the two ends know of each other.
AView == <<state, WS, WACK, WNX, first, sent, forth, back, inp, indata, trx, trsize, iseq, lastecho,
           rq, read>>

\* Other steps do not disturb it.
LEMMA StillAInv ==
  ASSUME AInv, UNCHANGED AView
  PROVE  AInv'
<1>1. Acc' = Acc /\ Passed' = Passed /\ Oldest' = Oldest /\ Opening' = Opening
      /\ Number(WACK)' = Number(WACK)
  BY DEF AView, Acc, Passed, Oldest, Opening, Number
<1>2. Under'
  BY <1>1 DEF AInv, AView, Under
<1> QED  BY <1>1, <1>2 DEF AInv, AView

-----------------------------------------------------------------------------
(* The steps                                                               *)

\* A message is sent for the first time.
LEMMA SendAcks == ASSUME UInv, AInv, Send PROVE AInv'
<1>1. /\ sent \in Nat /\ iseq \in 0..7 /\ XW \in 1..3 /\ WS \in 0..7 /\ WNX \in 0..10 /\ WACK \in 0..10
      /\ Passed \in Int /\ Oldest \in Int /\ Number(WACK) \in Int /\ Acc \in Int /\ Acc <= sent
      /\ Oldest = sent - (WNX - WS) /\ Oldest <= Number(WACK) - 1
  BY Known
<1>2. forth \in Forth /\ back \in Seq(Reply) /\ rq \in InQueue /\ lastecho \in Control
  BY Known
<1>3. /\ WNX < WS + XW /\ "OPENING" \notin state /\ sent < written
      /\ sent' = sent + 1 /\ WNX' = WNX + 1 /\ WS' = WS /\ WACK' = WACK /\ first' = first
      /\ forth' = forth \o Xmit(sent + 1) /\ back' = back /\ state' = state
      /\ UNCHANGED receiver
  BY DEF Send, MaySend
<1>4. sent < Highest /\ Highest \in Nat
  <2>1. written <= Highest /\ Highest \in Nat
    BY Bounds DEF UInv, WindowOK
  <2>2. written \in Int
    BY <2>1 DEF UInv, WindowOK, TypeOK
  <2> QED  BY <1>1, <1>3, <2>1, <2>2
<1>5. sent - 2 <= Oldest /\ Oldest <= Acc /\ Number(WACK) - 1 <= Acc
  BY <1>1, <1>3 DEF AInv, Under
<1>6. Val(sent, iseq) = Acc /\ Val(sent + 1, iseq) = Acc
  <2>1. sent - 6 <= Val(sent, iseq)
    BY <1>1, <1>5 DEF Acc
  <2> QED  BY <1>1, <2>1, ValKeeps DEF Acc
<1>7. Acc' = Acc /\ Passed' = Passed /\ Opening' = Opening
  BY <1>3, <1>6 DEF Acc, Passed, Opening, receiver
<1>8. Oldest' = Oldest /\ Number(WACK)' = Number(WACK)
  BY <1>1, <1>3 DEF Oldest, Number
<1>9. Under'
  BY <1>3, <1>7, <1>8 DEF AInv, Under, receiver
<1>10. PICK t : t = Xmit(sent + 1)
  OBVIOUS
<1>11. sent + 1 \in Nat /\ sent + 1 \in 0..Highest /\ 1 <= sent + 1 /\ sent + 1 < sent + 1 + XW
  BY <1>1, <1>4
<1>12. t \in Forth /\ Fresh(t, sent + 1) /\ NumberedItems(t)
  BY <1>10, <1>11, FreshXmit, XmitType
<1>13. OpensOK(forth', iseq', Opening', sent')
  <2>1. Opening = FALSE
    BY <1>3 DEF Opening
  <2>2. OpensOK(forth, iseq, FALSE, sent + 1)
    BY <2>1 DEF AInv, OpensOK
  <2>3. PICK s1 \in Int : s1 = sent + 1
    BY <1>11
  <2>4. OpensOK(forth \o t, iseq, FALSE, s1)
    BY <1>2, <1>12, <2>2, <2>3, OpensConcat
  <2>5. iseq' = iseq /\ Opening' = FALSE
    BY <1>3, <1>7, <2>1 DEF receiver
  <2> QED  BY <1>3, <1>10, <2>3, <2>4, <2>5
<1>14. NumbersOK(forth', sent', Acc')
  <2>1. NumbersOK(forth, sent + 1, Acc)
    <3>1. sent - 7 + XW <= Acc
      BY <1>1, <1>5
    <3> QED  BY <1>1, <1>2, <3>1, ForthNumbered, MoreNumbers DEF AInv
  <2>2. NumbersOK(forth \o t, sent + 1, Acc)
    <3>1. Acc <= sent + 1
      BY <1>1
    <3> QED  BY <1>1, <1>2, <1>11, <1>12, <2>1, <3>1, ForthNumbered, NumbersConcat
  <2> QED  BY <1>3, <1>7, <1>10, <2>2
<1>15. RepliesOK(back', lastecho', rq', sent', Oldest', Acc', Passed')
  <2>1. sent - 6 <= Oldest
    BY <1>1, <1>5
  <2>2. RepliesOK(back, lastecho, rq, sent, Oldest, Acc, Passed)
    BY DEF AInv
  <2>3. RepliesOK(back, lastecho, rq, sent + 1, Oldest, Acc, Passed)
    BY <1>1, <1>2, <2>1, <2>2, RepliesMore
  <2> QED  BY <1>3, <1>7, <1>8, <2>3 DEF receiver
<1> QED  BY <1>9, <1>13, <1>14, <1>15 DEF AInv

\* dkptimer asks again, with INIT1 or ENQ.
LEMMA NumbersTimer ==
  ASSUME NEW f \in Forth, NEW x \in ToReceiver, x.k # "SEQ", NEW s, NEW a, NumbersOK(f, s, a)
  PROVE  NumbersOK(Append(f, x), s, a)
<1>1. PICK g, n : g = Append(f, x) /\ n = Len(f)
  OBVIOUS
<1>2. \A j \in DOMAIN g : (j \in DOMAIN f /\ g[j] = f[j]) \/ g[j].k # "SEQ"
  BY <1>1 DEF Forth
<1>3. NumbersOK(g, s, a)
  BY <1>2 DEF NumbersOK
<1> QED  BY <1>1, <1>3

\* It tells the receiver nothing new.
LEMMA TimerAcks == ASSUME UInv, AInv, Dkptimer PROVE AInv'
<1>1. forth \in Forth /\ sent \in Nat
  BY Known
<1>2. PICK x \in ToReceiver : /\ forth' = Append(forth, x)
                              /\ (x.k = "INIT1" /\ Opening) \/ x.k = "ENQ"
  <2>1. Item("ENQ", 0) \in ToReceiver /\ Item("INIT1", 0) \in ToReceiver
    BY DEF ToReceiver
  <2>2. Item("ENQ", 0).k = "ENQ" /\ Item("INIT1", 0).k = "INIT1"
    BY DEF Item
  <2> QED  BY <2>1, <2>2 DEF Dkptimer, Opening
<1>3. /\ UNCHANGED <<state, WS, WACK, WNX, first, sent, back>> /\ UNCHANGED receiver
  BY DEF Dkptimer, windows, writer
<1>4. /\ Acc' = Acc /\ Passed' = Passed /\ Oldest' = Oldest /\ Opening' = Opening
      /\ Number(WACK)' = Number(WACK)
  BY <1>3 DEF Acc, Passed, Oldest, Opening, Number, receiver
<1>5. OpensOK(Append(forth, x), iseq, Opening, sent)
  BY <1>1, <1>2, OpensTimer DEF AInv
<1>6. NumbersOK(Append(forth, x), sent, Acc)
  BY <1>1, <1>2, NumbersTimer DEF AInv
<1>7. OpensOK(forth', iseq', Opening', sent') /\ NumbersOK(forth', sent', Acc')
  BY <1>2, <1>3, <1>4, <1>5, <1>6 DEF receiver
<1>8. Under'
  BY <1>3, <1>4 DEF AInv, Under, receiver
<1>9. RepliesOK(back', lastecho', rq', sent', Oldest', Acc', Passed')
  BY <1>3, <1>4 DEF AInv, receiver
<1> QED  BY <1>7, <1>8, <1>9 DEF AInv

\* A reply is heard: what it leaves to the two ends.
LEMMA HearView ==
  ASSUME UInv, AInv, Hear
  PROVE  /\ back \in Seq(Reply) /\ back # <<>> /\ back' = Tail(back)
         /\ UNCHANGED <<first, sent>> /\ UNCHANGED receiver
         /\ Acc' = Acc /\ Passed' = Passed
         /\ RepliesOK(back', lastecho', rq', sent', Oldest, Acc', Passed')
<1>1. back \in Seq(Reply)
  BY Known
<1>2. /\ back # <<>> /\ back' = Tail(back) /\ UNCHANGED <<first, sent>> /\ UNCHANGED receiver
  BY DEF Hear
<1>3. Acc' = Acc /\ Passed' = Passed
  BY <1>2 DEF AInv, Acc, Passed, receiver
<1>4. RepliesOK(Tail(back), lastecho, rq, sent, Oldest, Acc, Passed)
  BY <1>1, <1>2, RepliesTail DEF AInv
<1> QED  BY <1>1, <1>2, <1>3, <1>4 DEF receiver

\* An AINIT ends the opening.
LEMMA HearAinitAcks == ASSUME UInv, AInv, Hear, HearAinit PROVE AInv'
<1>1. /\ Opening' = FALSE /\ forth' = forth /\ WS' = WS /\ WACK' = WACK /\ WNX' = WNX
  BY DEF HearAinit, Opening, windows
<1>2. /\ sent' = sent /\ iseq' = iseq /\ rq' = rq /\ Acc' = Acc /\ Passed' = Passed
      /\ RepliesOK(back', lastecho', rq', sent', Oldest, Acc', Passed')
  BY HearView DEF receiver
<1>3. Oldest' = Oldest /\ Number(WACK)' = Number(WACK)
  BY <1>1, <1>2 DEF Oldest, Number
<1>4. OpensOK(forth, iseq, FALSE, sent)
  BY DEF AInv, OpensOK
<1>5. OpensOK(forth', iseq', Opening', sent') /\ NumbersOK(forth', sent', Acc')
  BY <1>1, <1>2, <1>4 DEF AInv
<1>6. Under'
  BY <1>2, <1>3 DEF AInv, Under
<1> QED  BY <1>2, <1>3, <1>5, <1>6 DEF AInv

\* What is sent again is in the window.
LEMMA AgainAcks ==
  ASSUME UInv, AInv, NEW t \in Forth, Fresh(t, sent), NEW op, op => Opening
  PROVE  /\ OpensOK(forth \o t, iseq, op, sent) /\ NumbersOK(forth \o t, sent, Acc)
         /\ OpensOK(forth, iseq, op, sent) /\ NumbersOK(forth, sent, Acc)
<1>0. forth \in Forth /\ sent \in Nat /\ Acc \in Int /\ Acc <= sent
  BY Known
<1>1. forth \in Forth /\ sent \in Nat /\ sent \in Int /\ Acc \in Int /\ Acc <= sent
  BY <1>0
<1>2. OpensOK(forth, iseq, op, sent)
  BY DEF AInv, OpensOK
<1>3. NumbersOK(forth, sent, Acc)
  BY DEF AInv
<1>4. OpensOK(forth \o t, iseq, op, sent)
  BY <1>1, <1>2, OpensConcat
<1>5. NumbersOK(forth \o t, sent, Acc)
  BY <1>1, <1>3, ForthNumbered, NumbersConcat
<1> QED  BY <1>2, <1>3, <1>4, <1>5

\* A REJ has it sent.
LEMMA HearRejAcks == ASSUME UInv, AInv, Hear, HearRej PROVE AInv'
<1>1. PICK t : t = Resend(WACK, xb)
  BY ZenonT(60)
<1>2. t \in Forth /\ Fresh(t, sent)
  <2>1. /\ WACK \in 0..10 /\ xb \in [0..7 -> 0..Highest] /\ sent \in Nat
        /\ \A i \in 0..7 : xb[i] = None \/ (1 <= xb[i] /\ xb[i] <= sent /\ sent < xb[i] + XW)
    BY Known
  <2>2. t \in Forth
    BY <1>1, ResendType DEF UInv, WindowOK, TypeOK, Forth
  <2> QED  BY <1>1, <2>1, <2>2, FreshResend
<1>3. /\ forth' = forth \o t \/ forth' = forth
      /\ Opening' = Opening /\ WS' = WS /\ WACK' = WACK /\ WNX' = WNX
  BY <1>1 DEF HearRej, Opening
<1>4. /\ sent' = sent /\ iseq' = iseq /\ rq' = rq /\ Acc' = Acc /\ Passed' = Passed
      /\ RepliesOK(back', lastecho', rq', sent', Oldest, Acc', Passed')
  BY HearView DEF receiver
<1>5. Oldest' = Oldest /\ Number(WACK)' = Number(WACK)
  BY <1>3, <1>4 DEF Oldest, Number
<1>6. OpensOK(forth', iseq', Opening', sent') /\ NumbersOK(forth', sent', Acc')
  <2>1. PICK op : op = Opening
    OBVIOUS
  <2>2. /\ OpensOK(forth \o t, iseq, op, sent) /\ NumbersOK(forth \o t, sent, Acc)
        /\ OpensOK(forth, iseq, op, sent) /\ NumbersOK(forth, sent, Acc)
    BY <1>2, <2>1, AgainAcks
  <2>3. OpensOK(forth', iseq, op, sent) /\ NumbersOK(forth', sent, Acc)
    BY <1>3, <2>2
  <2> QED  BY <1>3, <1>4, <2>1, <2>3
<1>7. Under'
  BY <1>4, <1>5 DEF AInv, Under
<1> QED  BY <1>4, <1>5, <1>6, <1>7 DEF AInv

\* An acknowledgement moves the window as far as it says.
LEMMA RackMoves ==
  ASSUME UInv, NEW n \in 0..7, NEW c \in {"ECHO", "ACK"}, Rack(c, n), sent' = sent,
         c = "ECHO" => Oldest <= Val(sent, n)
  PROVE  /\ Oldest' = IF c = "ECHO" THEN Val(sent, n) ELSE Oldest
         /\ Number(WACK)' - 1 = Val(sent, n) \/ Number(WACK)' = Number(WACK)
<1>1. /\ WS \in 0..7 /\ WACK \in 0..10 /\ WNX \in 0..10 /\ sent \in Nat
  BY Known
<1>2. PICK v \in Int : v = Val(sent, n)
  BY <1>1, ValRange
<1>3. PICK s \in -8..9 : s = Meant(n) /\ s < WNX
  BY <1>1, MeantFacts
<1>4. Number(s) = v
  BY <1>2, <1>3, MeantVal
<1>5. PICK ack \in 0..10 : ack = IF WACK <= s THEN s + 1 ELSE WACK
  BY <1>1, <1>3
<1>6. PICK ws \in 0..10 : ws = IF c = "ECHO" /\ WS <= s THEN s + 1 ELSE WS
  BY <1>1, <1>3
<1>7. PICK wrap \in {0, 8} : wrap = IF ws >= 8 THEN 8 ELSE 0
  BY <1>6
<1>8. WS' = ws - wrap /\ WACK' = ack - wrap /\ WNX' = WNX - wrap
  BY <1>3, <1>5, <1>6, <1>7 DEF Rack
<1>9. Number(WACK)' = ack + (sent + 1 - WNX) /\ Oldest' = ws + (sent + 1 - WNX) - 1
  BY <1>1, <1>5, <1>6, <1>7, <1>8 DEF Number, Oldest
<1>10. /\ Number(WACK) = WACK + (sent + 1 - WNX) /\ Oldest = WS + (sent + 1 - WNX) - 1
       /\ v = s + (sent + 1 - WNX)
  BY <1>1, <1>3, <1>4 DEF Number, Oldest
<1>11. Number(WACK)' - 1 = v \/ Number(WACK)' = Number(WACK)
  BY <1>1, <1>3, <1>5, <1>9, <1>10
<1>12. Oldest' = IF c = "ECHO" THEN v ELSE Oldest
  BY <1>1, <1>2, <1>3, <1>6, <1>9, <1>10
<1> QED  BY <1>2, <1>11, <1>12

\* An acknowledgement is heard.
LEMMA HearAckAcks == ASSUME UInv, AInv, Hear, HearAck PROVE AInv'
<1>1. /\ sent' = sent /\ iseq' = iseq /\ rq' = rq /\ Acc' = Acc /\ Passed' = Passed
      /\ RepliesOK(back', lastecho', rq', sent', Oldest, Acc', Passed')
  BY HearView DEF receiver
<1>2. back \in Seq(Reply) /\ back # <<>> /\ back' = Tail(back) /\ lastecho' = lastecho
  BY HearView DEF receiver
<1>3. PICK c \in {"ECHO", "ACK"}, n \in 0..7 : c = Head(back).k /\ n = Head(back).n
  <2>1. Head(back) \in Reply
    BY <1>2
  <2> QED  BY <2>1 DEF HearAck, Reply, Control, Item
<1>4. Rack(c, n)
  BY <1>3 DEF HearAck
<1>5. lastecho \in Control /\ sent \in Nat /\ Oldest \in Int /\ Passed \in Int
      /\ Number(WACK) \in Int
  BY Known
<1>6. /\ Oldest <= Val(sent, n) /\ Val(sent, n) <= Acc
      /\ c = "ECHO" => /\ Val(sent, n) <= Passed
                       /\ RepliesOK(Tail(back), lastecho, rq, sent, Val(sent, n), Acc, Passed)
  BY <1>2, <1>3, <1>5, RepliesRack DEF AInv
<1>7. /\ Oldest' = IF c = "ECHO" THEN Val(sent, n) ELSE Oldest
      /\ Number(WACK)' - 1 = Val(sent, n) \/ Number(WACK)' = Number(WACK)
  BY <1>1, <1>4, <1>6, RackMoves
<1>8. Under'
  <2>1. Oldest' <= Passed
    BY <1>6, <1>7 DEF AInv, Under
  <2>2. Number(WACK)' - 1 <= Acc
    BY <1>6, <1>7 DEF AInv, Under
  <2> QED  BY <1>1, <2>1, <2>2 DEF AInv, Under
<1>9. RepliesOK(back', lastecho', rq', sent', Oldest', Acc', Passed')
  BY <1>1, <1>2, <1>6, <1>7
<1>10. PICK t : t = IF c = "ACK" THEN Resend(IF WACK <= Meant(n) THEN Meant(n) + 1 ELSE WACK, xb')
                    ELSE <<>>
  OBVIOUS
<1>11. forth' = forth \o t
  BY <1>4, <1>10 DEF Rack
<1>12. t \in Forth /\ Fresh(t, sent)
  <2>1. CASE c = "ECHO"
    <3>1. t = <<>>
      BY <1>10, <2>1, SMTT(60)
    <3> QED  BY <3>1 DEF Forth, Fresh
  <2>2. CASE c = "ACK"
    <3>1. WACK \in 0..10 /\ WNX \in 0..10
      BY Known
    <3>2. PICK w \in 0..10 : w = IF WACK <= Meant(n) THEN Meant(n) + 1 ELSE WACK
      BY <3>1, MeantFacts
    <3>3. PICK b : b = xb'
      OBVIOUS
    <3>4. /\ xb \in [0..7 -> 0..Highest]
          /\ \A i \in 0..7 : xb[i] = None \/ (1 <= xb[i] /\ xb[i] <= sent /\ sent < xb[i] + XW)
      BY Known
    <3>5. b = [i \in 0..7 |-> IF \E j \in WS..Meant(n) : j % 8 = i THEN None ELSE xb[i]]
      BY <1>4, <3>3 DEF Rack
    <3>6. b \in [0..7 -> 0..Highest]
      BY <3>4, <3>5, Messages
    <3>7. \A i \in 0..7 : b[i] = None \/ (1 <= b[i] /\ b[i] <= sent /\ sent < b[i] + XW)
      BY <3>4, <3>5
    <3>8. t = Resend(w, b)
      BY <1>10, <2>2, <3>2, <3>3
    <3>9. sent \in Nat
      BY <1>5
    <3> QED  BY <3>2, <3>6, <3>7, <3>8, <3>9, ResendType, FreshResend
  <2> QED  BY <2>1, <2>2
<1>13. Opening' = Opening
  BY <1>4 DEF Rack, Opening
<1>14. OpensOK(forth', iseq', Opening', sent') /\ NumbersOK(forth', sent', Acc')
  <2>1. PICK op : op = Opening
    OBVIOUS
  <2>2. OpensOK(forth \o t, iseq, op, sent) /\ NumbersOK(forth \o t, sent, Acc)
    BY <1>12, <2>1, AgainAcks
  <2> QED  BY <1>1, <1>11, <1>13, <2>1, <2>2
<1> QED  BY <1>1, <1>8, <1>9, <1>14 DEF AInv

\* Whatever reply comes.
LEMMA HearAcks == ASSUME UInv, AInv, Hear PROVE AInv'
BY HearAinitAcks, HearRejAcks, HearAckAcks DEF Hear

\* An item is taken off the line at the receiver, or lost: what that leaves.
LEMMA RecvView ==
  ASSUME UInv, AInv, forth # <<>>, forth' = Tail(forth),
         UNCHANGED <<state, windows, first, writer, read>>
  PROVE  /\ UNCHANGED <<first, sent>>
         /\ Passed' = Passed /\ Oldest' = Oldest /\ Opening' = Opening
         /\ Number(WACK)' = Number(WACK)
         /\ OpensOK(forth', iseq, Opening', sent') /\ NumbersOK(forth', sent', Acc)
<1>1. UNCHANGED <<state, WS, WACK, WNX, first, sent, read>>
  BY DEF windows, writer
<1>2. /\ Passed' = Passed /\ Oldest' = Oldest /\ Opening' = Opening
      /\ Number(WACK)' = Number(WACK)
  BY <1>1 DEF Passed, Oldest, Opening, Number
<1>3. forth \in Forth
  BY Known
<1>4. OpensOK(Tail(forth), iseq, Opening, sent)
  BY <1>3, OpensTail DEF AInv
<1>5. NumbersOK(Tail(forth), sent, Acc)
  BY <1>3, NumbersTail DEF AInv
<1> QED  BY <1>1, <1>2, <1>4, <1>5

\* When the receiver has accepted nothing new.
LEMMA RecvNothing ==
  ASSUME UInv, AInv, forth # <<>>, forth' = Tail(forth), iseq' = iseq,
         UNCHANGED <<state, windows, first, writer, read, lastecho>>,
         UpTo(rq', Len(rq')) = UpTo(rq, Len(rq)),
         RepliesOK(back', lastecho, rq', sent, Oldest, Acc, Passed)
  PROVE  AInv'
<1>1. /\ UNCHANGED <<first, sent>>
      /\ Passed' = Passed /\ Oldest' = Oldest /\ Opening' = Opening
      /\ Number(WACK)' = Number(WACK)
      /\ OpensOK(forth', iseq, Opening', sent') /\ NumbersOK(forth', sent', Acc)
  BY RecvView
<1>2. Acc' = Acc
  BY <1>1 DEF Acc
<1>3. Under'
  BY <1>1, <1>2 DEF AInv, Under
<1>4. RepliesOK(back', lastecho', rq', sent', Oldest', Acc', Passed')
  BY <1>1, <1>2
<1> QED  BY <1>1, <1>2, <1>3, <1>4 DEF AInv

\* Data and trailers change neither the numbers nor the replies.
LEMMA NumbersLeft ==
  ASSUME NEW x, RecvData(x.n) \/ RecvTrailer(x.n)
  PROVE  UNCHANGED <<iseq, lastecho, rq, back>>
BY DEF RecvData, RecvTrailer

\* A message that is acceptable is the next one.
LEMMA NextAccepted ==
  ASSUME UInv, AInv, forth # <<>>, NEW i \in 0..7, forth[1].k = "SEQ", forth[1].n = i,
         Acceptable(i)
  PROVE  Val(sent, i) = Acc + 1
<1>1. /\ sent \in Nat /\ iseq \in 0..7 /\ XW \in 1..3 /\ forth \in Forth
      /\ Oldest \in Int /\ Number(WACK) \in Int /\ Acc \in Int
      /\ sent - XW <= Oldest /\ Oldest <= Number(WACK) - 1
  BY Known
<1>2. 1 \in DOMAIN forth
  BY <1>1, TailIndex DEF Forth
<1>3. Acc < Val(sent, i) + XW
  BY <1>2 DEF AInv, NumbersOK
<1>e. sent \in Nat
  BY <1>1
<1>4. Val(sent, i) \in Int /\ Val(sent, i) <= sent
  BY <1>e, ValRange
<1>5. sent - XW <= Acc
  BY <1>1 DEF AInv, Under
<1>6. Val(sent, iseq) - 3 <= Val(sent, i) /\ Val(sent, i) <= Val(sent, iseq) + 3
  BY <1>1, <1>3, <1>4, <1>5, SMTT(60) DEF Acc
<1>7. Val(sent, i) = Val(sent, iseq) + 1
  BY <1>1, <1>e, <1>6, ValNext DEF Acceptable
<1> QED  BY <1>7 DEF Acc

\* A message is accepted.
LEMMA AcceptAcks ==
  ASSUME UInv, AInv, forth # <<>>, forth' = Tail(forth), NEW i \in 0..7,
         forth[1].k = "SEQ", forth[1].n = i, RecvSeq(i), Acceptable(i),
         UNCHANGED <<state, windows, first, writer, read>>
  PROVE  AInv'
<1>1. Val(sent, i) = Acc + 1
  BY NextAccepted
<1>2. /\ UNCHANGED <<first, sent>>
      /\ Passed' = Passed /\ Oldest' = Oldest /\ Opening' = Opening
      /\ Number(WACK)' = Number(WACK)
  BY RecvView
<1>3. Acc' = Acc + 1 /\ iseq' = i /\ back' = back /\ lastecho' = lastecho
  BY <1>1, <1>2 DEF RecvSeq, Acc
<1>4. /\ sent \in Nat /\ Acc \in Int /\ Passed \in Int /\ Oldest \in Int
      /\ Number(WACK) \in Int /\ Oldest <= Number(WACK) - 1
  BY Known
<1>5. /\ forth \in Forth /\ back \in Seq(Reply) /\ rq \in InQueue /\ lastecho \in Control
      /\ inp \in Collected
  BY Known
<1>6. PICK d : d = <<Item("DATA", inp)>>
  OBVIOUS
<1>7. d \in InQueue /\ Len(d) = 1 /\ \A j \in DOMAIN d : d[j].k = "DATA"
  <2>1. Item("DATA", inp) \in InItem /\ Item("DATA", inp).k = "DATA"
    BY <1>5 DEF Item, InItem
  <2> QED  BY <1>6, <2>1 DEF InQueue
<1>8. PICK x \in InItem : x = Item("ECHO", i) /\ x.k = "ECHO" /\ x.n = i
  <2>1. Item("ECHO", i) \in InItem
    BY DEF InItem, Control, Item
  <2>2. Item("ECHO", i).k = "ECHO" /\ Item("ECHO", i).n = i
    BY DEF Item
  <2> QED  BY <2>1, <2>2
<1>9. rq' = rq \o (d \o <<x>>)
  <2>1. rq' = rq \o <<Item("DATA", inp), x>>
    BY <1>8 DEF RecvSeq
  <2>2. rq \in Seq(InItem) /\ d \in Seq(InItem) /\ <<x>> \in Seq(InItem)
    BY <1>5, <1>7 DEF InQueue
  <2> QED  BY <1>6, <2>1, <2>2
<1>10. PICK s \in Nat, lo \in Int, hi \in Int, pa \in Int :
         s = sent /\ lo = Oldest /\ hi = Acc /\ pa = Passed
  BY <1>4
<1>11. lo <= hi /\ Val(s, x.n) = hi + 1 /\ RepliesOK(back, lastecho, rq, s, lo, hi, pa)
  BY <1>1, <1>4, <1>8, <1>10 DEF AInv, Under
<1>12. PICK c \in Nat : c = UpTo(rq, Len(rq))
  <2>1. Len(rq) \in Nat
    BY <1>5 DEF InQueue
  <2> QED  BY <2>1, UpToType
<1>13. hi + 1 = c + pa + Len(d)
  <2>1. hi = c + pa
    BY <1>10, <1>12 DEF AInv, Under
  <2> QED  BY <1>7, <2>1
<1>14. /\ RepliesOK(back, lastecho, rq', s, lo, hi + 1, pa)
       /\ UpTo(rq', Len(rq')) = c + Len(d)
  <2>1. x.n \in 0..7
    BY <1>8
  <2>2. hi + 1 <= UpTo(rq, Len(rq)) + pa + Len(d)
    BY <1>12, <1>13
  <2>3. PICK g : g = rq \o (d \o <<x>>)
    OBVIOUS
  <2>4. Joined(g, rq, d, x)
    BY <2>3 DEF Joined
  <2>5. /\ RepliesOK(back, lastecho, g, s, lo, hi + 1, pa)
        /\ UpTo(g, Len(g)) = UpTo(rq, Len(rq)) + Len(d)
    <3>1. x.k = "ECHO" /\ d \in InQueue /\ \A j \in DOMAIN d : d[j].k = "DATA"
      BY <1>7, <1>8
    <3>2. back \in Seq(Reply) /\ lastecho \in Control /\ rq \in InQueue
      BY <1>5
    <3>3. lo <= hi /\ Val(s, x.n) = hi + 1 /\ RepliesOK(back, lastecho, rq, s, lo, hi, pa)
      BY <1>11
    <3>4. s \in Nat /\ lo \in Int /\ hi \in Int /\ pa \in Int /\ x \in InItem
      OBVIOUS
    <3> QED  BY <2>1, <2>2, <2>4, <3>1, <3>2, <3>3, <3>4, RepliesAccept, SMTT(120)
  <2> QED  BY <1>9, <1>12, <2>3, <2>5
<1>15. RepliesOK(back', lastecho', rq', sent', Oldest', Acc', Passed')
  BY <1>2, <1>3, <1>10, <1>14
<1>16. Under'
  <2>1. Acc' = UpTo(rq', Len(rq')) + Passed'
    BY <1>2, <1>3, <1>7, <1>10, <1>13, <1>14
  <2>2. Number(WACK)' - 1 <= Acc' /\ Oldest' <= Passed'
    BY <1>2, <1>3, <1>4 DEF AInv, Under
  <2> QED  BY <2>1, <2>2 DEF Under
<1>17. OpensOK(forth', iseq', Opening', sent')
  <2>1. OpensOK(Tail(forth), i, Opening, sent)
    BY <1>5, OpensAccept DEF AInv
  <2> QED  BY <1>2, <1>3, <2>1
<1>18. NumbersOK(forth', sent', Acc')
  <2>1. NumbersOK(Tail(forth), sent, Val(sent, i))
    BY <1>5, NumbersTail DEF AInv
  <2> QED  BY <1>1, <1>2, <1>3, <2>1
<1> QED  BY <1>3, <1>15, <1>16, <1>17, <1>18 DEF AInv

\* A message is rejected.
LEMMA RejectAcks ==
  ASSUME UInv, AInv, forth # <<>>, forth' = Tail(forth), NEW i \in 0..7, RecvSeq(i),
         ~Acceptable(i), UNCHANGED <<state, windows, first, writer, read>>
  PROVE  AInv'
<1>1. /\ rq' = Append(rq, Item("REJ", iseq)) /\ iseq' = iseq /\ back' = back
      /\ lastecho' = lastecho
  BY DEF RecvSeq
<1>2. rq \in InQueue /\ iseq \in 0..7 /\ Passed \in Int
  BY Known
<1>3. PICK x \in InItem : x = Item("REJ", iseq) /\ x.k = "REJ"
  <2>1. Item("REJ", iseq) \in InItem /\ Item("REJ", iseq).k = "REJ"
    BY <1>2 DEF InItem, Control, Item
  <2> QED  BY <2>1
<1>4. /\ RepliesOK(back, lastecho, Append(rq, x), sent, Oldest, Acc, Passed)
      /\ UpTo(Append(rq, x), Len(Append(rq, x))) = UpTo(rq, Len(rq))
  <2>1. RepliesOK(back, lastecho, rq, sent, Oldest, Acc, Passed)
    BY DEF AInv
  <2> QED  BY <1>2, <1>3, <2>1, RepliesReject, SMTT(60)
<1>5. /\ RepliesOK(back', lastecho, rq', sent, Oldest, Acc, Passed)
      /\ UpTo(rq', Len(rq')) = UpTo(rq, Len(rq))
  BY <1>1, <1>3, <1>4
<1> QED  BY <1>1, <1>5, RecvNothing

\* ENQ is answered.
LEMMA EnqAcks ==
  ASSUME UInv, AInv, forth # <<>>, forth' = Tail(forth), RecvEnq,
         UNCHANGED <<state, windows, first, writer, read>>
  PROVE  AInv'
<1>1. /\ back' = back \o <<lastecho, Item("ACK", iseq)>> /\ iseq' = iseq /\ rq' = rq
      /\ lastecho' = lastecho
  BY DEF RecvEnq
<1>2. /\ back \in Seq(Reply) /\ rq \in InQueue /\ lastecho \in Control /\ iseq \in 0..7
      /\ sent \in Nat /\ Oldest \in Int /\ Passed \in Int /\ Acc \in Int
      /\ Number(WACK) \in Int /\ Oldest <= Number(WACK) - 1
  BY Known
<1>3. sent \in Nat /\ Oldest <= Val(sent, iseq)
  BY <1>2 DEF AInv, Under, Acc
<1>4. RepliesOK(back, lastecho, rq, sent, Oldest, Val(sent, iseq), Passed)
  BY DEF AInv, Acc
<1>5. RepliesOK(back \o <<lastecho, Item("ACK", iseq)>>, lastecho, rq, sent, Oldest,
                Val(sent, iseq), Passed)
  BY <1>2, <1>3, <1>4, RepliesEnq
<1>6. RepliesOK(back', lastecho, rq', sent, Oldest, Acc, Passed)
  BY <1>1, <1>5 DEF Acc
<1> QED  BY <1>1, <1>6, RecvNothing

\* INIT1 comes before any message, and starts numbers that have not begun.
LEMMA InitAcks ==
  ASSUME UInv, AInv, forth # <<>>, forth' = Tail(forth), forth[1].k = "INIT1", RecvInit,
         UNCHANGED <<state, windows, first, writer, read>>
  PROVE  AInv'
<1>1. forth \in Forth /\ back \in Seq(Reply)
  BY Known
<1>2. iseq = 0
  <2>1. 1 \in DOMAIN forth
    BY <1>1, TailIndex DEF Forth
  <2> QED  BY <2>1 DEF AInv, OpensOK
<1>3. /\ back' = Append(back, Item("AINIT", 0)) /\ iseq' = iseq /\ rq' = rq
      /\ lastecho' = lastecho
  BY <1>2 DEF RecvInit
<1>4. PICK x \in Reply : x = Item("AINIT", 0) /\ ~IsNumber(x)
  <2>1. Item("AINIT", 0) \in Reply /\ ~IsNumber(Item("AINIT", 0))
    BY DEF Reply, Item, IsNumber
  <2> QED  BY <2>1
<1>5. RepliesOK(Append(back, x), lastecho, rq, sent, Oldest, Acc, Passed)
  <2>1. RepliesOK(back, lastecho, rq, sent, Oldest, Acc, Passed)
    BY DEF AInv
  <2> QED  BY <1>1, <1>4, <2>1, RepliesOther
<1>6. RepliesOK(back', lastecho, rq', sent, Oldest, Acc, Passed)
  BY <1>3, <1>4, <1>5
<1> QED  BY <1>3, <1>6, RecvNothing

\* Whatever comes in at the receiver.
LEMMA RecvAcks == ASSUME UInv, AInv, Recv PROVE AInv'
<1>1. forth \in Forth
  BY Known
<1>2. PICK x \in ToReceiver : x = Head(forth) /\ x = forth[1]
  BY <1>1 DEF Recv, Forth
<1>3. /\ forth # <<>> /\ forth' = Tail(forth)
      /\ UNCHANGED <<state, windows, first, writer, read>>
  BY DEF Recv
<1>4. CASE \/ x.k = "DATA" /\ RecvData(x.n)
           \/ x.k = "BOT" /\ RecvTrailer(x.n)
  <2>1. UNCHANGED <<iseq, lastecho, rq, back>>
    BY <1>4, NumbersLeft
  <2>2. RepliesOK(back', lastecho, rq', sent, Oldest, Acc, Passed)
    BY <2>1 DEF AInv
  <2> QED  BY <1>3, <2>1, <2>2, RecvNothing
<1>5. CASE x.k = "SEQ" /\ RecvSeq(x.n)
  <2>1. PICK i \in 0..7 : i = x.n
    BY <1>5 DEF ToReceiver, Item
  <2> QED  BY <1>2, <1>3, <1>5, <2>1, AcceptAcks, RejectAcks
<1>6. CASE x.k = "ENQ" /\ RecvEnq
  BY <1>3, <1>6, EnqAcks
<1>7. CASE x.k = "INIT1" /\ RecvInit
  BY <1>2, <1>3, <1>7, InitAcks
<1> QED  BY <1>2, <1>4, <1>5, <1>6, <1>7 DEF Recv

\* The reader gets a block, or an echo is sent when its turn comes.
LEMMA IsrvAcks == ASSUME UInv, AInv, Dkpisrv PROVE AInv'
<1>1. /\ rq # <<>> /\ rq' = Tail(rq) /\ UNCHANGED <<state, WS, WACK, WNX, first, sent, forth>>
      /\ UNCHANGED <<inp, indata, trx, trsize, iseq>>
  BY DEF Dkpisrv, windows, writer
<1>2. /\ Acc' = Acc /\ Oldest' = Oldest /\ Opening' = Opening /\ Number(WACK)' = Number(WACK)
     
  BY <1>1 DEF Acc, Oldest, Opening, Number, AInv
<1>3. OpensOK(forth', iseq', Opening', sent') /\ NumbersOK(forth', sent', Acc')
  BY <1>1, <1>2 DEF AInv
<1>4. /\ back \in Seq(Reply) /\ rq \in InQueue /\ lastecho \in Control /\ read \in Seq(Collected)
      /\ sent \in Nat /\ Passed \in Int /\ first \in 1..7 /\ Acc \in Int /\ Oldest \in Int
  BY Known
<1>5. sent \in Nat /\ RepliesOK(back, lastecho, rq, sent, Oldest, Acc, Passed)
  BY <1>4 DEF AInv
<1>6. UpTo(rq, Len(rq)) = UpTo(rq', Len(rq')) + (IF Head(rq).k = "DATA" THEN 1 ELSE 0)
  <2>1. PICK g : g = Tail(rq)
    OBVIOUS
  <2>2. rq \in Seq(InItem)
    BY <1>4 DEF InQueue
  <2>3. \A j \in 0..Len(g) : UpTo(rq, j + 1) = UpTo(g, j) + IF Head(rq).k = "DATA" THEN 1 ELSE 0
    BY <1>1, <2>1, <2>2, UpToTail
  <2>4. Len(g) \in 0..Len(g) /\ Len(g) + 1 = Len(rq)
    BY <1>1, <2>1, <2>2
  <2> QED  BY <1>1, <2>1, <2>3, <2>4
<1>7. PICK c \in Nat : c = UpTo(rq', Len(rq'))
  <2>1. Len(rq') \in Nat
    BY <1>1, <1>4 DEF InQueue
  <2> QED  BY <2>1, UpToType
<1>8. Acc = UpTo(rq, Len(rq)) + Passed /\ Number(WACK) - 1 <= Acc /\ Oldest <= Passed
  BY DEF AInv, Under
<1>9. CASE Head(rq).k = "DATA"
  <2>1. read' = Append(read, Head(rq).n) /\ UNCHANGED <<lastecho, back>>
    BY <1>9 DEF Dkpisrv
  <2>2. Passed' = Passed + 1
    <3>1. PICK n : n = Head(rq).n
      OBVIOUS
    <3>2. Len(Append(read, n)) = Len(read) + 1 /\ Len(read) \in Nat
      BY <1>4
    <3> QED  BY <1>1, <1>4, <2>1, <3>1, <3>2 DEF Passed
  <2>3. RepliesOK(back, lastecho, Tail(rq), sent, Oldest, Acc, Passed + 1)
    BY <1>1, <1>4, <1>5, <1>9, RepliesData, RepliesNumeric
  <2>4. RepliesOK(back', lastecho', rq', sent', Oldest', Acc', Passed')
    BY <1>1, <1>2, <2>1, <2>2, <2>3
  <2>5. Acc = c + (Passed + 1) /\ Oldest <= Passed + 1
    BY <1>4, <1>6, <1>7, <1>8, <1>9
  <2>6. Under'
    BY <1>2, <1>7, <1>8, <2>2, <2>5 DEF Under
  <2> QED  BY <1>2, <1>3, <2>4, <2>6 DEF AInv
<1>10. CASE Head(rq).k # "DATA"
  <2>1. PICK x \in Control : x = Head(rq)
    <3>1. Head(rq) \in InItem
      BY <1>1, <1>4 DEF InQueue
    <3> QED  BY <1>10, <3>1 DEF InItem
  <2>2. lastecho' = x /\ back' = Append(back, x) /\ read' = read
    BY <1>10, <2>1 DEF Dkpisrv
  <2>3. Passed' = Passed
    BY <1>1, <2>2 DEF Passed
  <2>4. RepliesOK(Append(back, x), x, Tail(rq), sent, Oldest, Acc, Passed)
    BY <1>1, <1>4, <1>5, <2>1, RepliesEcho
  <2>5. RepliesOK(back', lastecho', rq', sent', Oldest', Acc', Passed')
    BY <1>1, <1>2, <2>2, <2>3, <2>4
  <2>6. Under'
    BY <1>2, <1>6, <1>7, <1>8, <1>10, <2>3 DEF Under
  <2> QED  BY <1>2, <1>3, <2>5, <2>6 DEF AInv
<1> QED  BY <1>9, <1>10

\* What is lost was never needed to be true.
LEMMA LoseAcks == ASSUME UInv, AInv, Lose PROVE AInv'
<1>1. UNCHANGED <<state, windows, first, writer>> /\ UNCHANGED receiver
  BY DEF Lose
<1>2. RepliesOK(back, lastecho, rq, sent, Oldest, Acc, Passed)
  BY DEF AInv
<1>3. CASE forth # <<>> /\ forth' = Tail(forth) /\ UNCHANGED back
  <2>1. UNCHANGED <<state, windows, first, writer, read, lastecho>> /\ iseq' = iseq /\ rq' = rq
    BY <1>1 DEF receiver
  <2>2. UpTo(rq', Len(rq')) = UpTo(rq, Len(rq))
    BY <2>1
  <2>3. RepliesOK(back', lastecho, rq', sent, Oldest, Acc, Passed)
    BY <1>2, <1>3, <2>1
  <2> QED  BY <1>3, <2>1, <2>2, <2>3, RecvNothing
<1>4. CASE back # <<>> /\ back' = Tail(back) /\ UNCHANGED forth
  <2>1. back \in Seq(Reply)
    BY Known
  <2>2. RepliesOK(Tail(back), lastecho, rq, sent, Oldest, Acc, Passed)
    BY <1>2, <1>4, <2>1, RepliesTail
  <2>3. /\ Acc' = Acc /\ Passed' = Passed /\ Oldest' = Oldest /\ Opening' = Opening
        /\ Number(WACK)' = Number(WACK)
    BY <1>1 DEF Acc, Passed, Oldest, Opening, Number, windows, writer, receiver
  <2>4. OpensOK(forth', iseq', Opening', sent') /\ NumbersOK(forth', sent', Acc')
    BY <1>1, <1>4, <2>3 DEF AInv, writer, receiver
  <2>5. Under'
    BY <1>1, <2>3 DEF AInv, Under, receiver
  <2>6. RepliesOK(back', lastecho', rq', sent', Oldest', Acc', Passed')
    BY <1>1, <1>4, <2>2, <2>3 DEF writer, receiver
  <2> QED  BY <2>4, <2>5, <2>6 DEF AInv
<1> QED  BY <1>3, <1>4 DEF Lose

-----------------------------------------------------------------------------
(* The theorem                                                             *)

\* A circuit begins with nothing on its way.
LEMMA InitAInv == ASSUME Init PROVE AInv
<1>1. first \in 1..7 /\ XW \in 1..3
  BY UrpAssumption DEF Init
<1>2. /\ sent = first - 1 /\ iseq = first - 1 /\ WS = first /\ WACK = first /\ WNX = first
      /\ back = <<>> /\ rq = <<>> /\ read = <<>> /\ inp = <<>> /\ indata = 0 /\ trx = 0
      /\ lastecho = Item("ECHO", first - 1)
  BY DEF Init
<1>3. PICK n \in 0..7 : n = first - 1
  BY <1>1
<1>4. Val(n, n) = n
  BY DEF Val
<1>5. Acc = n /\ Passed = n /\ Oldest = n /\ Number(WACK) = n + 1
  BY <1>1, <1>2, <1>3, <1>4 DEF Acc, Passed, Oldest, Number
<1>6. Under
  <2>1. UpTo(rq, Len(rq)) = 0
    BY <1>2, UpToType
  <2> QED  BY <1>3, <1>5, <2>1 DEF Under
<1>7. OpensOK(forth, iseq, Opening, sent)
  <2>1. CASE first = 1
    <3>1. forth = <<Item("INIT1", 0)>>
      BY <2>1 DEF Init
    <3>2. DOMAIN forth = {1} /\ forth[1].k = "INIT1"
      BY <3>1 DEF Item
    <3> QED  BY <1>2, <2>1, <3>2 DEF OpensOK
  <2>2. CASE first # 1
    <3>1. forth = <<>> /\ Opening = FALSE
      BY <2>2 DEF Init, Opening
    <3>2. DOMAIN forth = {}
      BY <3>1
    <3> QED  BY <3>1, <3>2 DEF OpensOK
  <2> QED  BY <2>1, <2>2
<1>8. NumbersOK(forth, sent, Acc)
  <2>1. \A j \in DOMAIN forth : forth[j].k # "SEQ"
    BY DEF Init, Item
  <2> QED  BY <2>1 DEF NumbersOK
<1>9. RepliesOK(back, lastecho, rq, sent, Oldest, Acc, Passed)
  <2>1. PICK f : f = <<lastecho>>
    OBVIOUS
  <2>2. DOMAIN back = {} /\ DOMAIN rq = {} /\ DOMAIN f = {1} /\ f[1].n = n
    BY <1>2, <1>3, <2>1 DEF Item
  <2>3. NumsIn(f, n, n, n) /\ EchoIn(f, n, n)
    BY <1>4, <2>2 DEF NumsIn, EchoIn
  <2>4. NumsIn(f, sent, Oldest, Acc) /\ EchoIn(f, sent, Passed)
    BY <1>2, <1>3, <1>5, <2>3
  <2> QED  BY <2>1, <2>2, <2>4 DEF RepliesOK, NumsIn, Sorted, Before, EchoIn, Heard
<1> QED  BY <1>6, <1>7, <1>8, <1>9 DEF AInv

\* Whatever the line loses and however late the replies come, the receiver
\* accepts every number once and in turn, none that was not sent, an
\* acknowledged one has been accepted, and what was accepted under one that the
\* window has left behind has been given to the reader.
THEOREM AcksTrue == Spec => []NumbersAccepted
<1>1. Init => UInv /\ AInv
  BY InitUInv, InitAInv
<1>2. UInv /\ AInv /\ [Next]_vars => UInv' /\ AInv'
  <2> SUFFICES ASSUME UInv, AInv, [Next]_vars PROVE UInv' /\ AInv'
    OBVIOUS
  <2>1. UInv'
    BY UInvStep
  <2>2. CASE UNCHANGED vars
    <3>1. UNCHANGED AView
      BY <2>2 DEF vars, AView, windows, writer, receiver
    <3> QED  BY <2>1, <3>1, StillAInv
  <2>3. CASE Write
    <3>1. UNCHANGED AView
      BY <2>3 DEF Write, AView, windows, receiver
    <3> QED  BY <2>1, <3>1, StillAInv
  <2>4. CASE SendEnd
    <3>1. UNCHANGED AView
      BY <2>4 DEF SendEnd, AView, windows, receiver
    <3> QED  BY <2>1, <3>1, StillAInv
  <2> QED  BY <2>1, <2>2, <2>3, <2>4, SendAcks, HearAcks, TimerAcks, RecvAcks, IsrvAcks,
              LoseAcks DEF Next
<1>3. UInv /\ AInv => NumbersAccepted
  <2> SUFFICES ASSUME UInv, AInv PROVE NumbersAccepted
    OBVIOUS
  <2>1. rq \in InQueue /\ Acc \in Int /\ Number(WACK) \in Int /\ read \in Seq(Collected)
        /\ first \in 1..7
    BY Known
  <2>2. UpTo(rq, Len(rq)) = Cardinality({j \in DOMAIN rq : rq[j].k = "DATA"})
    <3>1. DOMAIN rq = 1..Len(rq)
      BY <2>1 DEF InQueue
    <3> QED  BY <3>1 DEF UpTo, Data
  <2>3. PICK c \in Nat : c = UpTo(rq, Len(rq))
    <3>1. Len(rq) \in Nat
      BY <2>1 DEF InQueue
    <3> QED  BY <3>1, UpToType
  <2>4. Accepted = c + Passed
    <3>1. Len(read) \in Nat
      BY <2>1
    <3> QED  BY <2>1, <2>2, <2>3, <3>1 DEF Accepted, Passed
  <2>5. Acc = Accepted /\ Number(WACK) - 1 <= Acc /\ Oldest <= Passed /\ Acc <= sent
    BY <2>3, <2>4, Known DEF AInv, Under
  <2>6. Accepted \in Nat
    BY <2>1, <2>3, <2>4 DEF Passed
  <2>7. iseq = Accepted % 8
    BY <2>5, <2>6, Known, ValMod DEF Acc
  <2> QED  BY <2>5, <2>7 DEF NumbersAccepted, Oldest, Passed
<1> QED  BY <1>1, <1>2, <1>3, PTL DEF Spec
=============================================================================
