--------------------------------- MODULE Urp ---------------------------------
(***************************************************************************)
(* The universal receiver protocol of a datakit circuit (dev/dkp.c), one    *)
(* direction of it: one end sends messages with a trailer and a sequence    *)
(* number modulo 8, keeps up to XW of them until the other end has passed   *)
(* them on, and asks with ENQ when nothing comes back; the other end        *)
(* collects, accepts or rejects.  The lines in between keep the order and   *)
(* may lose what they carry.                                                *)
(*                                                                         *)
(* A message is one data block with its delimiter, or the delimiter alone.  *)
(* Messages are numbered so that m has sequence number m % 8.  At the        *)
(* receiver a message is the sequence of the blocks that were collected for  *)
(* it; its M_DELIM, which dkpiput queues behind the echo, goes with them.    *)
(***************************************************************************)
EXTENDS Integers, SequencesExt, FiniteSets

CONSTANTS
  Firsts,       \* a circuit begins with one of these messages: with 1 it is being
                \* opened, with another the messages before have gone through
  Total,        \* how many messages are written then
  Highest,      \* the last message there can be
  Size,         \* their lengths in bytes
  XW,           \* size of the window (3 in dkp.c)
  LineLimit, ReadLimit,   \* items that make the line, or the read queue, QFULL
  MaxWaiting,   \* bound: messages on the write queue
  MaxBack,      \* bound: replies on their way
  MaxLoss       \* bound: items lost

MaxData == 256  \* "protect against garbage"
None == 0       \* no message; in collected data: a block that lost its head
Least(a, b) == IF a < b THEN a ELSE b
Flags == {"OPENING", "OPEN", "RJING"}

ASSUME UrpAssumption ==
  /\ Firsts \subseteq 1..7 /\ Total \in [Firsts -> Nat \ {0}] /\ XW \in 1..3
  /\ Highest \in Nat /\ \A f \in Firsts : f - 1 + Total[f] <= Highest
  /\ Size \in [1..Highest -> 0..MaxData]
  /\ LineLimit \in Nat /\ ReadLimit \in Nat /\ MaxWaiting \in Nat /\ MaxBack \in Nat /\ MaxLoss \in Nat

VARIABLES
  state, WS, WACK, WNX, xb,           \* struct dkp of the sender,
  first, written, sent, enabled,    \* its write queue and dkposrv
  forth, back,                               \* the lines between the two ends
  inp, indata, trx, trsize, iseq, lastecho,  \* struct dkp of the receiver,
  rq, read,                                  \* its read queue, what it passed on
  losses

windows == <<WS, WACK, WNX, xb>>
writer == <<written, sent, enabled>>
receiver == <<inp, indata, trx, trsize, iseq, lastecho, rq, read>>
vars == <<state, windows, first, writer, forth, back, receiver, losses>>

Item(k, n) == [k |-> k, n |-> n]
ToReceiver == [k: {"DATA"}, n: 1..Highest] \cup [k: {"BOT"}, n: 0..MaxData]
                \cup [k: {"SEQ"}, n: 0..7] \cup {Item("ENQ", 0), Item("INIT1", 0)}
Control == [k: {"ECHO", "REJ", "ACK"}, n: 0..7]

-----------------------------------------------------------------------------
Init ==
  /\ first \in Firsts
  /\ state = IF first = 1 THEN {"OPENING"} ELSE {"OPEN"}
  /\ forth = IF first = 1 THEN <<Item("INIT1", 0)>> ELSE <<>>
  /\ WS = first /\ WACK = first /\ WNX = first
  /\ xb = [i \in 0..7 |-> None]
  /\ written = first - 1 /\ sent = first - 1 /\ enabled = FALSE
  /\ back = <<>>
  /\ inp = <<>> /\ indata = 0 /\ trx = 0 /\ trsize = 0
  /\ iseq = first - 1 /\ lastecho = Item("ECHO", first - 1)
  /\ rq = <<>> /\ read = <<>> /\ losses = 0

-----------------------------------------------------------------------------
(* The sender *)

\* dkpxmit: data, when there are any, trailer and number of message m.
Xmit(m) == IF m = None THEN <<>>
           ELSE IF Size[m] = 0 THEN <<Item("BOT", 0), Item("SEQ", m % 8)>>
           ELSE <<Item("DATA", m), Item("BOT", Size[m]), Item("SEQ", m % 8)>>
\* And of the messages from w on; XW is at most 3.
Resend(w, b) ==
  LET Again(i) == IF i < WNX THEN Xmit(b[i % 8]) ELSE <<>>
  IN Again(w) \o Again(w + 1) \o Again(w + 2)

\* dkpoput
Write ==
  /\ written < first - 1 + Total[first] /\ written - sent < MaxWaiting
  /\ written' = written + 1
  /\ enabled' = (enabled \/ WNX < WS + XW)
  /\ UNCHANGED <<state, windows, first, sent, forth, back, receiver, losses>>

\* dkposrv, a message at a time.
MaySend == "OPENING" \notin state /\ WNX < WS + XW /\ sent < written
Send ==
  /\ enabled /\ MaySend
  /\ sent' = sent + 1 /\ WNX' = WNX + 1
  /\ xb' = [xb EXCEPT ![WNX % 8] = sent + 1]
  /\ forth' = forth \o Xmit(sent + 1)
  /\ UNCHANGED <<state, WS, WACK, first, written, enabled, back, receiver, losses>>
SendEnd ==
  /\ enabled /\ ~MaySend
  /\ enabled' = FALSE
  /\ UNCHANGED <<state, windows, first, written, sent, forth, back, receiver, losses>>

\* Mutant: a number beyond the window is believed.
MeantAhead(n) == IF n + 8 < WNX THEN n + 8 ELSE n
\* dkprack.  Number n is the largest below WNX that it can be.
Meant(n) == IF n >= WNX THEN n - 8 ELSE IF n + 8 < WNX THEN n + 8 ELSE n
Rack(c, n) ==
  LET s == Meant(n)
      ack == IF WACK <= s THEN s + 1 ELSE WACK
      moves == c = "ECHO" /\ WS <= s
      ws == IF moves THEN s + 1 ELSE WS
      wrap == IF ws >= 8 THEN 8 ELSE 0
      again == IF c = "ACK" THEN Resend(ack, xb') ELSE <<>>
  IN /\ xb' = [i \in 0..7 |-> IF \E j \in WS..s : j % 8 = i THEN None ELSE xb[i]]
     /\ WS' = ws - wrap /\ WACK' = ack - wrap /\ WNX' = WNX - wrap
     /\ state' = state \ {"RJING"}
     /\ enabled' = (enabled \/ (moves /\ WNX < ws + XW /\ sent < written))
     /\ forth' = forth \o again

\* dkpiput of the sender, for the replies.
HearAinit ==
  /\ Head(back).k = "AINIT"
  /\ state' = (state \ {"OPENING"}) \cup {"OPEN"}
  /\ enabled' = TRUE
  /\ UNCHANGED <<windows, forth>>
HearRej ==
  /\ Head(back).k = "REJ"
  /\ LET now == (Head(back).n + 1) % 8 = WACK % 8 /\ "RJING" \notin state /\ WACK < WNX
     IN IF now
          THEN /\ state' = state \cup {"RJING"}
               /\ forth' = forth \o Resend(WACK, xb)
          ELSE UNCHANGED <<state, forth>>
  /\ UNCHANGED <<WS, WACK, WNX, xb, enabled>>
HearAck ==
  /\ Head(back).k \in {"ECHO", "ACK"}
  /\ Rack(Head(back).k, Head(back).n)
Hear ==
  /\ back # <<>> /\ back' = Tail(back)
  /\ HearAinit \/ HearRej \/ HearAck
  /\ UNCHANGED <<first, written, sent, receiver, losses>>

\* dkptimer.  The timer runs out while answers are still on their way, too.
Dkptimer ==
  /\ Len(forth) < LineLimit
  /\ \/ "OPENING" \in state /\ forth' = Append(forth, Item("INIT1", 0))
     \/ WS # WNX /\ forth' = Append(forth, Item("ENQ", 0))
  /\ UNCHANGED <<state, windows, first, writer, back, receiver, losses>>

-----------------------------------------------------------------------------
(* The receiver: dkpiput, then dkpisrv when the queue after it has room *)

Full == Len(SelectSeq(rq, LAMBDA x : x.k = "DATA" /\ x.n # <<>>)) >= ReadLimit
Inflush == inp' = <<>> /\ trx' = 0 /\ indata' = 0

\* A block that comes in the middle of a trailer gives it the bytes it lacks,
\* which may or may not spell the length that has come in.
Lacking == IF trx \in {1, 2} THEN 3 - trx ELSE 0
RecvData(m) ==
  LET k == Least(Size[m], Lacking)
      len == Size[m] - k
  IN /\ \/ Full /\ UNCHANGED <<inp, indata, trx, trsize>>
        \/ /\ ~Full /\ len = 0 /\ trx' = trx + k
           /\ IF k = Lacking THEN trsize' \in {indata, indata + 1} ELSE UNCHANGED trsize
           /\ UNCHANGED <<inp, indata>>
        \/ /\ ~Full /\ len > 0 /\ trx' = 0 /\ UNCHANGED trsize
           /\ IF indata > MaxData THEN UNCHANGED <<inp, indata>>
              ELSE /\ inp' = Append(inp, IF k > 0 THEN None ELSE m)
                   /\ indata' = indata + len
     /\ UNCHANGED <<iseq, lastecho, rq, back>>
RecvTrailer(size) ==
  /\ IF Full THEN trx' = 1 /\ UNCHANGED trsize ELSE trx' = 3 /\ trsize' = size
  /\ UNCHANGED <<inp, indata, iseq, lastecho, rq, back>>

\* Mutant: the length in the trailer is not looked at.
AcceptableShort(i) == trx = 3 /\ i = (iseq + 1) % 8
Acceptable(i) == trx = 3 /\ indata = trsize /\ i = (iseq + 1) % 8
RecvSeq(i) ==
  /\ Len(rq) < MaxBack
  /\ Inflush
  /\ IF Acceptable(i)
       THEN /\ iseq' = i
            /\ rq' = rq \o <<Item("DATA", inp), Item("ECHO", i)>>
       ELSE rq' = Append(rq, Item("REJ", iseq)) /\ UNCHANGED iseq
  /\ UNCHANGED <<trsize, lastecho, back>>
\* Mutant: ENQ is answered with what was accepted, not with what was passed on.
RecvEnqEarly ==
  /\ Len(back) < MaxBack
  /\ back' = back \o <<Item("ECHO", iseq), Item("ACK", iseq)>>
  /\ Inflush
  /\ UNCHANGED <<trsize, iseq, lastecho, rq>>
RecvEnq ==
  /\ Len(back) < MaxBack
  /\ back' = back \o <<lastecho, Item("ACK", iseq)>>
  /\ Inflush
  /\ UNCHANGED <<trsize, iseq, lastecho, rq>>
RecvInit ==
  /\ Len(back) < MaxBack
  /\ back' = Append(back, Item("AINIT", 0))
  /\ Inflush /\ iseq' = 0
  /\ UNCHANGED <<trsize, lastecho, rq>>
Recv ==
  /\ forth # <<>> /\ forth' = Tail(forth)
  /\ LET x == Head(forth)
     IN \/ x.k = "DATA" /\ RecvData(x.n)
        \/ x.k = "BOT" /\ RecvTrailer(x.n)
        \/ x.k = "SEQ" /\ RecvSeq(x.n)
        \/ x.k = "ENQ" /\ RecvEnq
        \/ x.k = "INIT1" /\ RecvInit
  /\ UNCHANGED <<state, windows, first, writer, read, losses>>

Dkpisrv ==
  /\ rq # <<>> /\ rq' = Tail(rq)
  /\ IF Head(rq).k = "DATA"
       THEN read' = Append(read, Head(rq).n) /\ UNCHANGED <<lastecho, back>>
       ELSE /\ Len(back) < MaxBack
            /\ lastecho' = Head(rq) /\ back' = Append(back, Head(rq)) /\ UNCHANGED read
  /\ UNCHANGED <<state, windows, first, writer, forth, inp, indata, trx, trsize, iseq,
                 losses>>

-----------------------------------------------------------------------------
\* The lines lose an item; a block dkpxmit cannot allocate is lost as well.
Lose ==
  /\ losses < MaxLoss /\ losses' = losses + 1
  /\ \/ forth # <<>> /\ forth' = Tail(forth) /\ UNCHANGED back
     \/ back # <<>> /\ back' = Tail(back) /\ UNCHANGED forth
  /\ UNCHANGED <<state, windows, first, writer, receiver>>

Next == \/ Write \/ Send \/ SendEnd \/ Hear \/ Dkptimer
        \/ Recv \/ Dkpisrv \/ Lose
Spec == Init /\ [][Next]_vars
\* Interrupts come in, the clock ticks, service procedures are run and the
\* reader goes on reading; the lines lose only so much.  Fairness is strong for
\* the receiver because MaxBack, a bound of the model only, holds it up.
FairSpec == /\ Spec
            /\ WF_vars(Send \/ SendEnd) /\ WF_vars(Hear)
            /\ WF_vars(Dkptimer) /\ SF_vars(Recv) /\ SF_vars(Dkpisrv)

-----------------------------------------------------------------------------
(* Properties *)

TypeOK ==
  /\ first \in Firsts /\ state \subseteq Flags
  /\ WS \in 0..7 /\ WACK \in 0..10 /\ WNX \in 0..10
  /\ xb \in [0..7 -> 0..Highest]
  /\ written \in 0..Highest /\ sent \in 0..Highest
  /\ enabled \in BOOLEAN
  /\ forth \in Seq(ToReceiver) /\ back \in Seq(Control \cup {Item("AINIT", 0)})
  /\ inp \in Seq(0..Highest) /\ indata \in 0..2 * MaxData /\ trx \in 0..3
  /\ trsize \in 0..2 * MaxData + 1 /\ iseq \in 0..7 /\ lastecho \in Control
  /\ rq \in Seq(Control \cup [k: {"DATA"}, n: Seq(0..Highest)])
  /\ read \in Seq(Seq(0..Highest))
  /\ losses \in 0..MaxLoss

\* "invariants: 0 <= WS <= WACK <= WNX; seqno maximal < WNX; WS < 8" (dkp.c:657),
\* no more than XW messages in between, and the buffers of the window are those
\* of the messages that are not acknowledged: "null bp in dkpxmit" and "dkp
\* losing block" are not printed.
Number(w) == w + (sent + 1 - WNX)
WindowOK ==
  /\ TypeOK
  /\ WS <= WACK /\ WACK <= WNX /\ WNX <= WS + XW
  /\ \A i \in 0..7 :
       \/ xb[i] = None /\ ~\E w \in WACK..(WNX - 1) : w % 8 = i
       \/ xb[i] # None /\ xb[i] % 8 = i /\ xb[i] \in Number(WACK)..sent

\* However much is lost, a number is accepted once, after the number before it
\* and only when it has been sent; it is acknowledged when it has been accepted,
\* and the window leaves it behind when what was accepted under it has been given
\* to the reader.
Accepted == Cardinality({j \in DOMAIN rq : rq[j].k = "DATA"}) + Len(read) + first - 1
NumbersAccepted ==
  /\ iseq = Accepted % 8
  /\ Number(WACK) - 1 <= Accepted /\ Accepted <= sent
  /\ Number(WS) - 1 <= Len(read) + first - 1

\* The blocks of message m.
Blocks(m) == IF Size[m] = 0 THEN <<>> ELSE <<m>>
\* What the window has left behind the reader has been given, with its own data
\* ("ECHO: echos, data given to next queue", dkp.c:47).  With one
\* loss it follows from ImplementsCircuit; with two it fails (UrpLosses.cfg).
EchoesTrue ==
  \A m \in first..(Number(WS) - 1) :
    m - first + 1 \in DOMAIN read /\ read[m - first + 1] = Blocks(m)

\* What is written arrives, once, in order, and in the end all of it.  The
\* reader that gets other data than those of the message gets Wrong.
Wrong == 0
Implemented ==
  INSTANCE Circuit WITH
    Messages <- [j \in 1..Highest |-> j],
    written <- written - (first - 1),
    read <- [j \in DOMAIN read |-> IF read[j] = Blocks(first - 1 + j) THEN j ELSE Wrong]
ImplementsCircuit == Implemented!Spec
=============================================================================
