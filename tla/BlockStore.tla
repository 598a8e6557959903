----------------------------- MODULE BlockStore -----------------------------
(***************************************************************************)
(* What the buffer cache promises to the file system: blocks with          *)
(* contents, each of them lent to one process at a time.  Every block has  *)
(* its current contents, which a process sees and replaces, and its stable *)
(* contents, which are on the device.  The current contents are sent to    *)
(* the device whenever the cache likes, and arrive in the order in which   *)
(* they were sent.  Only a transfer error can make a block fall back to    *)
(* its stable contents.                                                    *)
(***************************************************************************)
EXTENDS Sequences

CONSTANTS
  Procs, Blks, Vals,
  InitVal,  \* what every block contains at first
  NoBlk,    \* no block is lent to the process
  NoVal,    \* the process has not been shown the contents
  Lossy     \* whether transfers may fail

VARIABLES
  content,  \* the current contents of every block
  way,      \* the contents on their way to the device
  stable,   \* the contents on the device
  lent,     \* the block each process has
  view      \* what it was shown as the contents

vars == <<content, way, stable, lent, view>>

Init ==
  /\ content = [x \in Blks |-> InitVal]
  /\ way = [x \in Blks |-> <<>>]
  /\ stable = [x \in Blks |-> InitVal]
  /\ lent = [p \in Procs |-> NoBlk]
  /\ view = [p \in Procs |-> NoVal]

\* A process is given the block, and sees what it contains or does not look.
Lend(p, x) ==
  /\ lent[p] = NoBlk
  /\ \A q \in Procs : lent[q] # x
  /\ lent' = [lent EXCEPT ![p] = x]
  /\ \E v \in {content[x], NoVal} : view' = [view EXCEPT ![p] = v]
  /\ UNCHANGED <<content, way, stable>>

Return(p) ==
  /\ lent[p] # NoBlk
  /\ lent' = [lent EXCEPT ![p] = NoBlk]
  /\ view' = [view EXCEPT ![p] = NoVal]
  /\ UNCHANGED stable

GiveBack(p) == Return(p) /\ UNCHANGED <<content, way>>

\* It gives back the block with new contents, which are sent at once or later.
Write(p, v) ==
  /\ Return(p)
  /\ content' = [content EXCEPT ![lent[p]] = v]
  /\ \/ way' = [way EXCEPT ![lent[p]] = Append(@, v)]
     \/ UNCHANGED way

Send(x) ==
  /\ \A p \in Procs : lent[p] # x
  /\ way' = [way EXCEPT ![x] = Append(@, content[x])]
  /\ UNCHANGED <<content, stable, lent, view>>

Arrive(x) ==
  /\ way[x] # <<>>
  /\ way' = [way EXCEPT ![x] = Tail(@)]
  /\ stable' = [stable EXCEPT ![x] = Head(way[x])]
  /\ UNCHANGED <<content, lent, view>>

\* The transfer fails.
Lose(x) ==
  /\ Lossy /\ way[x] # <<>>
  /\ way' = [way EXCEPT ![x] = Tail(@)]
  /\ \/ content' = [content EXCEPT ![x] = stable[x]]
     \/ UNCHANGED content
  /\ UNCHANGED <<stable, lent, view>>

Next ==
  \/ \E p \in Procs : \/ \E x \in Blks : Lend(p, x)
                      \/ GiveBack(p)
                      \/ \E v \in Vals : Write(p, v)
  \/ \E x \in Blks : Send(x) \/ Arrive(x) \/ Lose(x)

Spec == Init /\ [][Next]_vars
=============================================================================
