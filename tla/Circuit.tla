------------------------------- MODULE Circuit -------------------------------
(* What a datakit circuit promises to the processes at its two ends: what is *)
(* written at one end is read at the other, once and in order, and it does   *)
(* arrive.                                                                   *)
EXTENDS Naturals, Sequences

CONSTANT Messages   \* the sequence of the messages that are written

VARIABLES written, read

Init == /\ written \in 0..Len(Messages)
        /\ read = <<>>

Write == /\ written < Len(Messages)
         /\ written' = written + 1
         /\ UNCHANGED read
Read == /\ Len(read) < written
        /\ read' = Append(read, Messages[Len(read) + 1])
        /\ UNCHANGED written

Next == Write \/ Read
Spec == Init /\ [][Next]_<<written, read>> /\ WF_<<written, read>>(Read)
=============================================================================
