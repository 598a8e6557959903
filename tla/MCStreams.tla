------------------------------ MODULE MCStreams ------------------------------
(* Small instances of Streams for TLC.                                       *)
EXTENDS Streams, TLC

CONSTANTS p1, p2

Couples == {(p1 :> {"write", "push", "close"}) @@ (p2 :> {"read", "pop"}),
            (p1 :> {"ioctl", "push", "close"}) @@ (p2 :> {"ioctl", "close"}),
            (p1 :> {"write", "push"}) @@ (p2 :> {"ioctl"})}
High == [n \in QueueName |-> IF n = "ldw" THEN 2 ELSE 1]
Lower == [n \in QueueName |-> IF n = "ldw" THEN 1 ELSE 0]
=============================================================================
