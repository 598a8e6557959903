-------------------------------- MODULE MCUrp --------------------------------
(* Small instances of Urp for TLC.                                           *)
EXTENDS Urp

\* Blocks shorter than what a trailer can lack, as long and longer, a message
\* that is its delimiter alone, and two of the same length.
Lengths == [m \in 1..Highest |->
              CASE m = 3 -> 0 [] m = 4 -> 1 [] m \in {1, 8, 9} -> 2 [] OTHER -> 3]
\* A trailer does not tell these apart.
Equal == [m \in 1..Highest |-> 3]
Totals == [f \in Firsts |-> IF f = 7 THEN 3 ELSE 2]
=============================================================================
