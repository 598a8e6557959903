------------------------------ MODULE MCVolume -------------------------------
(* Small instances of Volume for TLC.                                        *)
EXTENDS Volume, TLC

CONSTANTS p1, p2

Symmetry == Permutations(Proc) \cup Permutations(Name) \cup Permutations(Block)
              \cup Permutations(Ino)
\* Links apart from what takes names, files or blocks away.
Apart == {[p \in Proc |-> {"creat", "link"}]}
  \cup {[p \in Proc |-> {"creat", "unlink", "extend", IF p = q THEN "write" ELSE "trunc"}] :
          q \in Proc}
\* One process makes files and links, the other one truncates.
LinkSymmetry == Permutations(Name) \cup Permutations(Block) \cup Permutations(Ino)
LinkTrunc == {(p1 :> {"creat", "link", "write"}) @@ (p2 :> {"trunc"})}
\* One process removes a name and makes a file, the other one links to the name.
RaceSymmetry == LinkSymmetry
LinkUnlink == {(p1 :> {"creat", "unlink"}) @@ (p2 :> {"link"})}
\* Links and names that go away while blocks are written and given back.
Together == {[p \in Proc |-> IF p = q THEN {"link"}
                             ELSE {"creat", "unlink", "trunc", "write"}] : q \in Proc}
=============================================================================
