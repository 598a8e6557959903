---------------------------- MODULE MCPathNames ----------------------------
(* Small instances of PathNames for TLC.                                   *)
EXTENDS PathNames, TLC

CONSTANTS p1, p2, na, nb

NoEntry == [n \in Names |-> 0]

\* A volume with its root directory only.
EmptyMode == [i \in Inodes |-> IF i = ROOTINO THEN "DIR" ELSE "FREE"]
EmptyDir == [i \in Inodes |-> NoEntry]

\* A file, inode 3, with the name na.
FileMode == [EmptyMode EXCEPT ![3] = "REG"]
FileDir == [EmptyDir EXCEPT ![ROOTINO][na] = 3]

\* A directory, inode 3, with the name na.
SubMode == [EmptyMode EXCEPT ![3] = "DIR"]

\* The file, and a directory, inode 4, with the name nb.
BothMode == [FileMode EXCEPT ![4] = "DIR"]
BothDir == [FileDir EXCEPT ![ROOTINO][nb] = 4]
=============================================================================
