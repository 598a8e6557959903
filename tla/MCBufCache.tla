----------------------------- MODULE MCBufCache -----------------------------
(* Small instances of BufCache for TLC.                                    *)
EXTENDS BufCache, TLC

CONSTANTS p1, p2, p3, b1, b2, b3, x1, x2, x3, d1

\* binit() releases the buffers in order of address, each at the front.
Order2 == <<b2, b1>>
Order3 == <<b3, b2, b1>>
OneDev == [x \in Blks |-> d1]

\* The buffers differ in their first places on the AGE list only, and no
\* property tells them apart.
ProcBufSymmetry == Permutations(Procs) \cup Permutations(Bufs)
Symmetry == ProcBufSymmetry \cup Permutations(Blks)
=============================================================================
