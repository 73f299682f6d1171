--------------------------- MODULE MCSnapshotHeap ---------------------------
(* SnapshotHeap on small instances.  Objects are interchangeable, and so are     *)
(* letters; threads are not, if some are busy.                                   *)
EXTENDS SnapshotHeap, TLC

HeapSymmetry == Permutations(Objects) \cup Permutations(Letters)

\* Nothing is claimed of what follows a merge that has left a cell behind.
NothingLeft == ~left
=============================================================================
