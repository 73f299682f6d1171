---------------------------- MODULE MCScanLists ----------------------------
(* ScanLists on small instances; threads and cells are interchangeable.       *)
EXTENDS ScanLists, TLC

ListSymmetry == Permutations(Threads) \cup Permutations(Cells)
=============================================================================
