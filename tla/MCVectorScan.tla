---------------------------- MODULE MCVectorScan ----------------------------
(* VectorScan on a small instance.  One value is enough beside null: what is said *)
(* of a value never looks at the others, which a run with null in their place     *)
(* imitates.                                                                      *)
EXTENDS VectorScan

\* Once every value has been left in a slot given up, nothing is said any more.
NotAllKept == kept # Values
=============================================================================
