----------------------------- MODULE Dictionary -----------------------------
(***************************************************************************)
(* What a hash table promises: a function from some of the keys to values. *)
(***************************************************************************)
CONSTANTS Keys, Values, Absent

VARIABLE dict   \* the value of each key, or Absent

DcInit == dict = [k \in Keys |-> Absent]

\* insert leaves a key that is there alone, insert_or_assign does not.
DcInsert(k, v) ==
  /\ dict[k] = Absent
  /\ dict' = [dict EXCEPT ![k] = v]
DcAssign(k, v) == dict' = [dict EXCEPT ![k] = v]
DcErase(k) == dict' = [dict EXCEPT ![k] = Absent]
DcClear == dict' = [k \in Keys |-> Absent]

DcNext ==
  \/ \E k \in Keys, v \in Values : DcInsert(k, v) \/ DcAssign(k, v)
  \/ \E k \in Keys : DcErase(k)
  \/ DcClear

DcSpec == DcInit /\ [][DcNext]_dict
=============================================================================
