----------------------------- MODULE VectorScan -----------------------------
(***************************************************************************)
(* A growable vector under collection: CollectableVector refers to an      *)
(* array (CollectableVectoreUse) of pointer pairs with a `size` for the    *)
(* program and a `scan_size` for the collector, which may shrink only when *)
(* the snapshot is not in use.  One mutator, the collector, and what is in *)
(* the vector at the flip.                                                 *)
(*                                                                         *)
(* The collector's loop over an array is one step: it reads scan_size once *)
(* and nobody else writes the snapshot halves it reads or mends, except to *)
(* make the two halves equal.                                              *)
(***************************************************************************)
EXTENDS Integers

CONSTANTS
  Values, Null,
  Reserved,    \* of the array the vector begins with
  Stride,      \* 1024: a loop that moves elements has a safe point at its multiples
  MaxSize      \* bound on what the program puts in

ASSUME ValuesAssumption == Null \notin Values \cup {"first", "grown"}
ASSUME SizesAssumption ==
  Reserved \in Nat \ {0} /\ Stride \in Nat \ {0} /\ MaxSize \in 1 .. 2 * (Reserved + 1)

Arrays == {"first", "grown"}
ReservedOf(a) == IF a = "first" THEN Reserved ELSE 2 * (Reserved + 1)
Positions == 0 .. MaxSize

VARIABLES
  cell,        \* the pairs of each array
  size, scan_size,
  data,        \* the vector's pointer to its array, a pair too
  held,        \* data_held_for_collect: the array that is copied from, or Null
  move,        \* the loop of reserve and push_front: see Moving
  phase,       \* the phase the mutator runs in
  work,        \* what the collector has still to do in this phase: arrays to walk
  promised,    \* history: what was in the vector at the flip
  followed,    \* history: what the collector followed from there
  displaced,   \* history: what push_front had moved past the end at the flip
  kept, stale, torn    \* history: what has been left in slots, see Kept, Stale and Torn

spoilt == <<kept, stale, torn>>
vector == <<cell, size, scan_size, data, spoilt>>
collection == <<phase, work, promised, followed, displaced>>
vars == <<vector, held, move, collection>>

Pair(v, w) == [cur |-> v, snap |-> w]

\* A loop moves element `at` (and those below) up by `up`, and then `front` comes to 0.
Moving(at, up, front, safe) == [at |-> at, up |-> up, front |-> front, safe |-> safe]
Still == Moving(-2, 0, Null, FALSE)

VsTypeOK ==
  /\ cell \in [Arrays -> [Positions -> [cur : Values \cup {Null}, snap : Values \cup {Null}]]]
  /\ \A a \in Arrays :
       scan_size[a] \in 0 .. ReservedOf(a) /\ size[a] \in 0 .. scan_size[a]
  /\ data \in [cur : Arrays, snap : Arrays]
  /\ held \in {"first", Null}
  /\ move \in [at : -2 .. MaxSize - 1, up : {0, 1}, front : Values \cup {Null}, safe : BOOLEAN]
  /\ phase \in {"NOT_COLLECTING", "COLLECTING", "RESTORING_SNAPSHOT"}
  /\ work \subseteq Arrays
  /\ promised \subseteq Values /\ followed \subseteq Values
  /\ displaced \subseteq Values
  /\ kept \subseteq Values /\ stale \subseteq Values /\ torn \subseteq Values

Init ==
  /\ cell = [a \in Arrays |-> [i \in Positions |-> Pair(Null, Null)]]
  /\ size = [a \in Arrays |-> 0] /\ scan_size = [a \in Arrays |-> 0]
  /\ data = Pair("first", "first")
  /\ held = Null
  /\ move = Still
  /\ phase = "NOT_COLLECTING"
  /\ work = {}
  /\ promised = {} /\ followed = {} /\ displaced = {}
  /\ kept = {} /\ stale = {} /\ torn = {}

-----------------------------------------------------------------------------
(* The mutator. *)

\* The write barriers.
Barrier(p, v) == IF phase = "COLLECTING" THEN Pair(v, p.snap) ELSE Pair(v, v)

\* While a snapshot is followed scan_size only grows.
ScanSize_Follows(a, n) == n
ScanSize(a, n) == IF n > scan_size[a] \/ phase # "COLLECTING" THEN n ELSE scan_size[a]

Unequal(a, I) == {i \in I : cell'[a][i].cur # cell'[a][i].snap}

\* Slots past the new size that have not been cleared.
Kept(a, n) == {cell'[a][i].cur : i \in n .. size[a] - 1} \ {Null}

\* Slots past the new scan_size with two halves that differ, which nobody will restore.
Stale(a, n) == {cell'[a][i].snap : i \in Unequal(a, ScanSize(a, n) .. scan_size[a] - 1)} \ {Null}

\* What a loop copied while a snapshot was followed, if the loop ends when the halves have been
\* mended for this collection: the next flip does not see it.
Torn(a, n) ==
  {cell'[a][i].cur : i \in {j \in Unequal(a, 0 .. n - 1) :
                              phase = "NOT_COLLECTING" /\ a \notin work}} \ {Null}

Resized(a, n) ==
  /\ size' = [size EXCEPT ![a] = n]
  /\ scan_size' = [scan_size EXCEPT ![a] = ScanSize(a, n)]
  /\ kept' = kept \cup Kept(a, n) /\ stale' = stale \cup Stale(a, n)

\* push_back into an array with room.
PushBack(v) ==
  LET a == data.cur  n == size[a] IN
  /\ move = Still
  /\ n < ReservedOf(a) /\ n < MaxSize
  /\ cell' = [cell EXCEPT ![a][n] = Barrier(@, v)]
  /\ Resized(a, n + 1)
  /\ UNCHANGED <<torn, data, held, move, collection>>

\* pop_back, clear and resize with an exemplar to a smaller size: the slots given up become null.
ShrinkTo(n) ==
  LET a == data.cur IN
  /\ move = Still
  /\ n < size[a]
  /\ cell' = [cell EXCEPT ![a] =
       [i \in Positions |-> IF i \in n .. size[a] - 1 THEN Barrier(@[i], Null) ELSE @[i]]]
  /\ Resized(a, n)
  /\ UNCHANGED <<torn, data, held, move, collection>>

\* resize without one: reserve comes first if need be, and the slots are left as they are.
ResizeTo(n) ==
  LET a == data.cur IN
  /\ move = Still
  /\ n # size[a] /\ n <= ReservedOf(a) /\ n <= MaxSize
  /\ UNCHANGED cell
  /\ Resized(a, n)
  /\ UNCHANGED <<torn, data, held, move, collection>>

\* resize with an exemplar to a larger size that is reserved.
FillTo(n, v) ==
  LET a == data.cur IN
  /\ move = Still
  /\ n > size[a] /\ n <= ReservedOf(a) /\ n <= MaxSize
  /\ cell' = [cell EXCEPT ![a] =
       [i \in Positions |-> IF i \in size[a] .. n - 1 THEN Barrier(@[i], v) ELSE @[i]]]
  /\ Resized(a, n)
  /\ UNCHANGED <<torn, data, held, move, collection>>

\* push_front into an empty array is push_back.  With room it moves the last element,
\* and then the others in a loop whose safe points look at the index moved to.
PushFront(v) ==
  LET a == data.cur  n == size[a] IN
  /\ move = Still
  /\ n > 0 /\ n < ReservedOf(a) /\ n < MaxSize
  /\ cell' = [cell EXCEPT ![a][n] = Barrier(@, cell[a][n - 1].cur)]
  /\ move' = Moving(n - 2, 1, v, n > 1 /\ (n - 1) % Stride = 0)
  /\ UNCHANGED <<size, scan_size, spoilt, data, held, collection>>

\* No room: a new array, and a root that holds the old one.  The loop's safe points look
\* at the index moved from.
Grow(up, v) ==
  LET a == data.cur IN
  /\ move = Still
  /\ a = "first"
  /\ size[a] = Reserved /\ Reserved + up <= MaxSize
  /\ held' = a
  /\ data' = Barrier(data, "grown")
  /\ move' = Moving(Reserved - 1, up, v, (Reserved - 1) % Stride = 0)
  /\ UNCHANGED <<cell, size, scan_size, spoilt, collection>>
Reserve == Grow(0, Null)              \* reserve, called by push_back
PushFrontFull(v) == Grow(1, v)        \* push_front

\* The array the elements are read from.
Source == IF held = Null THEN data.cur ELSE held

\* One turn of the loop, from the last element down.
MoveElement ==
  LET i == move.at
      index(j) == IF held = Null THEN j + 1 ELSE j IN
  /\ i >= 0 /\ ~move.safe
  /\ cell' = [cell EXCEPT ![data.cur][i + move.up] = Barrier(@, cell[Source][i].cur)]
  /\ move' = [move EXCEPT !.at = i - 1, !.safe = i > 0 /\ index(i - 1) % Stride = 0]
  /\ UNCHANGED <<size, scan_size, spoilt, data, held, collection>>

\* The safe point in the loop when no phase change is due.
PassSafePoint ==
  /\ move.safe
  /\ move' = [move EXCEPT !.safe = FALSE]
  /\ UNCHANGED <<vector, held, collection>>

\* After the loop: the front element, and update_scan_size.
Finish ==
  LET a == data.cur  n == size[Source] + move.up IN
  /\ move.at = -1
  /\ cell' = IF move.up = 1 THEN [cell EXCEPT ![a][0] = Barrier(@, move.front)] ELSE cell
  /\ Resized(a, n)
  /\ torn' = torn \cup Torn(a, n)
  /\ held' = Null /\ move' = Still
  /\ UNCHANGED <<data, collection>>

-----------------------------------------------------------------------------
(* The collector. *)

\* What is in the vector; an element that push_front has moved past the end included.
Contents ==
  LET n == size[Source] + (IF move # Still /\ held = Null THEN 1 ELSE 0)
  IN  {cell[Source][i].cur : i \in 0 .. n - 1} \ {Null}

\* The last element while push_front has it past the end and scan_size does not reach there.
Displaced ==
  LET a == data.cur  n == size[a] IN
  {v \in {cell[a][n].cur} : move # Still /\ held = Null /\ n >= scan_size[a]} \ {Null}

\* A phase change, with the mutator at a safe point; the work of the last phase is done.
Border ==
  /\ work = {}
  /\ move = Still \/ move.safe
  /\ move' = [move EXCEPT !.safe = FALSE]
  /\ phase' = CASE phase = "NOT_COLLECTING"     -> "COLLECTING"
                [] phase = "COLLECTING"         -> "RESTORING_SNAPSHOT"
                [] phase = "RESTORING_SNAPSHOT" -> "NOT_COLLECTING"
  /\ displaced' = IF phase = "NOT_COLLECTING" THEN Displaced ELSE {}
  /\ IF phase = "NOT_COLLECTING"
     THEN /\ promised' = Contents
          /\ work' = ({data.snap} \cup {held}) \ {Null}
     ELSE /\ promised' = {}
          /\ work' = {"first", data.cur}
  /\ followed' = {}
  /\ UNCHANGED <<vector, held>>

\* Mark from an array of the snapshot: the one the vector's pointer had at the flip,
\* and the one a root held.
Mark(a) ==
  /\ phase = "COLLECTING"
  /\ a \in work
  /\ work' = work \ {a}
  /\ followed' = followed \cup ({cell[a][i].snap : i \in 0 .. scan_size[a] - 1} \ {Null})
  /\ UNCHANGED <<vector, held, move, phase, promised, displaced>>

\* Restore, and then finalize, the pairs of an array, and the vector's own pair.
Restore_BySize(a) ==
  /\ phase # "COLLECTING"
  /\ a \in work
  /\ work' = work \ {a}
  /\ cell' = [cell EXCEPT ![a] =
       [i \in Positions |-> IF i < size[a] THEN Pair(@[i].cur, @[i].cur) ELSE @[i]]]
  /\ data' = Pair(data.cur, data.cur)
  /\ UNCHANGED <<size, scan_size, spoilt, held, move, phase, promised, followed, displaced>>
Restore(a) ==
  /\ phase # "COLLECTING"
  /\ a \in work
  /\ work' = work \ {a}
  /\ cell' = [cell EXCEPT ![a] =
       [i \in Positions |-> IF i < scan_size[a] THEN Pair(@[i].cur, @[i].cur) ELSE @[i]]]
  /\ data' = Pair(data.cur, data.cur)
  /\ UNCHANGED <<size, scan_size, spoilt, held, move, phase, promised, followed, displaced>>

-----------------------------------------------------------------------------
Next ==
  \/ \E v \in Values \cup {Null} : PushBack(v) \/ PushFront(v) \/ PushFrontFull(v)
  \/ \E n \in 0 .. MaxSize : \/ ShrinkTo(n) \/ ResizeTo(n)
                            \/ \E v \in Values \cup {Null} : FillTo(n, v)
  \/ Reserve \/ MoveElement \/ PassSafePoint \/ Finish
  \/ Border
  \/ \E a \in Arrays : Mark(a) \/ Restore(a)

Spec == Init /\ [][Next]_vars

-----------------------------------------------------------------------------
(* What scan_size is for. *)

Marked == phase = "COLLECTING" /\ work = {}

\* Whatever the mutator pushes, pops, clears or moves while the collector marks, everything that
\* was in the vector at the flip is marked from it: its snapshot is part of the "snapshot that
\* the collector follows" (README.md 13).  Two things can be missed and nothing else: the
\* element that a push_front was moving past the end at the flip (1128), and what has been
\* left in a slot by a resize that does not clear (1563) or by a loop that took too long (1577).
NothingMissed ==
  /\ VsTypeOK
  /\ Marked => promised \subseteq followed \cup displaced \cup kept \cup torn

\* Nor does the collector follow more than that: no handle of an earlier collection, whose
\* object may be gone, is in a slot that a later push or resize brings back under scan_size,
\* and a larger vector has null in its new slots; except what was left in slots given up (1060, 1563).
NothingStale ==
  /\ followed \subseteq promised \cup kept \cup stale
  /\ move = Still =>
       \A i \in Positions : i >= size[data.cur] => cell[data.cur][i].cur \in kept \cup {Null}
=============================================================================
