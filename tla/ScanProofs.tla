----------------------------- MODULE ScanProofs -----------------------------
(***************************************************************************)
(* Proofs about VectorScan, for any values, any room and any stride of     *)
(* safe points: what the collector can miss of a vector, and what it can   *)
(* follow that is not in it.                                               *)
(*                                                                         *)
(* Then about ScanLists, for any set of threads and any finite set of      *)
(* cells: the circular lists stay whole whatever is linked, unlinked and   *)
(* merged, and the collector's walks miss nothing.                         *)
(***************************************************************************)
EXTENDS VectorScan, ScanLists, DataInduction

-----------------------------------------------------------------------------
(* The inductive invariant *)

Equal(p) == p.cur = p.snap
Pairs == [cur : Values \cup {Null}, snap : Values \cup {Null}]

\* Handles in slots that have been given up.
GivenUp == kept \cup stale \cup {Null}

\* A loop fills the array up to here; until it has, these slots are not in its size.
Top == size[Source] + move.up
Filling(a, i) == move # Still /\ a = data.cur /\ i < Top

SizesOK == size \in [Arrays -> Positions] /\ scan_size \in [Arrays -> Positions]

\* Where a loop is.
MoveOK ==
  /\ move = Still => held = Null
  /\ move # Still =>
       /\ move.at \in -1 .. size[Source] - 1
       /\ Top <= MaxSize /\ Top <= ReservedOf(data.cur)
       /\ held = Null => move.up = 1 /\ move.at <= size[data.cur] - 2
       /\ held # Null => data.cur = "grown"

\* The larger array has no size until it has been filled, and is blank before.
FreshOK ==
  /\ data.cur = "first" \/ held # Null => size["grown"] = 0 /\ scan_size["grown"] = 0
  /\ data.cur = "first" => \A i \in Positions : cell["grown"][i] = Pair(Null, Null)

\* What a loop has copied, and what it has not reached.
CopyOK ==
  held # Null =>
    \A i \in Positions :
      /\ i <= move.at + move.up => cell["grown"][i] = Pair(Null, Null)
      /\ cell["grown"][i].snap \in {cell["grown"][i].cur, Null}
      /\ \/ cell["grown"][i].cur = Null
         \/ \E j \in 0 .. size["first"] - 1 : cell["grown"][i].cur = cell["first"][j].cur

\* The vector's own pointer is mended with the first array.
DataOK == phase # "COLLECTING" => "first" \in work \/ data.cur = data.snap

\* Past the size there is nothing but what was left there.
ClearedOK ==
  \A a \in Arrays, i \in Positions :
    i >= size[a] => cell[a][i].cur \in kept \cup {Null} \/ Filling(a, i)

\* Past the scan_size the snapshot shows nothing else either.
HigherOK ==
  \A a \in Arrays, i \in Positions :
    i >= scan_size[a] => \/ cell[a][i].snap \in GivenUp
                         \/ Filling(a, i) /\ Equal(cell[a][i])

\* Before a flip an array that needs no mending shows in the snapshot what is in it ...
SettledOK ==
  phase = "NOT_COLLECTING" =>
    \A a \in Arrays \ work : \A i \in Positions :
      i < scan_size[a] => cell[a][i].cur \in {cell[a][i].snap, Null} \cup kept \cup torn

\* ... and nothing else.
MendedOK ==
  phase = "NOT_COLLECTING" =>
    \A a \in Arrays \ work : \A i \in Positions :
      i < scan_size[a] => Equal(cell[a][i]) \/ cell[a][i].snap \in GivenUp

\* What has been promised has been followed, or will be from an array still to be walked.
PromiseOK ==
  /\ phase # "COLLECTING" => promised = {} /\ followed = {} /\ displaced = {}
  /\ phase = "COLLECTING" =>
       \A v \in promised : \/ v \in followed \cup displaced \cup kept \cup torn
                           \/ \E a \in work, i \in Positions : i < scan_size[a] /\ cell[a][i].snap = v

\* The snapshot shows only what was promised or given up.
FollowedOK ==
  phase = "COLLECTING" =>
    /\ followed \subseteq promised \cup kept \cup stale
    /\ \A a \in work : \A i \in Positions : cell[a][i].snap \in promised \cup GivenUp

VectorInv ==
  /\ VsTypeOK /\ SizesOK /\ MoveOK /\ FreshOK /\ CopyOK /\ DataOK
  /\ ClearedOK /\ HigherOK /\ SettledOK /\ MendedOK /\ PromiseOK /\ FollowedOK

-----------------------------------------------------------------------------
(* What a mutator writes, and what a new size does *)


\* The mutator writes these slots of the vector's array, through the barrier of its phase.
Written(W) ==
  /\ cell' \in [Arrays -> [Positions -> Pairs]]
  /\ \A b \in Arrays, i \in Positions :
       /\ cell'[b][i] # cell[b][i] => b = data.cur /\ i \in W
       /\ phase = "COLLECTING" => cell'[b][i].snap = cell[b][i].snap
       /\ phase # "COLLECTING" => cell'[b][i] = cell[b][i] \/ Equal(cell'[b][i])

LEMMA Bounds ==
  /\ Reserved \in Nat /\ Reserved > 0 /\ Stride \in Nat /\ Stride > 0
  /\ MaxSize \in Nat /\ MaxSize > 0 /\ MaxSize <= ReservedOf("grown")
  /\ ReservedOf("first") = Reserved
  /\ \A a \in Arrays : ReservedOf(a) \in Nat /\ a # Null
  /\ "first" \in Arrays /\ "grown" \in Arrays
  /\ \A a \in Arrays : a = "first" \/ a = "grown"
  /\ Null \notin Values
BY ValuesAssumption, SizesAssumption DEF ReservedOf, Arrays

LEMMA WriteOne ==
  ASSUME VsTypeOK, NEW i \in Positions, NEW v \in Values \cup {Null},
         cell' = [cell EXCEPT ![data.cur][i] = Barrier(@, v)]
  PROVE  /\ Written({i})
         /\ cell'[data.cur][i].cur = v
         /\ phase # "COLLECTING" => Equal(cell'[data.cur][i])
<1> DEFINE a == data.cur
           new == Barrier(cell[a][i], v)
<1>1. a \in Arrays /\ cell \in [Arrays -> [Positions -> Pairs]]
  BY DEF VsTypeOK, Pairs
<1>2. /\ new \in Pairs /\ new.cur = v
      /\ phase = "COLLECTING" => new.snap = cell[a][i].snap
      /\ phase # "COLLECTING" => Equal(new)
  BY <1>1 DEF Barrier, Pair, Pairs, Equal
<1> HIDE DEF new
<1>3. cell' = [cell EXCEPT ![a] = [cell[a] EXCEPT ![i] = new]]
  BY DEF new
<1>4. /\ cell' \in [Arrays -> [Positions -> Pairs]]
      /\ cell'[a][i] = new
      /\ \A b \in Arrays, j \in Positions : b # a \/ j # i => cell'[b][j] = cell[b][j]
  BY <1>1, <1>2, <1>3
<1> HIDE DEF a
<1>5. Written({i})
  BY <1>2, <1>4 DEF Written, a
<1> QED
  BY <1>2, <1>4, <1>5 DEF a

LEMMA WriteSome ==
  ASSUME VsTypeOK, NEW W \in SUBSET Positions, NEW v \in Values \cup {Null},
         cell' = [cell EXCEPT ![data.cur] =
                    [i \in Positions |-> IF i \in W THEN Barrier(@[i], v) ELSE @[i]]]
  PROVE  /\ Written(W)
         /\ \A i \in W : cell'[data.cur][i].cur = v
<1> DEFINE a == data.cur
           new == [i \in Positions |-> IF i \in W THEN Barrier(cell[a][i], v) ELSE cell[a][i]]
<1>1. a \in Arrays /\ cell \in [Arrays -> [Positions -> Pairs]]
  BY DEF VsTypeOK, Pairs
<1>2. \A i \in Positions :
        /\ new[i] \in Pairs
        /\ i \in W => /\ new[i].cur = v
                      /\ phase = "COLLECTING" => new[i].snap = cell[a][i].snap
                      /\ phase # "COLLECTING" => Equal(new[i])
        /\ i \notin W => new[i] = cell[a][i]
  BY <1>1 DEF Barrier, Pair, Pairs, Equal
<1>3. new \in [Positions -> Pairs]
  BY <1>2
<1>4. cell' = [cell EXCEPT ![a] = new]
  OBVIOUS
<1> HIDE DEF new
<1>5. /\ cell' \in [Arrays -> [Positions -> Pairs]]
      /\ \A b \in Arrays : cell'[b] = IF b = a THEN new ELSE cell[b]
  BY <1>1, <1>3, <1>4
<1> HIDE DEF a
<1>6. Written(W)
  BY <1>2, <1>5 DEF Written, a
<1> QED
  BY <1>1, <1>2, <1>5, <1>6 DEF a

LEMMA ResizedBy ==
  ASSUME VsTypeOK, SizesOK, NEW a \in Arrays, NEW n \in Positions, n <= ReservedOf(a), Resized(a, n),
         cell' \in [Arrays -> [Positions -> Pairs]]
  PROVE  /\ size' \in [Arrays -> Positions] /\ scan_size' \in [Arrays -> Positions]
         /\ \A b \in Arrays : scan_size'[b] \in 0 .. ReservedOf(b) /\ size'[b] \in 0 .. scan_size'[b]
         /\ \A b \in Arrays \ {a} : size'[b] = size[b] /\ scan_size'[b] = scan_size[b]
         /\ size'[a] = n
         /\ phase = "COLLECTING" => scan_size'[a] >= scan_size[a]
         /\ phase # "COLLECTING" => scan_size'[a] = n
         /\ kept \subseteq kept' /\ kept' \subseteq Values
         /\ stale \subseteq stale' /\ stale' \subseteq Values
         /\ \A i \in Positions : i >= scan_size'[a] /\ i < scan_size[a] =>
              Equal(cell'[a][i]) \/ cell'[a][i].snap \in stale' \cup {Null}
         /\ \A i \in Positions : i >= n /\ i < size[a] => cell'[a][i].cur \in kept' \cup {Null}
<1>1. /\ size \in [Arrays -> Positions] /\ scan_size \in [Arrays -> Positions]
      /\ \A b \in Arrays : scan_size[b] \in 0 .. ReservedOf(b) /\ size[b] \in 0 .. scan_size[b]
      /\ n \in Nat /\ MaxSize \in Nat /\ Positions \subseteq Nat
      /\ \A b \in Arrays : ReservedOf(b) \in Nat
  <2>1. MaxSize \in Nat /\ Positions \subseteq Nat /\ n \in Nat /\ \A b \in Arrays : ReservedOf(b) \in Nat
    BY Bounds DEF Positions
  <2>2. size \in [Arrays -> Positions] /\ scan_size \in [Arrays -> Positions]
    BY DEF SizesOK
  <2> QED
    BY <2>1, <2>2 DEF VsTypeOK
<1>2. /\ ScanSize(a, n) \in Positions /\ ScanSize(a, n) >= n /\ ScanSize(a, n) <= ReservedOf(a)
      /\ phase = "COLLECTING" => ScanSize(a, n) >= scan_size[a]
      /\ phase # "COLLECTING" => ScanSize(a, n) = n
  BY <1>1 DEF ScanSize
<1>3. /\ size' = [size EXCEPT ![a] = n]
      /\ scan_size' = [scan_size EXCEPT ![a] = ScanSize(a, n)]
      /\ kept' = kept \cup Kept(a, n) /\ stale' = stale \cup Stale(a, n)
  BY DEF Resized
<1>4. scan_size'[a] = ScanSize(a, n)
  BY <1>1, <1>3
<1>5. n .. size[a] - 1 \subseteq Positions /\ ScanSize(a, n) .. scan_size[a] - 1 \subseteq Positions
  <2>1. /\ size[a] \in 0 .. MaxSize /\ scan_size[a] \in 0 .. MaxSize /\ ScanSize(a, n) \in 0 .. MaxSize
        /\ MaxSize \in Nat /\ n \in Nat
    BY <1>1, <1>2 DEF Positions
  <2> QED
    BY <2>1 DEF Positions
<1>6. Kept(a, n) \subseteq Values /\ Stale(a, n) \subseteq Values
  <2>1. \A i \in Positions : cell'[a][i].cur \in Values \cup {Null} /\ cell'[a][i].snap \in Values \cup {Null}
    BY DEF Pairs
  <2> QED
    BY <2>1, <1>5 DEF Kept, Stale, Unequal
<1>7. ASSUME NEW i \in Positions, i >= scan_size'[a], i < scan_size[a]
      PROVE  Equal(cell'[a][i]) \/ cell'[a][i].snap \in stale' \cup {Null}
  <2>1. i \in ScanSize(a, n) .. scan_size[a] - 1
    BY <1>1, <1>2, <1>4, <1>7
  <2>2. cell'[a][i].cur # cell'[a][i].snap => cell'[a][i].snap \in Stale(a, n) \cup {Null}
    BY <2>1 DEF Stale, Unequal
  <2> QED
    BY <2>2, <1>3 DEF Equal
<1>8. ASSUME NEW i \in Positions, i >= n, i < size[a]
      PROVE  cell'[a][i].cur \in kept' \cup {Null}
  <2>1. i \in n .. size[a] - 1
    BY <1>1, <1>8
  <2>2. cell'[a][i].cur \in Kept(a, n) \cup {Null}
    BY <2>1 DEF Kept
  <2> QED
    BY <2>2, <1>3
<1>9. /\ size' \in [Arrays -> Positions] /\ scan_size' \in [Arrays -> Positions]
      /\ \A b \in Arrays \ {a} : size'[b] = size[b] /\ scan_size'[b] = scan_size[b]
      /\ size'[a] = n
  BY <1>1, <1>2, <1>3
<1>10. \A b \in Arrays : scan_size'[b] \in 0 .. ReservedOf(b) /\ size'[b] \in 0 .. scan_size'[b]
  <2> TAKE b \in Arrays
  <2>1. CASE b = a
    <3>1. scan_size'[a] \in 0 .. ReservedOf(a) /\ n \in 0 .. scan_size'[a]
      <4>1. ReservedOf(a) \in Nat /\ n \in Nat /\ ScanSize(a, n) \in Nat
        BY <1>1, <1>2
      <4> QED
        BY <4>1, <1>2, <1>4
    <3> QED
      BY <2>1, <3>1, <1>9
  <2>2. CASE b # a
    BY <2>2, <1>1, <1>9
  <2> QED
    BY <2>1, <2>2
<1>11. kept \subseteq kept' /\ kept' \subseteq Values /\ stale \subseteq stale' /\ stale' \subseteq Values
  <2>1. kept \subseteq Values /\ stale \subseteq Values
    BY DEF VsTypeOK
  <2> QED
    BY <2>1, <1>3, <1>6
<1>12. /\ phase = "COLLECTING" => scan_size'[a] >= scan_size[a]
       /\ phase # "COLLECTING" => scan_size'[a] = n
  BY <1>2, <1>4
<1> QED
  BY <1>7, <1>8, <1>9, <1>10, <1>11, <1>12

\* What the mutator writes hides nothing from the snapshot and shows nothing to it.
LEMMA WritesAreSafe ==
  ASSUME VectorInv, NEW W, Written(W), UNCHANGED collection,
         kept \subseteq kept', stale \subseteq stale', torn \subseteq torn',
         \A b \in Arrays : phase = "COLLECTING" => scan_size'[b] >= scan_size[b],
         scan_size' \in [Arrays -> Positions]
  PROVE  PromiseOK' /\ FollowedOK'
<1>1. /\ phase' = phase /\ work' = work /\ promised' = promised /\ followed' = followed
      /\ displaced' = displaced /\ work \subseteq Arrays
      /\ scan_size \in [Arrays -> Positions] /\ Positions \subseteq Nat
  <2>1. Positions \subseteq Nat
    BY Bounds DEF Positions
  <2> QED
    BY <2>1 DEF collection, VectorInv, VsTypeOK, SizesOK
<1>2. \A b \in Arrays, i \in Positions : phase = "COLLECTING" => cell'[b][i].snap = cell[b][i].snap
  BY DEF Written
<1>3. PromiseOK'
  <2>1. phase' # "COLLECTING" => promised' = {} /\ followed' = {} /\ displaced' = {}
    BY <1>1 DEF VectorInv, PromiseOK
  <2>2. ASSUME phase' = "COLLECTING", NEW v \in promised,
               v \notin followed \cup displaced \cup kept \cup torn
        PROVE  \E a \in work, i \in Positions : i < scan_size'[a] /\ cell'[a][i].snap = v
    <3>1. phase = "COLLECTING"
      BY <2>2, <1>1
    <3>2. PICK a \in work, i \in Positions : i < scan_size[a] /\ cell[a][i].snap = v
      BY <2>2, <3>1 DEF VectorInv, PromiseOK
    <3>3. a \in Arrays /\ scan_size'[a] >= scan_size[a] /\ scan_size[a] \in Nat /\ scan_size'[a] \in Nat /\ i \in Nat
      BY <1>1, <3>1
    <3> QED
      BY <3>1, <3>2, <3>3, <1>2
  <2> QED
    BY <1>1, <2>1, <2>2 DEF PromiseOK
<1>4. FollowedOK'
  <2> SUFFICES ASSUME phase = "COLLECTING"
               PROVE  /\ followed \subseteq promised \cup kept' \cup stale'
                      /\ \A a \in work : \A i \in Positions : cell'[a][i].snap \in promised \cup GivenUp'
    BY <1>1 DEF FollowedOK
  <2> QED
    BY <1>1, <1>2 DEF VectorInv, FollowedOK, GivenUp
<1> QED
  BY <1>3, <1>4

\* After a new size: the slots above what is written hold only what was left there.
LEMMA AboveTheSize ==
  ASSUME VectorInv, NEW n \in Positions, n <= ReservedOf(data.cur), Resized(data.cur, n),
         NEW W, Written(W),
         \A i \in Positions : Filling(data.cur, i) => i < n,
         \A i \in W : i < n \/ (i < size[data.cur] /\ cell'[data.cur][i].cur = Null)
  PROVE  ClearedOK' /\ HigherOK'
<1> DEFINE a == data.cur
<1>1. /\ VsTypeOK /\ SizesOK /\ a \in Arrays /\ Positions \subseteq Nat /\ n \in Nat
      /\ \A b \in Arrays : size[b] \in Nat /\ scan_size[b] \in Nat /\ size[b] <= scan_size[b]
      /\ \A b \in Arrays : ReservedOf(b) \in Nat
  <2>1. Positions \subseteq Nat /\ n \in Nat /\ \A b \in Arrays : ReservedOf(b) \in Nat
    BY Bounds DEF Positions
  <2> QED
    BY <2>1 DEF VectorInv, VsTypeOK, SizesOK
<1>2. /\ cell' \in [Arrays -> [Positions -> Pairs]]
      /\ \A b \in Arrays, i \in Positions : cell'[b][i] # cell[b][i] => b = a /\ i \in W
  BY DEF Written
<1>3. /\ \A b \in Arrays : scan_size'[b] \in 0 .. ReservedOf(b) /\ size'[b] \in 0 .. scan_size'[b]
      /\ \A b \in Arrays \ {a} : size'[b] = size[b] /\ scan_size'[b] = scan_size[b]
      /\ size'[a] = n
      /\ kept \subseteq kept' /\ stale \subseteq stale'
      /\ \A i \in Positions : i >= scan_size'[a] /\ i < scan_size[a] =>
           Equal(cell'[a][i]) \/ cell'[a][i].snap \in stale' \cup {Null}
      /\ \A i \in Positions : i >= n /\ i < size[a] => cell'[a][i].cur \in kept' \cup {Null}
  BY <1>1, <1>2, ResizedBy
<1>4. n <= scan_size'[a] /\ scan_size'[a] \in Nat
  BY <1>1, <1>3
<1>5. ASSUME NEW i \in Positions, i >= n, i >= size[a]
      PROVE  cell'[a][i] = cell[a][i]
  <2>1. ~(i < n) /\ ~(i < size[a])
    BY <1>1, <1>5
  <2> QED
    BY <2>1, <1>1, <1>2
<1>6. \A b \in Arrays, i \in Positions : Filling(b, i) => b = a /\ ~(i >= n)
  <2> TAKE b \in Arrays, i \in Positions
  <2>1. Filling(b, i) => b = a /\ i < n
    BY DEF Filling
  <2> QED
    BY <2>1, <1>1
<1> HIDE DEF a
<1>7. ASSUME NEW b \in Arrays, NEW i \in Positions, i >= size'[b]
      PROVE  cell'[b][i].cur \in kept' \cup {Null}
  <2>1. CASE b # a
    <3>1. i >= size[b] /\ cell'[b][i] = cell[b][i]
      BY <2>1, <1>2, <1>3, <1>7
    <3> QED
      BY <2>1, <3>1, <1>3, <1>6 DEF VectorInv, ClearedOK
  <2>2. CASE b = a /\ i < size[a]
    BY <2>2, <1>3, <1>7
  <2>3. CASE b = a /\ i >= size[a]
    <3>1. i >= n /\ cell'[a][i] = cell[a][i]
      BY <2>3, <1>3, <1>5, <1>7
    <3> QED
      BY <2>3, <3>1, <1>1, <1>3, <1>6 DEF VectorInv, ClearedOK
  <2>4. i < size[a] \/ i >= size[a]
    <3>1. i \in Nat /\ size[a] \in Nat
      BY <1>1
    <3> QED
      BY <3>1
  <2> QED
    BY <2>1, <2>2, <2>3, <2>4
<1>8. ASSUME NEW b \in Arrays, NEW i \in Positions, i >= scan_size'[b]
      PROVE  cell'[b][i].snap \in GivenUp'
  <2>1. CASE b # a
    <3>1. i >= scan_size[b] /\ cell'[b][i] = cell[b][i]
      BY <2>1, <1>2, <1>3, <1>8
    <3> QED
      BY <2>1, <3>1, <1>3, <1>6 DEF VectorInv, HigherOK, GivenUp
  <2>2. CASE b = a /\ i < scan_size[a]
    <3>1. CASE Equal(cell'[a][i])
      <4>1. i >= size'[a]
        <5>1. i \in Nat /\ i >= scan_size'[a] /\ scan_size'[a] \in Nat /\ size'[a] = n /\ n \in Nat
          BY <1>1, <1>3, <1>4, <1>8, <2>2
        <5> QED
          BY <5>1, <1>4
      <4> QED
        BY <2>2, <3>1, <4>1, <1>1, <1>7 DEF Equal, GivenUp
    <3>2. CASE ~Equal(cell'[a][i])
      BY <2>2, <3>2, <1>3, <1>8 DEF GivenUp
    <3> QED
      BY <3>1, <3>2
  <2>3. CASE b = a /\ i >= scan_size[a]
    <3>1. i >= n /\ i >= size[a]
      <4>1. /\ i \in Nat /\ i >= scan_size'[a] /\ scan_size'[a] \in Nat /\ n \in Nat
            /\ size[a] \in Nat /\ scan_size[a] \in Nat /\ size[a] <= scan_size[a] /\ i >= scan_size[a]
        BY <1>1, <1>4, <1>8, <2>3
      <4> QED
        BY <4>1, <1>4
    <3>2. cell'[a][i] = cell[a][i]
      BY <3>1, <1>5
    <3> QED
      BY <2>3, <3>1, <3>2, <1>1, <1>3, <1>6 DEF VectorInv, HigherOK, GivenUp
  <2>4. i < scan_size[a] \/ i >= scan_size[a]
    <3>1. i \in Nat /\ scan_size[a] \in Nat
      BY <1>1
    <3> QED
      BY <3>1
  <2> QED
    BY <2>1, <2>2, <2>3, <2>4
<1> QED
  BY <1>7, <1>8 DEF ClearedOK, HigherOK

\* An operation that is one step: it fills slots below the new size, or nulls those given up.
LEMMA StillStep ==
  ASSUME VectorInv, move = Still, NEW W \in SUBSET Positions, Written(W),
         NEW n \in Positions, n <= ReservedOf(data.cur), Resized(data.cur, n),
         UNCHANGED <<torn, data, held, move, collection>>,
         \A i \in W : i < n \/ (i < size[data.cur] /\ cell'[data.cur][i].cur = Null)
  PROVE  VectorInv'
<1> DEFINE a == data.cur
<1>1. /\ data' = data /\ held' = held /\ move' = move /\ phase' = phase /\ work' = work
      /\ promised' = promised /\ followed' = followed /\ displaced' = displaced /\ torn' = torn
      /\ VsTypeOK /\ SizesOK /\ held = Null /\ a \in Arrays
      /\ size \in [Arrays -> Positions] /\ scan_size \in [Arrays -> Positions]
      /\ \A b \in Arrays : size[b] <= scan_size[b]
  <2>1. held = Null
    BY DEF VectorInv, MoveOK
  <2>2. \A b \in Arrays : scan_size[b] \in Nat
    BY Bounds DEF VectorInv, SizesOK, Positions
  <2> QED
    BY <2>1, <2>2 DEF VectorInv, VsTypeOK, SizesOK, collection
<1>2. Positions \subseteq Nat /\ n \in Nat
  BY Bounds DEF Positions
<1>3. /\ cell' \in [Arrays -> [Positions -> Pairs]]
      /\ \A b \in Arrays, i \in Positions :
           /\ cell'[b][i] # cell[b][i] => b = a /\ i \in W
           /\ phase # "COLLECTING" => cell'[b][i] = cell[b][i] \/ Equal(cell'[b][i])
  BY DEF Written
<1>4. /\ size' \in [Arrays -> Positions] /\ scan_size' \in [Arrays -> Positions]
      /\ \A b \in Arrays : scan_size'[b] \in 0 .. ReservedOf(b) /\ size'[b] \in 0 .. scan_size'[b]
      /\ \A b \in Arrays \ {a} : size'[b] = size[b] /\ scan_size'[b] = scan_size[b]
      /\ size'[a] = n
      /\ phase = "COLLECTING" => scan_size'[a] >= scan_size[a]
      /\ phase # "COLLECTING" => scan_size'[a] = n
      /\ kept \subseteq kept' /\ kept' \subseteq Values /\ stale \subseteq stale' /\ stale' \subseteq Values
  BY <1>1, <1>3, ResizedBy
<1>5. \A b \in Arrays : phase = "COLLECTING" => scan_size'[b] >= scan_size[b]
  BY <1>1, <1>2, <1>4
<1>6. PromiseOK' /\ FollowedOK'
  BY <1>1, <1>4, <1>5, WritesAreSafe
<1>7. \A b \in Arrays, i \in Positions : ~Filling(b, i)
  BY DEF Filling
<1>8. ClearedOK' /\ HigherOK'
  BY <1>7, <1>1, AboveTheSize
<1> HIDE DEF a
<1>9. VsTypeOK'
  BY <1>1, <1>3, <1>4 DEF VsTypeOK, Pairs
<1>10. SizesOK' /\ MoveOK' /\ CopyOK' /\ DataOK'
  <2>1. SizesOK'
    BY <1>4 DEF SizesOK
  <2>2. MoveOK'
    BY <1>1 DEF MoveOK
  <2>3. CopyOK'
    BY <1>1 DEF CopyOK
  <2>4. DataOK'
    BY <1>1 DEF VectorInv, DataOK
  <2> QED
    BY <2>1, <2>2, <2>3, <2>4
<1>11. FreshOK'
  <2> SUFFICES ASSUME data.cur = "first"
               PROVE  /\ size'["grown"] = 0 /\ scan_size'["grown"] = 0
                      /\ \A i \in Positions : cell'["grown"][i] = Pair(Null, Null)
    BY <1>1 DEF FreshOK
  <2>1. a # "grown" /\ "grown" \in Arrays
    BY Bounds DEF a
  <2> QED
    BY <2>1, <1>3, <1>4 DEF VectorInv, FreshOK
<1>12. ASSUME phase = "NOT_COLLECTING", NEW b \in Arrays \ work, NEW i \in Positions
       PROVE  /\ cell[b][i].cur \in {cell[b][i].snap, Null} \cup kept \cup torn
              /\ Equal(cell[b][i]) \/ cell[b][i].snap \in GivenUp
  <2>1. CASE i < scan_size[b]
    BY <2>1, <1>12 DEF VectorInv, SettledOK, MendedOK
  <2>2. CASE i >= scan_size[b]
    <3>1. i >= size[b]
      <4>1. i \in Nat /\ size[b] \in Nat /\ scan_size[b] \in Nat /\ size[b] <= scan_size[b]
        BY <1>1, <1>2
      <4> QED
        BY <4>1, <2>2
    <3> QED
      BY <2>2, <3>1, <1>7 DEF VectorInv, ClearedOK, HigherOK
  <2>3. i < scan_size[b] \/ i >= scan_size[b]
    <3>1. i \in Nat /\ scan_size[b] \in Nat
      BY <1>1, <1>2
    <3> QED
      BY <3>1
  <2> QED
    BY <2>1, <2>2, <2>3
<1>13. ASSUME phase = "NOT_COLLECTING", NEW b \in Arrays \ work, NEW i \in Positions
       PROVE  /\ cell'[b][i].cur \in {cell'[b][i].snap, Null} \cup kept \cup torn
              /\ Equal(cell'[b][i]) \/ cell'[b][i].snap \in GivenUp
  BY <1>3, <1>12, <1>13 DEF Equal
<1>14. SettledOK' /\ MendedOK'
  BY <1>1, <1>4, <1>13 DEF SettledOK, MendedOK, Equal, GivenUp
<1> QED
  BY <1>6, <1>8, <1>9, <1>10, <1>11, <1>14 DEF VectorInv

LEMMA StateTypes ==
  ASSUME VectorInv
  PROVE  /\ VsTypeOK /\ data.cur \in Arrays /\ data.snap \in Arrays
         /\ Positions \subseteq Nat /\ size[data.cur] \in Positions
         /\ \A b \in Arrays : /\ size[b] \in Nat /\ scan_size[b] \in Nat /\ size[b] <= scan_size[b]
                              /\ size[b] \in Positions /\ scan_size[b] \in Positions
                              /\ ReservedOf(b) \in Nat
         /\ cell \in [Arrays -> [Positions -> Pairs]]
<1>1. Positions \subseteq Nat /\ \A b \in Arrays : ReservedOf(b) \in Nat
  BY Bounds DEF Positions
<1>2. /\ data.cur \in Arrays /\ data.snap \in Arrays /\ cell \in [Arrays -> [Positions -> Pairs]]
      /\ VsTypeOK
  BY DEF VectorInv, VsTypeOK, Pairs
<1>3. \A b \in Arrays : size[b] \in Positions /\ scan_size[b] \in Positions
  BY DEF VectorInv, SizesOK
<1>4. \A b \in Arrays : size[b] \in Nat /\ scan_size[b] \in Nat /\ size[b] <= scan_size[b]
  BY <1>1, <1>3 DEF VectorInv, VsTypeOK
<1> QED
  BY <1>1, <1>2, <1>3, <1>4

LEMMA InvPushBack ==
  ASSUME VectorInv, NEW v \in Values \cup {Null}, PushBack(v)
  PROVE  VectorInv'
<1> DEFINE a == data.cur
           n == size[a]
<1>1. /\ move = Still /\ n < ReservedOf(a) /\ n < MaxSize
      /\ cell' = [cell EXCEPT ![a][n] = Barrier(@, v)]
      /\ Resized(a, n + 1) /\ UNCHANGED <<torn, data, held, move, collection>>
  BY DEF PushBack
<1>2. n \in Positions /\ n + 1 \in Positions /\ n + 1 <= ReservedOf(a)
  <2>1. n \in Nat /\ MaxSize \in Nat /\ ReservedOf(a) \in Nat
    BY StateTypes, Bounds
  <2> QED
    BY <2>1, <1>1 DEF Positions
<1>3. Written({n})
  BY <1>1, <1>2, StateTypes, WriteOne
<1>4. \A i \in {n} : i < n + 1
  BY <1>2, StateTypes
<1> HIDE DEF n
<1> QED
  BY <1>1, <1>2, <1>3, <1>4, StillStep

LEMMA InvShrinkTo ==
  ASSUME VectorInv, NEW n \in Positions, ShrinkTo(n)
  PROVE  VectorInv'
<1> DEFINE a == data.cur
           W == n .. size[a] - 1
<1>1. /\ move = Still /\ n < size[a]
      /\ cell' = [cell EXCEPT ![a] = [i \in Positions |-> IF i \in W THEN Barrier(@[i], Null) ELSE @[i]]]
      /\ Resized(a, n) /\ UNCHANGED <<torn, data, held, move, collection>>
  BY DEF ShrinkTo
<1>2. size[a] \in Positions /\ size[a] \in Nat /\ n \in Nat /\ MaxSize \in Nat /\ ReservedOf(a) \in Nat
      /\ size[a] <= ReservedOf(a)
  <2>1. size[a] \in Positions /\ size[a] \in Nat /\ n \in Nat /\ MaxSize \in Nat /\ ReservedOf(a) \in Nat
    BY StateTypes, Bounds
  <2>2. scan_size[a] \in 0 .. ReservedOf(a) /\ size[a] \in 0 .. scan_size[a]
    BY StateTypes DEF VsTypeOK
  <2> QED
    BY <2>1, <2>2
<1>3. W \in SUBSET Positions /\ n <= ReservedOf(a) /\ \A i \in W : i < size[a]
  BY <1>1, <1>2 DEF Positions
<1> HIDE DEF W
<1>4. Written(W) /\ \A i \in W : cell'[a][i].cur = Null
  BY <1>1, <1>3, StateTypes, WriteSome
<1> QED
  BY <1>1, <1>3, <1>4, StillStep

LEMMA InvResizeTo ==
  ASSUME VectorInv, NEW n \in Positions, ResizeTo(n)
  PROVE  VectorInv'
<1>1. /\ move = Still /\ n <= ReservedOf(data.cur) /\ cell' = cell
      /\ Resized(data.cur, n) /\ UNCHANGED <<torn, data, held, move, collection>>
  BY DEF ResizeTo
<1>2. Written({})
  BY <1>1, StateTypes DEF Written
<1> QED
  BY <1>1, <1>2, StillStep

LEMMA InvFillTo ==
  ASSUME VectorInv, NEW n \in Positions, NEW v \in Values \cup {Null}, FillTo(n, v)
  PROVE  VectorInv'
<1> DEFINE a == data.cur
           W == size[a] .. n - 1
<1>1. /\ move = Still /\ n <= ReservedOf(a)
      /\ cell' = [cell EXCEPT ![a] = [i \in Positions |-> IF i \in W THEN Barrier(@[i], v) ELSE @[i]]]
      /\ Resized(a, n) /\ UNCHANGED <<torn, data, held, move, collection>>
  BY DEF FillTo
<1>2. size[a] \in Nat /\ n \in Nat /\ MaxSize \in Nat
  BY StateTypes, Bounds
<1>3. W \in SUBSET Positions /\ \A i \in W : i < n
  BY <1>2 DEF Positions
<1> HIDE DEF W
<1>4. Written(W)
  BY <1>1, <1>3, StateTypes, WriteSome
<1> QED
  BY <1>1, <1>3, <1>4, StillStep


\* A step of a loop: one slot below the top is written, and no size changes.
LEMMA LoopStep ==
  ASSUME VectorInv, NEW k \in Positions, Written({k}), k < Top',
         UNCHANGED <<size, scan_size, spoilt, data, held, collection>>,
         move' # Still, move # Still => Top' = Top,
         k >= scan_size[data.cur] => cell[data.cur][k].snap \in GivenUp,
         move' \in [at : -2 .. MaxSize - 1, up : {0, 1}, front : Values \cup {Null}, safe : BOOLEAN]
  PROVE  /\ VsTypeOK' /\ SizesOK' /\ FreshOK' /\ DataOK' /\ ClearedOK' /\ SettledOK'
         /\ PromiseOK' /\ HigherOK' /\ MendedOK' /\ FollowedOK'
<1> DEFINE a == data.cur
<1>1. /\ size' = size /\ scan_size' = scan_size /\ data' = data /\ held' = held
      /\ kept' = kept /\ stale' = stale /\ torn' = torn /\ GivenUp' = GivenUp
      /\ phase' = phase /\ work' = work /\ promised' = promised /\ followed' = followed
      /\ displaced' = displaced
  BY DEF collection, spoilt, GivenUp
<1>2. /\ cell' \in [Arrays -> [Positions -> Pairs]]
      /\ \A b \in Arrays, i \in Positions :
           /\ cell'[b][i] # cell[b][i] => b = a /\ i = k
           /\ phase = "COLLECTING" => cell'[b][i].snap = cell[b][i].snap
           /\ phase # "COLLECTING" => cell'[b][i] = cell[b][i] \/ Equal(cell'[b][i])
  BY DEF Written
<1>3. /\ \A b \in Arrays, i \in Positions : Filling(b, i) => Filling(b, i)'
      /\ \A b \in Arrays, i \in Positions : b = a /\ i = k => Filling(b, i)'
  BY <1>1 DEF Filling
<1>4. PromiseOK' /\ FollowedOK'
  <2>1. \A b \in Arrays : scan_size'[b] >= scan_size[b]
    BY <1>1, StateTypes
  <2>2. scan_size' \in [Arrays -> Positions]
    BY <1>1 DEF VectorInv, SizesOK
  <2> QED
    BY <1>1, <2>1, <2>2, WritesAreSafe
<1>5. VsTypeOK' /\ SizesOK'
  <2>1. SizesOK'
    BY <1>1 DEF VectorInv, SizesOK
  <2>2. VsTypeOK'
    BY <1>1, <1>2 DEF VectorInv, VsTypeOK, Pairs
  <2> QED
    BY <2>1, <2>2
<1>6. DataOK'
  BY <1>1 DEF VectorInv, DataOK
<1>7. k >= scan_size[a] => cell[a][k].snap \in GivenUp
  OBVIOUS
<1> HIDE DEF a
<1>8. FreshOK'
  <2>1. ASSUME data.cur = "first", NEW i \in Positions
        PROVE  cell'["grown"][i] = cell["grown"][i]
    BY <2>1, <1>2, Bounds DEF a
  <2> QED
    BY <1>1, <2>1 DEF VectorInv, FreshOK
<1>9. ClearedOK'
  <2> SUFFICES ASSUME NEW b \in Arrays, NEW i \in Positions, i >= size[b]
               PROVE  cell'[b][i].cur \in kept \cup {Null} \/ Filling(b, i)'
    BY <1>1 DEF ClearedOK
  <2>1. cell[b][i].cur \in kept \cup {Null} \/ Filling(b, i)
    BY DEF VectorInv, ClearedOK
  <2> QED
    BY <2>1, <1>2, <1>3
<1>10. SettledOK'
  <2> SUFFICES ASSUME phase = "NOT_COLLECTING", NEW b \in Arrays \ work, NEW i \in Positions, i < scan_size[b]
               PROVE  cell'[b][i].cur \in {cell'[b][i].snap, Null} \cup kept \cup torn
    BY <1>1 DEF SettledOK
  <2>1. cell[b][i].cur \in {cell[b][i].snap, Null} \cup kept \cup torn
    BY DEF VectorInv, SettledOK
  <2> QED
    BY <2>1, <1>2 DEF Equal
<1>11. MendedOK'
  <2> SUFFICES ASSUME phase = "NOT_COLLECTING", NEW b \in Arrays \ work, NEW i \in Positions, i < scan_size[b]
               PROVE  Equal(cell'[b][i]) \/ cell'[b][i].snap \in GivenUp
    BY <1>1 DEF MendedOK, Equal
  <2>1. Equal(cell[b][i]) \/ cell[b][i].snap \in GivenUp
    BY DEF VectorInv, MendedOK
  <2> QED
    BY <2>1, <1>2 DEF Equal
<1>12. HigherOK'
  <2> SUFFICES ASSUME NEW b \in Arrays, NEW i \in Positions, i >= scan_size[b]
               PROVE  cell'[b][i].snap \in GivenUp \/ (Filling(b, i)' /\ Equal(cell'[b][i]))
    BY <1>1 DEF HigherOK, Equal
  <2>1. cell[b][i].snap \in GivenUp \/ (Filling(b, i) /\ Equal(cell[b][i]))
    BY DEF VectorInv, HigherOK
  <2>2. CASE cell'[b][i] = cell[b][i]
    BY <2>1, <2>2, <1>3 DEF Equal
  <2>3. CASE cell'[b][i] # cell[b][i]
    <3>1. b = a /\ i = k
      BY <2>3, <1>2
    <3>2. Filling(b, i)'
      BY <3>1, <1>3
    <3>3. cell[b][i].snap \in GivenUp
      BY <3>1, <1>7
    <3>4. cell'[b][i].snap = cell[b][i].snap \/ Equal(cell'[b][i])
      BY <2>3, <1>2
    <3> QED
      BY <3>2, <3>3, <3>4
  <2> QED
    BY <2>2, <2>3
<1> QED
  BY <1>4, <1>5, <1>6, <1>8, <1>9, <1>10, <1>11, <1>12

LEMMA NotStill ==
  /\ \A at, up, front, safe : at # -2 => Moving(at, up, front, safe) # Still
  /\ Still.at = -2 /\ Still.safe = FALSE
BY DEF Moving, Still

LEMMA InvPushFront ==
  ASSUME VectorInv, NEW v \in Values \cup {Null}, PushFront(v)
  PROVE  VectorInv'
<1> DEFINE a == data.cur
           n == size[a]
<1>1. /\ move = Still /\ n > 0 /\ n < ReservedOf(a) /\ n < MaxSize
      /\ cell' = [cell EXCEPT ![a][n] = Barrier(@, cell[a][n - 1].cur)]
      /\ move' = Moving(n - 2, 1, v, n > 1 /\ (n - 1) % Stride = 0)
      /\ UNCHANGED <<size, scan_size, spoilt, data, held, collection>>
  BY DEF PushFront
<1>2. /\ n \in Nat /\ n \in Positions /\ n - 1 \in Positions /\ MaxSize \in Nat /\ ReservedOf(a) \in Nat
      /\ a \in Arrays
  <2>1. n \in Nat /\ MaxSize \in Nat /\ a \in Arrays /\ ReservedOf(a) \in Nat
    BY StateTypes, Bounds
  <2> QED
    BY <2>1, <1>1 DEF Positions
<1>3. held = Null /\ held' = Null /\ data' = data /\ size' = size
  BY <1>1 DEF VectorInv, MoveOK
<1>4. /\ move'.at = n - 2 /\ move'.up = 1 /\ move' # Still
      /\ move' \in [at : -2 .. MaxSize - 1, up : {0, 1}, front : Values \cup {Null}, safe : BOOLEAN]
  <2>1. PICK s \in BOOLEAN : move' = Moving(n - 2, 1, v, s)
    BY <1>1
  <2>2. n - 2 \in -2 .. MaxSize - 1 /\ n - 2 # -2
    BY <1>1, <1>2
  <2> HIDE DEF n
  <2> QED
    BY <2>1, <2>2, NotStill DEF Moving
<1>5. Top' = n + 1 /\ Source' = a
  BY <1>3, <1>4 DEF Top, Source
<1>6. Written({n})
  <2>1. PICK w \in Values \cup {Null} : w = cell[a][n - 1].cur
    BY <1>2, StateTypes DEF Pairs
  <2>2. cell' = [cell EXCEPT ![data.cur][n] = Barrier(@, w)] /\ VsTypeOK
    BY <1>1, <2>1, StateTypes
  <2> HIDE DEF n
  <2> QED
    BY <1>2, <2>2, WriteOne
<1>7. n >= scan_size[a] => cell[a][n].snap \in GivenUp
  <2>1. ~Filling(a, n)
    BY <1>1 DEF Filling
  <2> QED
    BY <1>2, <2>1 DEF VectorInv, HigherOK
<1> HIDE DEF n, a
<1>8. /\ VsTypeOK' /\ SizesOK' /\ FreshOK' /\ DataOK' /\ ClearedOK' /\ SettledOK'
      /\ PromiseOK' /\ HigherOK' /\ MendedOK' /\ FollowedOK'
  <2>1. n < Top'
    BY <1>2, <1>5
  <2> QED
    BY <1>1, <1>2, <1>4, <1>6, <1>7, <2>1, LoopStep DEF a
<1>9. MoveOK'
  <2>1. /\ move'.at \in -1 .. n - 1 /\ move'.at <= n - 2
        /\ n + 1 <= MaxSize /\ n + 1 <= ReservedOf(a)
    BY <1>1, <1>2, <1>4
  <2> QED
    BY <2>1, <1>3, <1>4, <1>5 DEF MoveOK, a, n
<1>10. CopyOK'
  BY <1>3 DEF CopyOK
<1> QED
  BY <1>8, <1>9, <1>10 DEF VectorInv

LEMMA InvGrow ==
  ASSUME VectorInv, NEW up \in {0, 1}, NEW v \in Values \cup {Null}, Grow(up, v)
  PROVE  VectorInv'
<1>1. /\ move = Still /\ data.cur = "first"
      /\ size["first"] = Reserved /\ Reserved + up <= MaxSize
      /\ held' = "first" /\ data' = Barrier(data, "grown")
      /\ move' = Moving(Reserved - 1, up, v, (Reserved - 1) % Stride = 0)
      /\ cell' = cell /\ size' = size /\ scan_size' = scan_size
      /\ kept' = kept /\ stale' = stale /\ torn' = torn /\ GivenUp' = GivenUp
      /\ phase' = phase /\ work' = work /\ promised' = promised /\ followed' = followed
      /\ displaced' = displaced
  BY DEF Grow, collection, spoilt, GivenUp
<1>2. held = Null /\ held' # Null
  BY <1>1, Bounds DEF VectorInv, MoveOK
<1>3. Reserved \in Nat /\ Reserved > 0 /\ Reserved <= MaxSize /\ MaxSize \in Nat
  BY <1>1, Bounds
<1>4. /\ move'.at = Reserved - 1 /\ move'.up = up /\ move' # Still
      /\ move' \in [at : -2 .. MaxSize - 1, up : {0, 1}, front : Values \cup {Null}, safe : BOOLEAN]
  <2>1. PICK s \in BOOLEAN : move' = Moving(Reserved - 1, up, v, s)
    BY <1>1
  <2>2. Reserved - 1 \in -2 .. MaxSize - 1 /\ Reserved - 1 # -2
    BY <1>3
  <2> QED
    BY <2>1, <2>2, NotStill DEF Moving
<1>5. /\ data'.cur = "grown" /\ data' \in [cur : Arrays, snap : Arrays]
      /\ phase # "COLLECTING" => data'.snap = "grown"
  BY <1>1, StateTypes, Bounds DEF Barrier, Pair
<1>6. Source' = "first" /\ Top' = Reserved + up
  BY <1>1, <1>2, <1>4 DEF Source, Top
<1>7. /\ size["grown"] = 0 /\ scan_size["grown"] = 0
      /\ \A i \in Positions : cell["grown"][i] = Pair(Null, Null)
  BY <1>1 DEF VectorInv, FreshOK
<1>8. VsTypeOK' /\ SizesOK'
  <2>1. SizesOK'
    BY <1>1 DEF VectorInv, SizesOK
  <2>2. VsTypeOK'
    BY <1>1, <1>4, <1>5 DEF VectorInv, VsTypeOK
  <2> QED
    BY <2>1, <2>2
<1>9. MoveOK'
  <2>1. /\ move'.at \in -1 .. Reserved - 1
        /\ Top' <= MaxSize /\ Top' <= ReservedOf("grown")
    BY <1>1, <1>3, <1>4, <1>6, Bounds
  <2> QED
    BY <2>1, <1>1, <1>2, <1>4, <1>5, <1>6 DEF MoveOK
<1>10. FreshOK'
  BY <1>1, <1>5, <1>7 DEF FreshOK
<1>11. CopyOK'
  BY <1>1, <1>7 DEF CopyOK, Pair
<1>12. DataOK'
  BY <1>1, <1>5 DEF DataOK
<1>13. \A b \in Arrays, i \in Positions : ~Filling(b, i)
  BY <1>1 DEF Filling
<1>14. ClearedOK' /\ HigherOK'
  BY <1>1, <1>13 DEF VectorInv, ClearedOK, HigherOK, Equal
<1>15. SettledOK' /\ PromiseOK'
  BY <1>1 DEF VectorInv, SettledOK, PromiseOK
<1>16. MendedOK' /\ FollowedOK'
  BY <1>1 DEF VectorInv, MendedOK, FollowedOK, Equal
<1> QED
  BY <1>8, <1>9, <1>10, <1>11, <1>12, <1>14, <1>15, <1>16 DEF VectorInv

\* In the middle of a loop.
LEMMA InLoop ==
  ASSUME VectorInv, move # Still
  PROVE  /\ move \in [at : -2 .. MaxSize - 1, up : {0, 1}, front : Values \cup {Null}, safe : BOOLEAN]
         /\ Source \in Arrays /\ size[Source] \in Nat /\ move.up \in {0, 1} /\ Top \in Nat
         /\ Top = size[Source] + move.up
         /\ move.at \in -1 .. size[Source] - 1
         /\ Top <= MaxSize /\ Top <= ReservedOf(data.cur)
         /\ held = Null => Source = data.cur /\ move.up = 1 /\ move.at <= size[data.cur] - 2
         /\ held # Null => Source = "first" /\ held = "first" /\ data.cur = "grown"
         /\ size[data.cur] <= Top /\ Top \in Positions
<1>1. VsTypeOK /\ MoveOK /\ FreshOK
  BY DEF VectorInv
<1>2. held \in {"first", Null} /\ "first" # Null
  BY <1>1, Bounds DEF VsTypeOK
<1>3. /\ Source \in Arrays
      /\ held = Null => Source = data.cur
      /\ held # Null => Source = "first"
  BY <1>2, Bounds, StateTypes DEF Source
<1>4. /\ move \in [at : -2 .. MaxSize - 1, up : {0, 1}, front : Values \cup {Null}, safe : BOOLEAN]
      /\ move.up \in {0, 1}
  BY <1>1 DEF VsTypeOK
<1>5. size[Source] \in Nat /\ size[data.cur] \in Nat
  BY <1>3, StateTypes
<1>6. Top = size[Source] + move.up /\ Top \in Nat
  BY <1>4, <1>5 DEF Top
<1>7. /\ move.at \in -1 .. size[Source] - 1
      /\ Top <= MaxSize /\ Top <= ReservedOf(data.cur)
      /\ held = Null => move.up = 1 /\ move.at <= size[data.cur] - 2
      /\ held # Null => data.cur = "grown"
  BY <1>1 DEF MoveOK
<1>8. size[data.cur] <= Top
  <2>1. CASE held = Null
    BY <2>1, <1>3, <1>5, <1>6, <1>7
  <2>2. CASE held # Null
    BY <2>2, <1>1, <1>6, <1>7 DEF FreshOK
  <2> QED
    BY <2>1, <2>2
<1>9. Top \in Positions
  BY <1>6, <1>7, Bounds DEF Positions
<1> QED
  BY <1>2, <1>3, <1>4, <1>5, <1>6, <1>7, <1>8, <1>9

LEMMA InvPassSafePoint ==
  ASSUME VectorInv, PassSafePoint
  PROVE  VectorInv'
<1>1. /\ move.safe /\ move' = [move EXCEPT !.safe = FALSE] /\ held' = held
      /\ cell' = cell /\ size' = size /\ scan_size' = scan_size /\ data' = data
      /\ kept' = kept /\ stale' = stale /\ torn' = torn /\ GivenUp' = GivenUp
      /\ phase' = phase /\ work' = work /\ promised' = promised /\ followed' = followed
      /\ displaced' = displaced
  BY DEF PassSafePoint, vector, spoilt, collection, GivenUp
<1>2. move # Still
  BY <1>1, NotStill
<1>3. /\ move'.at = move.at /\ move'.up = move.up
      /\ move' \in [at : -2 .. MaxSize - 1, up : {0, 1}, front : Values \cup {Null}, safe : BOOLEAN]
  BY <1>1, <1>2, InLoop
<1>4. move' # Still
  <2>1. move'.at # -2
    BY <1>2, <1>3, InLoop
  <2> QED
    BY <2>1, NotStill
<1>5. Source' = Source /\ Top' = Top
  BY <1>1, <1>3 DEF Source, Top
<1>6. \A b \in Arrays, i \in Positions : Filling(b, i)' <=> Filling(b, i)
  BY <1>1, <1>2, <1>4, <1>5 DEF Filling
<1>7. VsTypeOK' /\ SizesOK'
  <2>1. SizesOK'
    BY <1>1 DEF VectorInv, SizesOK
  <2>2. VsTypeOK'
    BY <1>1, <1>3 DEF VectorInv, VsTypeOK
  <2> QED
    BY <2>1, <2>2
<1>8. MoveOK'
  BY <1>1, <1>2, <1>3, <1>4, <1>5 DEF VectorInv, MoveOK
<1>9. FreshOK' /\ DataOK'
  BY <1>1 DEF VectorInv, FreshOK, DataOK
<1>10. CopyOK'
  BY <1>1, <1>3 DEF VectorInv, CopyOK
<1>11. ClearedOK' /\ HigherOK'
  BY <1>1, <1>6 DEF VectorInv, ClearedOK, HigherOK, Equal
<1>12. SettledOK' /\ PromiseOK'
  BY <1>1 DEF VectorInv, SettledOK, PromiseOK
<1>13. MendedOK' /\ FollowedOK'
  BY <1>1 DEF VectorInv, MendedOK, FollowedOK, Equal
<1> QED
  BY <1>7, <1>8, <1>9, <1>10, <1>11, <1>12, <1>13 DEF VectorInv

LEMMA InvMoveElement ==
  ASSUME VectorInv, MoveElement
  PROVE  VectorInv'
<1> DEFINE a == data.cur
           i == move.at
           k == i + move.up
<1>1. /\ i >= 0
      /\ cell' = [cell EXCEPT ![a][k] = Barrier(@, cell[Source][i].cur)]
      /\ \E s \in BOOLEAN : move' = [move EXCEPT !.at = i - 1, !.safe = s]
      /\ UNCHANGED <<size, scan_size, spoilt, data, held, collection>>
      /\ size' = size /\ data' = data /\ held' = held /\ phase' = phase
  BY DEF MoveElement, collection
<1>2. move # Still
  BY <1>1, NotStill
<1>3. /\ move \in [at : -2 .. MaxSize - 1, up : {0, 1}, front : Values \cup {Null}, safe : BOOLEAN]
      /\ Source \in Arrays /\ size[Source] \in Nat /\ move.up \in {0, 1} /\ Top \in Nat
      /\ Top = size[Source] + move.up
      /\ i \in -1 .. size[Source] - 1
      /\ Top <= MaxSize /\ Top <= ReservedOf(data.cur)
      /\ held = Null => Source = data.cur /\ move.up = 1 /\ i <= size[data.cur] - 2
      /\ held # Null => Source = "first" /\ held = "first" /\ data.cur = "grown"
      /\ Top \in Positions
  BY <1>2, InLoop
<1>4. /\ i \in Nat /\ i < size[Source] /\ i \in Positions /\ k \in Nat /\ k \in Positions /\ k < Top
      /\ MaxSize \in Nat /\ size[Source] < MaxSize + 1
  <2>1. MaxSize \in Nat
    BY Bounds
  <2>2. i \in Nat /\ i < size[Source] /\ size[Source] <= Top
    BY <1>1, <1>3
  <2>3. k \in Nat /\ k < Top
    BY <2>2, <1>3
  <2> QED
    BY <2>1, <2>2, <2>3, <1>3 DEF Positions
<1>5. /\ move'.at = i - 1 /\ move'.up = move.up
      /\ move' \in [at : -2 .. MaxSize - 1, up : {0, 1}, front : Values \cup {Null}, safe : BOOLEAN]
  <2>1. i - 1 \in -2 .. MaxSize - 1
    BY <1>3, <1>4
  <2> QED
    BY <2>1, <1>1, <1>3
<1>6. move' # Still
  <2>1. move'.at # -2
    BY <1>4, <1>5
  <2> QED
    BY <2>1, NotStill
<1>7. Source' = Source /\ Top' = Top
  BY <1>1, <1>5 DEF Source, Top
<1>8. /\ Written({k})
      /\ cell'[a][k].cur = cell[Source][i].cur
      /\ phase # "COLLECTING" => Equal(cell'[a][k])
  <2>1. cell[Source][i].cur \in Values \cup {Null}
    BY <1>3, <1>4, StateTypes DEF Pairs
  <2> QED
    BY <1>1, <1>4, <2>1, StateTypes, WriteOne
<1>9. held # Null => cell["grown"][k] = Pair(Null, Null)
  BY <1>4 DEF VectorInv, CopyOK
<1>10. k >= scan_size[a] => cell[a][k].snap \in GivenUp
  <2>1. CASE held = Null
    <3>1. k < size[a] /\ size[a] <= scan_size[a] /\ size[a] \in Nat /\ scan_size[a] \in Nat
      BY <2>1, <1>3, <1>4, StateTypes
    <3> QED
      BY <3>1, <1>4
  <2>2. CASE held # Null
    BY <2>2, <1>3, <1>9 DEF Pair, GivenUp
  <2> QED
    BY <2>1, <2>2
<1> HIDE DEF k, i, a
<1>11. /\ VsTypeOK' /\ SizesOK' /\ FreshOK' /\ DataOK' /\ ClearedOK' /\ SettledOK'
       /\ PromiseOK' /\ HigherOK' /\ MendedOK' /\ FollowedOK'
  <2>1. k < Top'
    BY <1>4, <1>7
  <2> QED
    BY <1>1, <1>2, <1>4, <1>5, <1>6, <1>7, <1>8, <1>10, <2>1, LoopStep DEF a
<1>12. MoveOK'
  <2>1. move'.at \in -1 .. size[Source] - 1
    BY <1>3, <1>4, <1>5
  <2>2. held = Null => move'.at <= size[data.cur] - 2
    BY <1>3, <1>4, <1>5
  <2> QED
    BY <2>1, <2>2, <1>1, <1>3, <1>5, <1>6, <1>7 DEF MoveOK, a
<1>13. CopyOK'
  <2> SUFFICES ASSUME held # Null, NEW p \in Positions
               PROVE  /\ p <= move'.at + move'.up => cell'["grown"][p] = Pair(Null, Null)
                      /\ cell'["grown"][p].snap \in {cell'["grown"][p].cur, Null}
                      /\ \/ cell'["grown"][p].cur = Null
                         \/ \E j \in 0 .. size["first"] - 1 : cell'["grown"][p].cur = cell'["first"][j].cur
    BY <1>1 DEF CopyOK
  <2>1. a = "grown" /\ Source = "first" /\ i \in 0 .. size["first"] - 1
    BY <1>3, <1>4 DEF a
  <2>2. \A q \in Positions : /\ cell'["first"][q] = cell["first"][q]
                             /\ q # k => cell'["grown"][q] = cell["grown"][q]
    BY <2>1, <1>8, Bounds DEF Written, a
  <2>3. 0 .. size["first"] - 1 \subseteq Positions
    BY <2>1, <1>3, <1>4 DEF Positions
  <2>4. CASE p = k
    <3>1. cell'["grown"][p].cur = cell'["first"][i].cur
      BY <2>1, <2>2, <2>3, <2>4, <1>8
    <3>2. cell'["grown"][p].snap \in {cell'["grown"][p].cur, Null}
      <4>1. CASE phase # "COLLECTING"
        BY <4>1, <2>1, <2>4, <1>8 DEF Equal
      <4>2. CASE phase = "COLLECTING"
        BY <4>2, <2>1, <2>4, <1>8, <1>9, Bounds DEF Written, Pair
      <4> QED
        BY <4>1, <4>2
    <3>3. ~(p <= move'.at + move'.up)
      <4>1. move'.at + move'.up = k - 1
        BY <1>3, <1>4, <1>5 DEF k
      <4> QED
        BY <4>1, <2>4, <1>4
    <3> QED
      BY <3>1, <3>2, <3>3, <2>1
  <2>5. CASE p # k
    <3>1. p <= move'.at + move'.up => p <= move.at + move.up
      <4>1. move'.at + move'.up = k - 1 /\ move.at + move.up = k /\ p \in Nat
        BY <1>3, <1>4, <1>5, StateTypes DEF k, i
      <4> QED
        BY <4>1, <1>4
    <3> QED
      BY <2>2, <2>3, <2>5, <3>1 DEF VectorInv, CopyOK
  <2> QED
    BY <2>4, <2>5
<1> QED
  BY <1>11, <1>12, <1>13 DEF VectorInv

LEMMA InvFinish ==
  ASSUME VectorInv, Finish
  PROVE  VectorInv'
<1> DEFINE a == data.cur
           n == Top
<1>1. /\ move.at = -1
      /\ cell' = IF move.up = 1 THEN [cell EXCEPT ![a][0] = Barrier(@, move.front)] ELSE cell
      /\ Resized(a, n) /\ torn' = torn \cup Torn(a, n)
      /\ held' = Null /\ move' = Still /\ data' = data /\ UNCHANGED collection
      /\ phase' = phase /\ work' = work /\ promised' = promised /\ followed' = followed
      /\ displaced' = displaced
  BY DEF Finish, Top, collection
<1>2. move # Still
  BY <1>1, NotStill
<1>3. /\ move.front \in Values \cup {Null} /\ move.up \in {0, 1}
      /\ Source \in Arrays /\ size[Source] \in Nat /\ n \in Nat /\ n = size[Source] + move.up
      /\ n <= ReservedOf(a) /\ size[a] <= n /\ n \in Positions
  BY <1>2, InLoop
<1>4. Written({0}) /\ (cell' # cell => 0 < n)
  <2>1. 0 \in Positions
    BY Bounds DEF Positions
  <2>2. CASE move.up = 1
    <3>1. cell' = [cell EXCEPT ![a][0] = Barrier(@, move.front)] /\ 0 < n
      BY <1>1, <1>3, <2>2
    <3> QED
      BY <3>1, <2>1, <1>3, StateTypes, WriteOne
  <2>3. CASE move.up # 1
    BY <2>3, <1>1, StateTypes DEF Written
  <2> QED
    BY <2>2, <2>3
<1>5. Written(0 .. n - 1)
  <2>1. cell' # cell => 0 \in 0 .. n - 1
    BY <1>3, <1>4
  <2> QED
    BY <2>1, <1>4 DEF Written
<1>6. /\ cell' \in [Arrays -> [Positions -> Pairs]]
      /\ \A b \in Arrays, i \in Positions :
           /\ cell'[b][i] # cell[b][i] => b = a
           /\ phase # "COLLECTING" => cell'[b][i] = cell[b][i] \/ Equal(cell'[b][i])
  BY <1>4 DEF Written
<1>7. /\ VsTypeOK /\ SizesOK /\ a \in Arrays /\ Positions \subseteq Nat
      /\ \A b \in Arrays : size[b] \in Nat /\ scan_size[b] \in Nat /\ size[b] <= scan_size[b]
  BY StateTypes DEF VectorInv
<1> HIDE DEF n
<1>8. /\ size' \in [Arrays -> Positions] /\ scan_size' \in [Arrays -> Positions]
      /\ \A b \in Arrays : scan_size'[b] \in 0 .. ReservedOf(b) /\ size'[b] \in 0 .. scan_size'[b]
      /\ \A b \in Arrays \ {a} : size'[b] = size[b] /\ scan_size'[b] = scan_size[b]
      /\ size'[a] = n
      /\ phase = "COLLECTING" => scan_size'[a] >= scan_size[a]
      /\ phase # "COLLECTING" => scan_size'[a] = n
      /\ kept \subseteq kept' /\ kept' \subseteq Values /\ stale \subseteq stale' /\ stale' \subseteq Values
  BY <1>1, <1>3, <1>6, <1>7, ResizedBy
<1>9. \A b \in Arrays : phase = "COLLECTING" => scan_size'[b] >= scan_size[b]
  BY <1>7, <1>8
<1>10. torn \subseteq torn' /\ torn' \subseteq Values
  <2>1. 0 .. n - 1 \subseteq Positions
    BY <1>3, Bounds DEF Positions
  <2>2. \A i \in Positions : cell'[a][i].cur \in Values \cup {Null}
    BY <1>6, <1>7 DEF Pairs
  <2>3. Torn(a, n) \subseteq Values
    BY <2>1, <2>2 DEF Torn, Unequal
  <2> QED
    BY <2>3, <1>1, <1>7 DEF VsTypeOK
<1>11. PromiseOK' /\ FollowedOK'
  BY <1>1, <1>5, <1>8, <1>9, <1>10, WritesAreSafe
<1>12. \A i \in Positions : Filling(a, i) => i < n
  BY DEF Filling, n
<1>13. ClearedOK' /\ HigherOK'
  <2>1. \A i \in 0 .. n - 1 : i < n
    BY <1>3
  <2> QED
    BY <2>1, <1>1, <1>3, <1>5, <1>12, AboveTheSize
<1> HIDE DEF a
<1>14. VsTypeOK'
  <2>1. move' \in [at : -2 .. MaxSize - 1, up : {0, 1}, front : Values \cup {Null}, safe : BOOLEAN]
    BY <1>1, Bounds DEF Still, Moving
  <2> QED
    BY <2>1, <1>1, <1>6, <1>7, <1>8, <1>10 DEF VsTypeOK, Pairs
<1>15. SizesOK' /\ MoveOK' /\ CopyOK' /\ DataOK'
  <2>1. SizesOK'
    BY <1>8 DEF SizesOK
  <2>2. MoveOK'
    BY <1>1 DEF MoveOK
  <2>3. CopyOK'
    BY <1>1 DEF CopyOK
  <2>4. DataOK'
    BY <1>1 DEF VectorInv, DataOK
  <2> QED
    BY <2>1, <2>2, <2>3, <2>4
<1>16. FreshOK'
  <2> SUFFICES ASSUME data.cur = "first"
               PROVE  /\ size'["grown"] = 0 /\ scan_size'["grown"] = 0
                      /\ \A i \in Positions : cell'["grown"][i] = Pair(Null, Null)
    BY <1>1 DEF FreshOK
  <2>1. a # "grown" /\ "grown" \in Arrays
    BY Bounds DEF a
  <2> QED
    BY <2>1, <1>6, <1>8 DEF VectorInv, FreshOK
<1>17. SettledOK'
  <2> SUFFICES ASSUME phase = "NOT_COLLECTING", NEW b \in Arrays \ work, NEW i \in Positions,
                      i < scan_size'[b], ~Equal(cell'[b][i])
               PROVE  cell'[b][i].cur \in {cell'[b][i].snap, Null} \cup kept' \cup torn'
    BY <1>1 DEF SettledOK, Equal
  <2>1. CASE b = a
    <3>1. i \in 0 .. n - 1
      BY <2>1, <1>3, <1>7, <1>8
    <3>2. cell'[a][i].cur \in Torn(a, n) \cup {Null}
      BY <2>1, <3>1 DEF Torn, Unequal, Equal
    <3> QED
      BY <2>1, <3>2, <1>1
  <2>2. CASE b # a
    <3>1. cell'[b][i] = cell[b][i] /\ i < scan_size[b]
      BY <2>2, <1>6, <1>8
    <3> QED
      BY <3>1, <1>8, <1>10 DEF VectorInv, SettledOK
  <2> QED
    BY <2>1, <2>2
<1>18. MendedOK'
  <2> SUFFICES ASSUME phase = "NOT_COLLECTING", NEW b \in Arrays \ work, NEW i \in Positions,
                      ~Equal(cell'[b][i])
               PROVE  cell'[b][i].snap \in GivenUp'
    BY <1>1 DEF MendedOK, Equal
  <2>1. cell'[b][i] = cell[b][i]
    BY <1>6
  <2>2. CASE i < scan_size[b]
    BY <2>1, <2>2, <1>8 DEF VectorInv, MendedOK, GivenUp
  <2>3. CASE i >= scan_size[b]
    BY <2>1, <2>3, <1>8 DEF VectorInv, HigherOK, GivenUp
  <2>4. i < scan_size[b] \/ i >= scan_size[b]
    <3>1. i \in Nat /\ scan_size[b] \in Nat
      BY <1>7
    <3> QED
      BY <3>1
  <2> QED
    BY <2>2, <2>3, <2>4
<1> QED
  BY <1>11, <1>13, <1>14, <1>15, <1>16, <1>17, <1>18 DEF VectorInv

-----------------------------------------------------------------------------
(* The collector *)

LEMMA InvMark ==
  ASSUME VectorInv, NEW a \in Arrays, Mark(a)
  PROVE  VectorInv'
<1> DEFINE seen == {cell[a][i].snap : i \in 0 .. scan_size[a] - 1} \ {Null}
<1>1. /\ phase = "COLLECTING" /\ a \in work /\ work' = work \ {a} /\ followed' = followed \cup seen
      /\ cell' = cell /\ size' = size /\ scan_size' = scan_size /\ data' = data
      /\ kept' = kept /\ stale' = stale /\ torn' = torn /\ GivenUp' = GivenUp
      /\ held' = held /\ move' = move /\ phase' = phase /\ promised' = promised
      /\ displaced' = displaced
  BY DEF Mark, vector, spoilt, GivenUp
<1>2. 0 .. scan_size[a] - 1 \subseteq Positions
  BY StateTypes, Bounds DEF Positions
<1>3. seen \subseteq Values
  BY <1>2, StateTypes DEF Pairs
<1>4. \A i \in Positions : i < scan_size[a] /\ cell[a][i].snap # Null => cell[a][i].snap \in seen
  <2> TAKE i \in Positions
  <2>1. i \in Nat /\ scan_size[a] \in Nat
    BY StateTypes
  <2>2. i < scan_size[a] => i \in 0 .. scan_size[a] - 1
    BY <2>1
  <2> QED
    BY <2>2
<1>5. \A v \in seen : \E i \in Positions : v = cell[a][i].snap /\ v # Null
  BY <1>2
<1> HIDE DEF seen
<1>6. VsTypeOK'
  BY <1>1, <1>3 DEF VectorInv, VsTypeOK
<1>7. SizesOK' /\ FreshOK'
  BY <1>1 DEF VectorInv, SizesOK, FreshOK
<1>8. MoveOK'
  BY <1>1 DEF VectorInv, MoveOK, Top, Source
<1>9. CopyOK'
  BY <1>1 DEF VectorInv, CopyOK
<1>10. DataOK' /\ SettledOK' /\ MendedOK'
  BY <1>1 DEF DataOK, SettledOK, MendedOK
<1>11. ClearedOK' /\ HigherOK'
  BY <1>1 DEF VectorInv, ClearedOK, HigherOK, Filling, Top, Source, Equal
<1>12. PromiseOK'
  <2> SUFFICES ASSUME NEW v \in promised, v \notin followed' \cup displaced \cup kept \cup torn
               PROVE  \E b \in work', i \in Positions : i < scan_size[b] /\ cell[b][i].snap = v
    BY <1>1 DEF PromiseOK
  <2>1. PICK b \in work, i \in Positions : i < scan_size[b] /\ cell[b][i].snap = v
    BY <1>1 DEF VectorInv, PromiseOK
  <2>2. v # Null
    BY Bounds, StateTypes DEF VsTypeOK
  <2>3. b # a
    BY <2>1, <2>2, <1>1, <1>4
  <2> QED
    BY <2>1, <2>3, <1>1
<1>13. FollowedOK'
  <2>1. /\ followed \subseteq promised \cup kept \cup stale
        /\ \A b \in work : \A i \in Positions : cell[b][i].snap \in promised \cup GivenUp
    BY <1>1 DEF VectorInv, FollowedOK
  <2>2. seen \subseteq promised \cup kept \cup stale
    BY <2>1, <1>1, <1>5 DEF GivenUp
  <2>3. followed' \subseteq promised \cup kept \cup stale
    BY <2>1, <2>2, <1>1
  <2> QED
    BY <2>1, <2>3, <1>1 DEF FollowedOK
<1> QED
  BY <1>6, <1>7, <1>8, <1>9, <1>10, <1>11, <1>12, <1>13 DEF VectorInv

LEMMA InvRestore ==
  ASSUME VectorInv, NEW a \in Arrays, Restore(a)
  PROVE  VectorInv'
<1> DEFINE mended == [i \in Positions |-> IF i < scan_size[a] THEN Pair(cell[a][i].cur, cell[a][i].cur)
                                          ELSE cell[a][i]]
<1>1. /\ phase # "COLLECTING" /\ a \in work /\ work' = work \ {a}
      /\ cell' = [cell EXCEPT ![a] = mended] /\ data' = Pair(data.cur, data.cur)
      /\ size' = size /\ scan_size' = scan_size
      /\ kept' = kept /\ stale' = stale /\ torn' = torn /\ GivenUp' = GivenUp
      /\ held' = held /\ move' = move /\ phase' = phase /\ promised' = promised /\ followed' = followed
      /\ displaced' = displaced
  BY DEF Restore, spoilt, GivenUp
<1>2. data'.cur = data.cur /\ data'.snap = data.cur /\ data' \in [cur : Arrays, snap : Arrays]
  BY <1>1, StateTypes DEF Pair
<1>3. /\ mended \in [Positions -> Pairs]
      /\ \A i \in Positions : /\ mended[i].cur = cell[a][i].cur
                              /\ mended[i] = cell[a][i] \/ Equal(mended[i])
                              /\ i < scan_size[a] => Equal(mended[i])
                              /\ ~(i < scan_size[a]) => mended[i] = cell[a][i]
  <2>1. \A i \in Positions : /\ mended[i] \in Pairs
                             /\ mended[i].cur = cell[a][i].cur
                             /\ mended[i] = cell[a][i] \/ Equal(mended[i])
                             /\ i < scan_size[a] => Equal(mended[i])
                             /\ ~(i < scan_size[a]) => mended[i] = cell[a][i]
    BY StateTypes DEF Pair, Pairs, Equal
  <2> QED
    BY <2>1
<1> HIDE DEF mended
<1>4. /\ cell' \in [Arrays -> [Positions -> Pairs]]
      /\ \A b \in Arrays : cell'[b] = IF b = a THEN mended ELSE cell[b]
  BY <1>1, <1>3, StateTypes
<1>5. \A b \in Arrays, i \in Positions :
        /\ cell'[b][i].cur = cell[b][i].cur
        /\ cell'[b][i] = cell[b][i] \/ Equal(cell'[b][i])
        /\ b = a /\ i < scan_size[a] => Equal(cell'[b][i])
        /\ ~(i < scan_size[b]) => cell'[b][i] = cell[b][i]
  BY <1>3, <1>4
<1>6. Source' = Source /\ Top' = Top
  BY <1>1, <1>2 DEF Source, Top
<1>7. \A b \in Arrays, i \in Positions : Filling(b, i)' <=> Filling(b, i)
  BY <1>1, <1>2, <1>6 DEF Filling
<1>8. VsTypeOK'
  BY <1>1, <1>2, <1>4 DEF VectorInv, VsTypeOK, Pairs
<1>9. SizesOK' /\ MoveOK' /\ DataOK'
  BY <1>1, <1>2, <1>6 DEF VectorInv, SizesOK, MoveOK, DataOK
<1>10. ASSUME scan_size["grown"] = 0
       PROVE  \A i \in Positions : cell'["grown"][i] = cell["grown"][i]
  <2> TAKE i \in Positions
  <2>1. i \in Nat /\ "grown" \in Arrays
    BY StateTypes, Bounds
  <2>2. ~(i < scan_size["grown"])
    BY <2>1, <1>10
  <2> QED
    BY <2>1, <2>2, <1>5
<1>11. FreshOK'
  BY <1>1, <1>2, <1>10 DEF VectorInv, FreshOK
<1>12. CopyOK'
  <2> SUFFICES ASSUME held # Null, NEW p \in Positions
               PROVE  /\ p <= move.at + move.up => cell'["grown"][p] = Pair(Null, Null)
                      /\ cell'["grown"][p].snap \in {cell'["grown"][p].cur, Null}
                      /\ \/ cell'["grown"][p].cur = Null
                         \/ \E j \in 0 .. size["first"] - 1 : cell'["grown"][p].cur = cell'["first"][j].cur
    BY <1>1 DEF CopyOK
  <2>1. cell'["grown"][p] = cell["grown"][p]
    BY <1>10 DEF VectorInv, FreshOK
  <2>2. \A j \in 0 .. size["first"] - 1 : cell'["first"][j].cur = cell["first"][j].cur
    <3>1. 0 .. size["first"] - 1 \subseteq Positions
      BY StateTypes, Bounds DEF Positions
    <3> QED
      BY <3>1, <1>5, Bounds
  <2> QED
    BY <2>1, <2>2 DEF VectorInv, CopyOK
<1>13. ClearedOK'
  BY <1>1, <1>5, <1>7 DEF VectorInv, ClearedOK
<1>14. HigherOK'
  <2> SUFFICES ASSUME NEW b \in Arrays, NEW i \in Positions, i >= scan_size[b]
               PROVE  cell'[b][i].snap \in GivenUp \/ (Filling(b, i)' /\ Equal(cell'[b][i]))
    BY <1>1 DEF HigherOK, Equal
  <2>1. ~(i < scan_size[b])
    BY StateTypes
  <2>2. cell'[b][i] = cell[b][i]
    BY <2>1, <1>5
  <2> QED
    BY <2>2, <1>7 DEF VectorInv, HigherOK, Equal
<1>15. SettledOK'
  <2> SUFFICES ASSUME phase = "NOT_COLLECTING", NEW b \in Arrays \ work', NEW i \in Positions, i < scan_size[b]
               PROVE  cell'[b][i].cur \in {cell'[b][i].snap, Null} \cup kept \cup torn
    BY <1>1 DEF SettledOK
  <2>1. b # a => cell[b][i].cur \in {cell[b][i].snap, Null} \cup kept \cup torn
    BY <1>1 DEF VectorInv, SettledOK
  <2> QED
    BY <2>1, <1>5 DEF Equal
<1>16. MendedOK'
  <2> SUFFICES ASSUME phase = "NOT_COLLECTING", NEW b \in Arrays \ work', NEW i \in Positions, i < scan_size[b]
               PROVE  Equal(cell'[b][i]) \/ cell'[b][i].snap \in GivenUp
    BY <1>1 DEF MendedOK, Equal
  <2>1. b # a => Equal(cell[b][i]) \/ cell[b][i].snap \in GivenUp
    BY <1>1 DEF VectorInv, MendedOK
  <2> QED
    BY <2>1, <1>5 DEF Equal
<1>17. PromiseOK' /\ FollowedOK'
  BY <1>1 DEF VectorInv, PromiseOK, FollowedOK
<1> QED
  BY <1>8, <1>9, <1>11, <1>12, <1>13, <1>14, <1>15, <1>16, <1>17 DEF VectorInv

LEMMA InvBorder ==
  ASSUME VectorInv, Border
  PROVE  VectorInv'
<1>1. /\ work = {} /\ move' = [move EXCEPT !.safe = FALSE]
      /\ cell' = cell /\ size' = size /\ scan_size' = scan_size /\ data' = data
      /\ kept' = kept /\ stale' = stale /\ torn' = torn /\ GivenUp' = GivenUp
      /\ held' = held /\ followed' = {}
      /\ phase = "NOT_COLLECTING" => /\ promised' = Contents /\ displaced' = Displaced
                                     /\ work' = ({data.snap} \cup {held}) \ {Null}
      /\ phase # "NOT_COLLECTING" => promised' = {} /\ displaced' = {} /\ work' = {"first", data.cur}
  BY DEF Border, vector, spoilt, GivenUp
<1>2. /\ phase = "NOT_COLLECTING" => phase' = "COLLECTING"
      /\ phase = "COLLECTING" => phase' = "RESTORING_SNAPSHOT"
      /\ phase = "RESTORING_SNAPSHOT" => phase' = "NOT_COLLECTING"
      /\ phase \in {"NOT_COLLECTING", "COLLECTING", "RESTORING_SNAPSHOT"}
  BY StateTypes DEF Border, VsTypeOK
<1>3. /\ move \in [at : -2 .. MaxSize - 1, up : {0, 1}, front : Values \cup {Null}, safe : BOOLEAN]
      /\ held \in {"first", Null} /\ data \in [cur : Arrays, snap : Arrays]
  BY StateTypes DEF VsTypeOK
<1>4. /\ move'.at = move.at /\ move'.up = move.up
      /\ move' \in [at : -2 .. MaxSize - 1, up : {0, 1}, front : Values \cup {Null}, safe : BOOLEAN]
  BY <1>1, <1>3
<1>5. move = Still <=> move' = Still
  <2>1. CASE move = Still
    BY <2>1, <1>1 DEF Still, Moving
  <2>2. CASE move # Still
    <3>1. move'.at # -2
      BY <2>2, <1>4, InLoop
    <3> QED
      BY <2>2, <3>1, NotStill
  <2> QED
    BY <2>1, <2>2
<1>6. Source' = Source /\ Top' = Top
  BY <1>1, <1>4 DEF Source, Top
<1>7. \A b \in Arrays, i \in Positions : Filling(b, i)' <=> Filling(b, i)
  BY <1>1, <1>5, <1>6 DEF Filling
<1> DEFINE past == move # Still /\ held = Null
           N == size[Source] + (IF past THEN 1 ELSE 0)
<1>8. /\ Source \in Arrays /\ Source \in {data.cur, held}
      /\ held = Null => Source = data.cur
      /\ size[Source] \in Nat /\ N \in Nat /\ size[Source] <= N
      /\ Contents = {cell[Source][i].cur : i \in 0 .. N - 1} \ {Null}
      /\ 0 .. N - 1 \subseteq Positions
  <2>1. /\ Source \in Arrays /\ Source \in {data.cur, held}
        /\ held = Null => Source = data.cur
    BY <1>3, StateTypes, Bounds DEF Source
  <2>2. size[Source] \in Nat /\ size[Source] \in Positions
    BY <2>1, StateTypes
  <2>3. N \in Nat /\ size[Source] <= N /\ N <= MaxSize
    <3>1. CASE past
      BY <3>1, <2>2, InLoop, Bounds
    <3>2. CASE ~past
      BY <3>2, <2>2, Bounds DEF Positions
    <3> QED
      BY <3>1, <3>2
  <2>4. Contents = {cell[Source][i].cur : i \in 0 .. N - 1} \ {Null}
    BY DEF Contents
  <2> QED
    BY <2>1, <2>2, <2>3, <2>4, Bounds DEF Positions
<1>9. past => N = size[data.cur] + 1
  BY <1>8
<1> HIDE DEF N
<1>10. /\ \A i \in 0 .. N - 1 : cell[Source][i].cur \in Contents \cup {Null}
       /\ \A v \in Contents : v # Null /\ \E i \in 0 .. N - 1 : v = cell[Source][i].cur
  BY <1>8
<1>11. Contents \subseteq Values
  BY <1>8, StateTypes DEF Pairs
<1>12. Displaced \subseteq Values
  <2>1. past => size[data.cur] \in Positions
    BY StateTypes
  <2> QED
    BY <2>1, StateTypes DEF Displaced, Pairs
<1>13. phase = "NOT_COLLECTING" => data.cur = data.snap
  BY <1>1 DEF VectorInv, DataOK
<1>14. VsTypeOK'
  <2>1. work' \subseteq Arrays /\ promised' \subseteq Values /\ displaced' \subseteq Values
    BY <1>1, <1>2, <1>3, <1>11, <1>12, Bounds
  <2> QED
    BY <2>1, <1>1, <1>2, <1>3, <1>4 DEF VectorInv, VsTypeOK
<1>15. SizesOK' /\ FreshOK'
  BY <1>1 DEF VectorInv, SizesOK, FreshOK
<1>16. MoveOK'
  BY <1>1, <1>4, <1>5, <1>6 DEF VectorInv, MoveOK
<1>17. CopyOK'
  BY <1>1, <1>4 DEF VectorInv, CopyOK
<1>18. DataOK'
  BY <1>1, <1>2 DEF DataOK
<1>19. ClearedOK'
  BY <1>1, <1>7 DEF VectorInv, ClearedOK
<1>20. HigherOK'
  BY <1>1, <1>7 DEF VectorInv, HigherOK, Equal
<1>21. SettledOK' /\ MendedOK'
  <2> SUFFICES ASSUME phase' = "NOT_COLLECTING", NEW b \in Arrays \ work', NEW i \in Positions, i < scan_size[b]
               PROVE  FALSE
    BY <1>1 DEF SettledOK, MendedOK
  <2>1. b = "grown" /\ data.cur = "first"
    BY <1>1, <1>2, StateTypes, Bounds
  <2>2. scan_size[b] = 0
    BY <2>1 DEF VectorInv, FreshOK
  <2> QED
    BY <2>2, StateTypes
<1>22. PromiseOK'
  <2>1. phase' # "COLLECTING" => promised' = {} /\ followed' = {} /\ displaced' = {}
    BY <1>1, <1>2
  <2>2. ASSUME phase' = "COLLECTING", NEW v \in promised', v \notin displaced' \cup kept \cup torn
        PROVE  \E b \in work', i \in Positions : i < scan_size[b] /\ cell[b][i].snap = v
    <3>1. phase = "NOT_COLLECTING" /\ promised' = Contents /\ displaced' = Displaced
      BY <2>2, <1>1, <1>2
    <3>2. PICK i \in 0 .. N - 1 : v = cell[Source][i].cur
      BY <3>1, <1>10
    <3>3. v # Null /\ i \in Positions
      BY <3>1, <1>8, <1>10
    <3>4. i < scan_size[Source]
      <4> SUFFICES ASSUME i >= scan_size[Source]
                   PROVE  FALSE
        <5>1. i \in Nat /\ scan_size[Source] \in Nat
          BY <3>3, <1>8, StateTypes
        <5> QED
          BY <5>1
      <4>1. /\ i \in Nat /\ scan_size[Source] \in Nat /\ size[Source] \in Nat
            /\ size[Source] <= scan_size[Source] /\ i < N
        BY <3>3, <1>8, StateTypes
      <4>2. past
        BY <4>1 DEF N
      <4>3. Source = data.cur /\ i = size[data.cur] /\ size[data.cur] >= scan_size[data.cur]
        BY <4>1, <4>2, <1>8, <1>9
      <4>4. v \in Displaced
        BY <4>2, <4>3, <3>2, <3>3 DEF Displaced
      <4> QED
        BY <4>4, <2>2, <3>1
    <3>5. cell[Source][i].snap = v
      BY <2>2, <3>1, <3>2, <3>3, <3>4, <1>1, <1>8 DEF VectorInv, SettledOK
    <3>6. Source \in work'
      BY <3>1, <1>1, <1>8, <1>13, Bounds
    <3> QED
      BY <3>3, <3>4, <3>5, <3>6
  <2> QED
    BY <2>1, <2>2, <1>1 DEF PromiseOK
<1>23. FollowedOK'
  <2> SUFFICES ASSUME phase' = "COLLECTING", NEW b \in work', NEW i \in Positions
               PROVE  cell[b][i].snap \in promised' \cup GivenUp
    BY <1>1 DEF FollowedOK
  <2>1. /\ phase = "NOT_COLLECTING" /\ promised' = Contents /\ b \in {data.cur, held} /\ b \in Arrays
    BY <1>1, <1>2, <1>3, <1>13, StateTypes, Bounds
  <2>2. CASE cell[b][i].snap \in GivenUp
    BY <2>2
  <2>3. CASE cell[b][i].snap \notin GivenUp
    <3>1. Equal(cell[b][i])
      <4>1. i < scan_size[b] \/ i >= scan_size[b]
        <5>1. i \in Nat /\ scan_size[b] \in Nat
          BY <2>1, StateTypes
        <5> QED
          BY <5>1
      <4> QED
        BY <4>1, <2>1, <2>3, <1>1 DEF VectorInv, MendedOK, HigherOK
    <3>2. cell[b][i].cur \notin kept \cup {Null}
      BY <2>3, <3>1 DEF Equal, GivenUp
    <3>3. ASSUME b = Source
          PROVE  cell[b][i].cur \in Contents
      <4>1. CASE i < size[b]
        <5>1. i \in 0 .. N - 1
          BY <4>1, <3>3, <2>1, <1>8, StateTypes
        <5> QED
          BY <5>1, <3>2, <3>3, <1>10
      <4>2. CASE i >= size[b]
        <5>1. Filling(b, i)
          BY <4>2, <3>2, <2>1 DEF VectorInv, ClearedOK
        <5>2. move # Still /\ b = data.cur /\ i < Top
          BY <5>1 DEF Filling
        <5>3. held = Null
          BY <5>2, <3>3, InLoop
        <5>4. Top = N
          BY <5>2, <5>3, <1>9, InLoop
        <5>5. i \in 0 .. N - 1
          BY <5>2, <5>4, <1>8, StateTypes
        <5> QED
          BY <5>5, <3>2, <3>3, <1>10
      <4>3. i < size[b] \/ i >= size[b]
        <5>1. i \in Nat /\ size[b] \in Nat
          BY <2>1, StateTypes
        <5> QED
          BY <5>1
      <4> QED
        BY <4>1, <4>2, <4>3
    <3>4. ASSUME b # Source
          PROVE  cell[b][i].cur \in Contents
      <4>1. held # Null /\ b = data.cur
        BY <2>1, <3>4, Bounds DEF Source
      <4>2. b = "grown" /\ Source = "first"
        BY <4>1, InLoop DEF VectorInv, MoveOK
      <4>3. PICK j \in 0 .. size["first"] - 1 : cell["grown"][i].cur = cell["first"][j].cur
        BY <4>1, <4>2, <3>2 DEF VectorInv, CopyOK
      <4>4. j \in 0 .. N - 1
        BY <4>2, <1>8
      <4> QED
        BY <4>2, <4>3, <4>4, <3>2, <1>10
    <3> QED
      BY <3>1, <3>3, <3>4, <2>1 DEF Equal
  <2> QED
    BY <2>2, <2>3
<1> QED
  BY <1>14, <1>15, <1>16, <1>17, <1>18, <1>19, <1>20, <1>21, <1>22, <1>23 DEF VectorInv

-----------------------------------------------------------------------------
(* The theorems *)

LEMMA InvInit == Init => VectorInv
<1> SUFFICES ASSUME Init
             PROVE  VectorInv
  OBVIOUS
<1>1. /\ \A a \in Arrays, i \in Positions : cell[a][i] = Pair(Null, Null)
      /\ cell \in [Arrays -> [Positions -> Pairs]]
  BY DEF Init, Pair, Pairs
<1>2. 0 \in Positions /\ MaxSize \in Nat /\ \A a \in Arrays : ReservedOf(a) \in Nat
  BY Bounds DEF Positions
<1>3. /\ size = [a \in Arrays |-> 0] /\ scan_size = [a \in Arrays |-> 0]
      /\ data = Pair("first", "first") /\ held = Null /\ move = Still /\ phase = "NOT_COLLECTING"
      /\ work = {} /\ promised = {} /\ followed = {} /\ displaced = {}
      /\ kept = {} /\ stale = {} /\ torn = {}
  BY DEF Init
<1>4. /\ \A a \in Arrays : size[a] = 0 /\ scan_size[a] = 0
      /\ data.cur = "first" /\ data.snap = "first" /\ data \in [cur : Arrays, snap : Arrays]
  BY <1>3, Bounds DEF Pair
<1>5. Still \in [at : -2 .. MaxSize - 1, up : {0, 1}, front : Values \cup {Null}, safe : BOOLEAN]
  BY <1>2 DEF Still, Moving
<1>6. VsTypeOK
  BY <1>1, <1>2, <1>3, <1>4, <1>5 DEF VsTypeOK, Pairs
<1>7. SizesOK /\ MoveOK /\ CopyOK /\ DataOK
  BY <1>2, <1>3, <1>4 DEF SizesOK, MoveOK, CopyOK, DataOK
<1>8. FreshOK
  BY <1>1, <1>3, <1>4, Bounds DEF FreshOK
<1>9. ClearedOK /\ SettledOK
  BY <1>1 DEF ClearedOK, SettledOK, Pair
<1>10. PromiseOK /\ HigherOK /\ MendedOK /\ FollowedOK
  BY <1>1, <1>3 DEF PromiseOK, HigherOK, MendedOK, FollowedOK, GivenUp, Equal, Pair
<1> QED
  BY <1>6, <1>7, <1>8, <1>9, <1>10 DEF VectorInv

LEMMA InvNext ==
  ASSUME VectorInv, [Next]_vars
  PROVE  VectorInv'
<1>1. CASE UNCHANGED vars
  BY <1>1 DEF vars, vector, spoilt, collection, VectorInv, VsTypeOK, SizesOK, MoveOK, FreshOK, CopyOK,
     DataOK, ClearedOK, SettledOK, PromiseOK, HigherOK, MendedOK, FollowedOK, GivenUp, Top,
     Source, Filling, Equal
<1>2. ASSUME NEW v \in Values \cup {Null}, PushBack(v)
      PROVE  VectorInv'
  BY <1>2, InvPushBack
<1>3. ASSUME NEW v \in Values \cup {Null}, PushFront(v)
      PROVE  VectorInv'
  BY <1>3, InvPushFront
<1>4. ASSUME NEW v \in Values \cup {Null}, PushFrontFull(v)
      PROVE  VectorInv'
  BY <1>4, InvGrow DEF PushFrontFull
<1>5. ASSUME NEW n \in Positions, ShrinkTo(n) \/ ResizeTo(n)
      PROVE  VectorInv'
  BY <1>5, InvShrinkTo, InvResizeTo
<1>6. ASSUME NEW n \in Positions, NEW v \in Values \cup {Null}, FillTo(n, v)
      PROVE  VectorInv'
  BY <1>6, InvFillTo
<1>7. ASSUME Reserve
      PROVE  VectorInv'
  BY <1>7, InvGrow DEF Reserve
<1>8. ASSUME MoveElement \/ PassSafePoint \/ Finish \/ Border
      PROVE  VectorInv'
  BY <1>8, InvMoveElement, InvPassSafePoint, InvFinish, InvBorder
<1>9. ASSUME NEW a \in Arrays, Mark(a) \/ Restore(a)
      PROVE  VectorInv'
  BY <1>9, InvMark, InvRestore
<1> QED
  BY <1>1, <1>2, <1>3, <1>4, <1>5, <1>6, <1>7, <1>8, <1>9 DEF Next, Positions

LEMMA VectorInvariant == Spec => []VectorInv
<1>1. Init => VectorInv
  BY InvInit
<1>2. VectorInv /\ [Next]_vars => VectorInv'
  BY InvNext
<1> QED
  BY <1>1, <1>2, PTL DEF Spec

\* Whatever the mutator pushes, pops, clears or moves, with safe points anywhere in the loops
\* that move elements (Collectable.h 1128, 1577, 1593), while the collector marks a vector by its
\* scan_size (1051): of what was in the vector at the flip it misses at most the one element
\* push_front had past the end, what a resize left in its slots, and what a loop copied while
\* a snapshot was followed and brought into the vector after the last mending.
THEOREM NothingIsMissed == Spec => []NothingMissed
<1>1. VectorInv => NothingMissed
  <2> SUFFICES ASSUME VectorInv, Marked
               PROVE  promised \subseteq followed \cup displaced \cup kept \cup torn
    BY DEF NothingMissed, VectorInv
  <2> QED
    BY DEF Marked, VectorInv, PromiseOK
<1> QED
  BY <1>1, VectorInvariant, PTL

\* And it follows nothing but what was in the vector at the flip and what was left in slots that
\* size or scan_size gave up (1060, 1563); the slots past its size hold only what a resize left.
THEOREM NothingIsStale == Spec => []NothingStale
<1>1. VectorInv => NothingStale
  <2> SUFFICES ASSUME VectorInv
               PROVE  /\ followed \subseteq promised \cup kept \cup stale
                      /\ move = Still =>
                           \A i \in Positions : i >= size[data.cur] => cell[data.cur][i].cur \in kept \cup {Null}
    BY DEF NothingStale
  <2>1. followed \subseteq promised \cup kept \cup stale
    BY DEF VectorInv, PromiseOK, FollowedOK
  <2>2. ASSUME move = Still, NEW i \in Positions, i >= size[data.cur]
        PROVE  cell[data.cur][i].cur \in kept \cup {Null}
    BY <2>2, StateTypes DEF VectorInv, ClearedOK, Filling
  <2> QED
    BY <2>1, <2>2
<1> QED
  BY <1>1, VectorInvariant, PTL

-----------------------------------------------------------------------------
(* ScanLists *)

Sent == Threads \X {0, 1}
NodesOK == Nil \notin Sent \cup Cells /\ Sent \cap Cells = {} /\ IsFiniteSet(Cells)

\* The ring of the sentinel s has the cells w[s][1] to w[s][m[s]]; place 0 and the place after
\* the last are the sentinel.
Cyc(w, m, s, k) == IF k \in 1 .. m[s] THEN w[s][k] ELSE s
Ahead(w, m, s, k) == {w[s][j] : j \in k .. m[s]}

\* The cells are listed by w and m: each living one once, and no other.
Listed(f, w, m) ==
  /\ m \in [Sent -> Nat]
  /\ \A s \in Sent : \A k \in 1 .. m[s] : w[s][k] \in Cells /\ f[w[s][k]] # Nil
  /\ \A s, r \in Sent : \A j \in 1 .. m[s] : \A k \in 1 .. m[r] : w[s][j] = w[r][k] => s = r /\ j = k
  /\ \A c \in Cells : f[c] # Nil => \E s \in Sent : \E k \in 1 .. m[s] : w[s][k] = c

\* The links f and b go round the ring of s, or s has never been used.
Linked(f, b, w, m, s) == \A k \in 0 .. m[s] : f[Cyc(w, m, s, k)] = Cyc(w, m, s, k + 1)
                                              /\ b[Cyc(w, m, s, k + 1)] = Cyc(w, m, s, k)
Unused(f, b, m, s) == m[s] = 0 /\ f[s] = Nil /\ b[s] = Nil

Known(f) == {t \in Threads : f[<<t, 0>>] # Nil}

Ringed(f, b, w, m) ==
  /\ NodesOK
  /\ DOMAIN f = Sent \cup Cells /\ DOMAIN b = Sent \cup Cells
  /\ Listed(f, w, m)
  /\ \A s \in Sent : (s[1] \in Known(f) => Linked(f, b, w, m, s))
                     /\ (s[1] \notin Known(f) => Unused(f, b, m, s))

LEMMA CycFacts ==
  ASSUME NEW f, NEW b, NEW w, NEW m, Ringed(f, b, w, m), NEW s \in Sent
  PROVE  /\ m[s] \in Nat
         /\ Cyc(w, m, s, 0) = s /\ Cyc(w, m, s, m[s] + 1) = s
         /\ \A k \in 1 .. m[s] : Cyc(w, m, s, k) = w[s][k] /\ w[s][k] \in Cells /\ w[s][k] \notin Sent
         /\ \A k \in Nat : k \notin 1 .. m[s] => Cyc(w, m, s, k) = s
         /\ \A k \in Nat : Cyc(w, m, s, k) \in Sent \cup Cells /\ Cyc(w, m, s, k) # Nil
         /\ s \notin Cells /\ s # Nil
<1>1. m[s] \in Nat /\ s \notin Cells /\ s # Nil
  BY DEF Ringed, Listed, NodesOK
<1>2. \A k \in 1 .. m[s] : w[s][k] \in Cells /\ w[s][k] \notin Sent /\ w[s][k] # Nil
  BY DEF Ringed, Listed, NodesOK
<1> QED
  BY <1>1, <1>2 DEF Cyc

\* Two places hold the same node if they are the same, or both the sentinel's.
LEMMA CycApart ==
  ASSUME NEW f, NEW b, NEW w, NEW m, Ringed(f, b, w, m),
         NEW s \in Sent, NEW r \in Sent, NEW j \in 0 .. m[s] + 1, NEW k \in 0 .. m[r] + 1,
         Cyc(w, m, s, j) = Cyc(w, m, r, k)
  PROVE  s = r /\ (j = k \/ (j \in {0, m[s] + 1} /\ k \in {0, m[s] + 1}))
<1>1. m[s] \in Nat /\ m[r] \in Nat
  BY CycFacts
<1>2. /\ \A i \in 1 .. m[s] : w[s][i] \in Cells
      /\ \A i \in 1 .. m[r] : w[r][i] \in Cells
      /\ s \notin Cells /\ r \notin Cells
  BY CycFacts
<1>3. CASE j \in 1 .. m[s] /\ k \in 1 .. m[r]
  BY <1>3 DEF Ringed, Listed, Cyc
<1>4. CASE j \notin 1 .. m[s] /\ k \notin 1 .. m[r]
  BY <1>1, <1>4 DEF Cyc
<1>5. CASE j \in 1 .. m[s] /\ k \notin 1 .. m[r]
  BY <1>2, <1>5 DEF Cyc
<1>6. CASE j \notin 1 .. m[s] /\ k \in 1 .. m[r]
  BY <1>2, <1>6 DEF Cyc
<1> QED
  BY <1>3, <1>4, <1>5, <1>6

\* A node that has links is in exactly one ring, and its links are inverse to each other.
LEMMA NodesLinked ==
  ASSUME NEW f, NEW b, NEW w, NEW m, Ringed(f, b, w, m)
  PROVE  /\ \A c \in Cells : f[c] # Nil =>
              \E s \in Sent : s[1] \in Known(f) /\ \E k \in 1 .. m[s] : w[s][k] = c
         /\ \A s \in Sent : \A k \in 1 .. m[s] : s[1] \in Known(f)
         /\ \A s \in Sent : s[1] \in Known(f) => \A k \in 0 .. m[s] :
              /\ f[Cyc(w, m, s, k)] = Cyc(w, m, s, k + 1)
              /\ b[Cyc(w, m, s, k + 1)] = Cyc(w, m, s, k)
<1>1. ASSUME NEW s \in Sent, NEW k \in 1 .. m[s] PROVE s[1] \in Known(f)
  <2>1. m[s] \in Nat /\ m[s] # 0
    BY CycFacts
  <2> QED
    BY <2>1 DEF Ringed, Unused
<1>2. ASSUME NEW c \in Cells, f[c] # Nil
      PROVE  \E s \in Sent : s[1] \in Known(f) /\ \E k \in 1 .. m[s] : w[s][k] = c
  <2>1. PICK s \in Sent : \E k \in 1 .. m[s] : w[s][k] = c
    BY <1>2 DEF Ringed, Listed
  <2> QED
    BY <1>1, <2>1
<1>3. ASSUME NEW s \in Sent, s[1] \in Known(f), NEW k \in 0 .. m[s]
      PROVE  /\ f[Cyc(w, m, s, k)] = Cyc(w, m, s, k + 1)
             /\ b[Cyc(w, m, s, k + 1)] = Cyc(w, m, s, k)
  BY <1>3 DEF Ringed, Linked
<1> QED
  BY <1>1, <1>2, <1>3

-----------------------------------------------------------------------------
(* Linking a cell *)

\* c comes first in the ring of s.
Longer(m, s) == [m EXCEPT ![s] = @ + 1]
WithFirst(w, s, c) == [r \in Sent |-> IF r = s THEN [k \in Nat |-> IF k = 1 THEN c ELSE w[s][k - 1]] ELSE w[r]]

IsPushed(w2, m2, w, m, s, c) ==
  /\ m2 \in [Sent -> Nat]
  /\ m2[s] = m[s] + 1 /\ w2[s][1] = c
  /\ \A k \in 1 .. m[s] : w2[s][k + 1] = w[s][k]
  /\ \A r \in Sent : r # s => m2[r] = m[r] /\ w2[r] = w[r]

LEMMA PushedFacts ==
  ASSUME NEW w, NEW m \in [Sent -> Nat], NEW s \in Sent, NEW c
  PROVE  IsPushed(WithFirst(w, s, c), Longer(m, s), w, m, s, c)
<1>1. Longer(m, s) \in [Sent -> Nat] /\ Longer(m, s)[s] = m[s] + 1
      /\ \A r \in Sent : r # s => Longer(m, s)[r] = m[r]
  BY DEF Longer
<1>2. WithFirst(w, s, c)[s] = [k \in Nat |-> IF k = 1 THEN c ELSE w[s][k - 1]]
  BY DEF WithFirst
<1>3. \A r \in Sent : r # s => WithFirst(w, s, c)[r] = w[r]
  BY DEF WithFirst
<1>4. WithFirst(w, s, c)[s][1] = c
  BY <1>2
<1>5. ASSUME NEW k \in 1 .. m[s] PROVE WithFirst(w, s, c)[s][k + 1] = w[s][k]
  <2>1. k + 1 \in Nat /\ k + 1 # 1 /\ (k + 1) - 1 = k
    OBVIOUS
  <2> QED
    BY <1>2, <2>1
<1> QED
  BY <1>1, <1>3, <1>4, <1>5 DEF IsPushed

LEMMA PushedCyc ==
  ASSUME NEW f, NEW b, NEW w, NEW m, Ringed(f, b, w, m), NEW s \in Sent, NEW c
  PROVE  LET w2 == WithFirst(w, s, c)
             m2 == Longer(m, s)
         IN  /\ m2[s] = m[s] + 1
             /\ Cyc(w2, m2, s, 0) = s /\ Cyc(w2, m2, s, 1) = c
             /\ \A k \in 1 .. m[s] + 1 : /\ Cyc(w2, m2, s, k + 1) = Cyc(w, m, s, k)
                                         /\ Ahead(w2, m2, s, k + 1) = Ahead(w, m, s, k)
             /\ \A r \in Sent : r # s => /\ m2[r] = m[r]
                                         /\ \A k : /\ Cyc(w2, m2, r, k) = Cyc(w, m, r, k)
                                                   /\ Ahead(w2, m2, r, k) = Ahead(w, m, r, k)
<1> DEFINE w2 == WithFirst(w, s, c)
           m2 == Longer(m, s)
<1>0. m \in [Sent -> Nat] /\ m[s] \in Nat
  BY CycFacts DEF Ringed, Listed
<1>1. /\ m2[s] = m[s] + 1 /\ w2[s][1] = c
      /\ \A k \in 1 .. m[s] : w2[s][k + 1] = w[s][k]
      /\ \A r \in Sent : r # s => m2[r] = m[r] /\ w2[r] = w[r]
  <2>1. IsPushed(w2, m2, w, m, s, c)
    BY <1>0, PushedFacts
  <2> QED
    BY <2>1 DEF IsPushed
<1> HIDE DEF w2, m2
<1>2. Cyc(w2, m2, s, 0) = s /\ Cyc(w2, m2, s, 1) = c
  BY <1>0, <1>1 DEF Cyc
<1>3. ASSUME NEW k \in 1 .. m[s] + 1 PROVE Cyc(w2, m2, s, k + 1) = Cyc(w, m, s, k)
  <2>1. CASE k \in 1 .. m[s]
    BY <1>0, <1>1, <2>1 DEF Cyc
  <2>2. CASE k = m[s] + 1
    BY <1>0, <1>1, <2>2 DEF Cyc
  <2> QED
    BY <1>0, <2>1, <2>2
<1>4. ASSUME NEW k \in 1 .. m[s] + 1 PROVE Ahead(w2, m2, s, k + 1) = Ahead(w, m, s, k)
  <2>1. ASSUME NEW j \in k + 1 .. m2[s] PROVE w2[s][j] \in Ahead(w, m, s, k)
    <3>1. j - 1 \in 1 .. m[s] /\ j - 1 \in k .. m[s] /\ (j - 1) + 1 = j
      BY <1>0, <1>1
    <3>2. w2[s][j] = w[s][j - 1]
      BY <1>1, <3>1
    <3> QED
      BY <3>1, <3>2 DEF Ahead
  <2>2. ASSUME NEW j \in k .. m[s] PROVE w[s][j] \in Ahead(w2, m2, s, k + 1)
    <3>1. j \in 1 .. m[s] /\ j + 1 \in k + 1 .. m2[s]
      BY <1>0, <1>1
    <3>2. w2[s][j + 1] = w[s][j]
      BY <1>1, <3>1
    <3> QED
      BY <3>1, <3>2 DEF Ahead
  <2> QED
    BY <2>1, <2>2 DEF Ahead
<1>5. ASSUME NEW r \in Sent, r # s
      PROVE  /\ m2[r] = m[r]
             /\ \A k : /\ Cyc(w2, m2, r, k) = Cyc(w, m, r, k)
                       /\ Ahead(w2, m2, r, k) = Ahead(w, m, r, k)
  <2>1. m2[r] = m[r] /\ w2[r] = w[r]
    BY <1>1, <1>5
  <2> QED
    BY <2>1 DEF Cyc, Ahead
<1> QED
  BY <1>1, <1>2, <1>3, <1>4, <1>5 DEF w2, m2

\* The links after a cell c has been put behind the sentinel s.
LinkNext(f, s, c) == [f EXCEPT ![c] = f[s], ![s] = c]
LinkPrev(f, b, s, c) == [b EXCEPT ![c] = s, ![f[s]] = c]

LEMMA PushedRinged ==
  ASSUME NEW f, NEW b, NEW w, NEW m, Ringed(f, b, w, m),
         NEW s \in Sent, s[1] \in Known(f), NEW c \in Cells, f[c] = Nil
  PROVE  /\ Ringed(LinkNext(f, s, c), LinkPrev(f, b, s, c), WithFirst(w, s, c), Longer(m, s))
         /\ Known(LinkNext(f, s, c)) = Known(f)
<1> DEFINE f2 == LinkNext(f, s, c)
           b2 == LinkPrev(f, b, s, c)
           w2 == WithFirst(w, s, c)
           m2 == Longer(m, s)
           first == Cyc(w, m, s, 1)
<1>0. /\ NodesOK /\ DOMAIN f = Sent \cup Cells /\ DOMAIN b = Sent \cup Cells
      /\ m \in [Sent -> Nat] /\ m[s] \in Nat /\ c \notin Sent /\ s \notin Cells /\ c # s
  BY CycFacts DEF Ringed, Listed, NodesOK
<1>1. f[s] = first /\ first \in Sent \cup Cells /\ first # Nil /\ first # c
  <2>1. f[s] = first /\ first \in Sent \cup Cells /\ first # Nil
    <3>1. 0 \in 0 .. m[s] /\ 0 + 1 = 1 /\ Cyc(w, m, s, 0) = s
      BY <1>0, CycFacts
    <3>2. f[Cyc(w, m, s, 0)] = Cyc(w, m, s, 0 + 1)
      BY <3>1, NodesLinked
    <3>3. 1 \in Nat
      OBVIOUS
    <3> QED
      BY <3>1, <3>2, <3>3, CycFacts
  <2>2. first # c
    <3>1. CASE 1 \in 1 .. m[s]
      <4>1. first = w[s][1] /\ f[w[s][1]] # Nil
        BY <3>1 DEF Cyc, Ringed, Listed
      <4> QED
        BY <4>1
    <3>2. CASE 1 \notin 1 .. m[s]
      BY <1>0, <3>2 DEF Cyc
    <3> QED
      BY <3>1, <3>2
  <2> QED
    BY <2>1, <2>2
<1> HIDE DEF first
<1>2. /\ DOMAIN f2 = Sent \cup Cells /\ f2[c] = first /\ f2[s] = c
      /\ \A x \in Sent \cup Cells : x # c /\ x # s => f2[x] = f[x]
  BY <1>0, <1>1 DEF LinkNext
<1>3. /\ DOMAIN b2 = Sent \cup Cells /\ b2[c] = s /\ b2[first] = c
      /\ \A x \in Sent \cup Cells : x # c /\ x # first => b2[x] = b[x]
  BY <1>0, <1>1 DEF LinkPrev
<1>4. /\ m2[s] = m[s] + 1
      /\ Cyc(w2, m2, s, 0) = s /\ Cyc(w2, m2, s, 1) = c
      /\ \A k \in 1 .. m[s] + 1 : Cyc(w2, m2, s, k + 1) = Cyc(w, m, s, k)
      /\ \A r \in Sent : r # s => m2[r] = m[r] /\ \A k : Cyc(w2, m2, r, k) = Cyc(w, m, r, k)
  BY PushedCyc
<1>5. /\ m2 \in [Sent -> Nat] /\ w2[s][1] = c
      /\ \A k \in 1 .. m[s] : w2[s][k + 1] = w[s][k]
      /\ \A r \in Sent : r # s => w2[r] = w[r]
  <2>1. IsPushed(w2, m2, w, m, s, c)
    BY <1>0, PushedFacts
  <2> QED
    BY <2>1 DEF IsPushed
<1> HIDE DEF f2, b2, w2, m2
<1>6. Known(f2) = Known(f)
  <2>1. ASSUME NEW t \in Threads PROVE f2[<<t, 0>>] # Nil <=> f[<<t, 0>>] # Nil
    <3>1. <<t, 0>> \in Sent
      BY DEF Sent
    <3>2. c # Nil
      BY <1>0 DEF NodesOK
    <3> QED
      BY <1>0, <1>1, <1>2, <3>1, <3>2
  <2> QED
    BY <2>1 DEF Known
<1>7. Listed(f2, w2, m2)
  <2>1. ASSUME NEW r \in Sent, NEW k \in 1 .. m2[r]
        PROVE  \/ r = s /\ k = 1 /\ w2[r][k] = c
               \/ r = s /\ k # 1 /\ k - 1 \in 1 .. m[r] /\ w2[r][k] = w[r][k - 1]
               \/ r # s /\ k \in 1 .. m[r] /\ w2[r][k] = w[r][k]
    <3>1. CASE r = s /\ k = 1
      BY <1>5, <3>1
    <3>2. CASE r = s /\ k # 1
      <4>1. k - 1 \in 1 .. m[r] /\ (k - 1) + 1 = k
        BY <1>0, <1>4, <3>2
      <4> QED
        BY <1>5, <3>2, <4>1
    <3>3. CASE r # s
      BY <1>4, <1>5, <3>3
    <3> QED
      BY <3>1, <3>2, <3>3
  <2>2. ASSUME NEW r \in Sent, NEW k \in 1 .. m[r]
        PROVE  w[r][k] \in Cells /\ w[r][k] # c /\ w[r][k] # s /\ f[w[r][k]] # Nil /\ f2[w[r][k]] # Nil
    <3>1. w[r][k] \in Cells /\ f[w[r][k]] # Nil
      BY DEF Ringed, Listed
    <3> QED
      BY <1>0, <1>2, <3>1
  <2>3. ASSUME NEW r \in Sent, NEW k \in 1 .. m2[r]
        PROVE  w2[r][k] \in Cells /\ f2[w2[r][k]] # Nil
    BY <1>1, <1>2, <2>1, <2>2
  <2>4. ASSUME NEW q \in Sent, NEW r \in Sent, NEW j \in 1 .. m2[q], NEW k \in 1 .. m2[r],
               w2[q][j] = w2[r][k]
        PROVE  q = r /\ j = k
    <3>0. \A x, y \in Sent : \A i \in 1 .. m[x] : \A l \in 1 .. m[y] : w[x][i] = w[y][l] => x = y /\ i = l
      BY DEF Ringed, Listed
    <3>1. \/ q = s /\ j = 1 /\ w2[q][j] = c
          \/ q = s /\ j # 1 /\ j - 1 \in 1 .. m[q] /\ w2[q][j] = w[q][j - 1]
          \/ q # s /\ j \in 1 .. m[q] /\ w2[q][j] = w[q][j]
      BY <2>1
    <3>2. \/ r = s /\ k = 1 /\ w2[r][k] = c
          \/ r = s /\ k # 1 /\ k - 1 \in 1 .. m[r] /\ w2[r][k] = w[r][k - 1]
          \/ r # s /\ k \in 1 .. m[r] /\ w2[r][k] = w[r][k]
      BY <2>1
    <3>3. CASE w2[q][j] = c
      BY <2>2, <2>4, <3>1, <3>2, <3>3
    <3>4. CASE w2[q][j] # c /\ q = s /\ r = s
      <4>1. j - 1 \in 1 .. m[q] /\ k - 1 \in 1 .. m[r] /\ w[q][j - 1] = w[r][k - 1]
        BY <2>4, <3>1, <3>2, <3>4
      <4>2. q = r /\ j - 1 = k - 1
        BY <3>0, <4>1
      <4> QED
        BY <4>2
    <3>5. CASE w2[q][j] # c /\ ~(q = s /\ r = s)
      BY <2>4, <3>0, <3>1, <3>2, <3>5
    <3> QED
      BY <3>3, <3>4, <3>5
  <2>5. ASSUME NEW x \in Cells, f2[x] # Nil PROVE \E r \in Sent : \E k \in 1 .. m2[r] : w2[r][k] = x
    <3>1. CASE x = c
      <4>1. 1 \in 1 .. m2[s]
        BY <1>0, <1>4
      <4> QED
        BY <1>5, <3>1, <4>1
    <3>2. CASE x # c
      <4>1. f[x] # Nil
        BY <1>0, <1>2, <2>5, <3>2
      <4>2. PICK r \in Sent : \E k \in 1 .. m[r] : w[r][k] = x
        BY <4>1 DEF Ringed, Listed
      <4>3. PICK k \in 1 .. m[r] : w[r][k] = x
        BY <4>2
      <4>4. CASE r = s
        <5>1. k + 1 \in 1 .. m2[s] /\ w2[s][k + 1] = x
          BY <1>0, <1>4, <1>5, <4>3, <4>4
        <5> QED
          BY <5>1
      <4>5. CASE r # s
        BY <1>4, <1>5, <4>3, <4>5
      <4> QED
        BY <4>4, <4>5
    <3> QED
      BY <3>1, <3>2
  <2> QED
    BY <1>5, <2>3, <2>4, <2>5 DEF Listed
<1>8. ASSUME NEW k \in 0 .. m2[s]
      PROVE  /\ f2[Cyc(w2, m2, s, k)] = Cyc(w2, m2, s, k + 1)
             /\ b2[Cyc(w2, m2, s, k + 1)] = Cyc(w2, m2, s, k)
  <2>1. CASE k = 0
    BY <1>2, <1>3, <1>4, <2>1
  <2>2. CASE k = 1
    <3>1. 1 \in 1 .. m[s] + 1 /\ 1 + 1 = k + 1
      BY <1>0, <2>2
    <3>2. Cyc(w2, m2, s, k + 1) = first
      BY <1>4, <3>1 DEF first
    <3> QED
      BY <1>2, <1>3, <1>4, <2>2, <3>2
  <2>3. CASE k > 1
    <3> DEFINE j == k - 1
    <3>1. j \in 1 .. m[s] /\ j \in 0 .. m[s] /\ j \in 1 .. m[s] + 1 /\ j + 1 = k
          /\ k \in 1 .. m[s] + 1 /\ k \in 0 .. m[s] + 1 /\ k # 1
      BY <1>0, <1>4, <2>3
    <3> HIDE DEF j
    <3>2. Cyc(w2, m2, s, k) = Cyc(w, m, s, j) /\ Cyc(w2, m2, s, k + 1) = Cyc(w, m, s, k)
      BY <1>4, <3>1
    <3>3. f[Cyc(w, m, s, j)] = Cyc(w, m, s, k) /\ b[Cyc(w, m, s, k)] = Cyc(w, m, s, j)
      BY <3>1, NodesLinked
    <3>4. Cyc(w, m, s, j) = w[s][j] /\ w[s][j] \in Cells /\ f[w[s][j]] # Nil
      <4>1. Cyc(w, m, s, j) = w[s][j] /\ w[s][j] \in Cells
        BY <3>1, CycFacts
      <4>2. f[w[s][j]] # Nil
        BY <3>1 DEF Ringed, Listed
      <4> QED
        BY <4>1, <4>2
    <3>5. f2[Cyc(w, m, s, j)] = f[Cyc(w, m, s, j)]
      BY <1>0, <1>2, <3>4
    <3>6. Cyc(w, m, s, k) \in Sent \cup Cells /\ Cyc(w, m, s, k) # first
      <4>1. 1 \in 0 .. m[s] + 1
        BY <1>0
      <4>2. ~(k \in {0, m[s] + 1} /\ 1 \in {0, m[s] + 1})
        BY <1>0, <3>1
      <4>3. k \in Nat
        BY <3>1
      <4> QED
        BY <3>1, <4>1, <4>2, <4>3, CycApart, CycFacts DEF first
    <3>7. Cyc(w, m, s, k) # c
      <4>1. CASE k \in 1 .. m[s]
        <5>1. Cyc(w, m, s, k) = w[s][k] /\ f[w[s][k]] # Nil
          BY <4>1 DEF Cyc, Ringed, Listed
        <5> QED
          BY <5>1
      <4>2. CASE k \notin 1 .. m[s]
        BY <1>0, <4>2 DEF Cyc
      <4> QED
        BY <4>1, <4>2
    <3>8. b2[Cyc(w, m, s, k)] = b[Cyc(w, m, s, k)]
      BY <1>3, <3>6, <3>7
    <3> QED
      BY <3>2, <3>3, <3>5, <3>8
  <2> QED
    BY <1>0, <1>4, <2>1, <2>2, <2>3
<1>9. ASSUME NEW r \in Sent, r # s, r[1] \in Known(f), NEW k \in 0 .. m2[r]
      PROVE  /\ f2[Cyc(w2, m2, r, k)] = Cyc(w2, m2, r, k + 1)
             /\ b2[Cyc(w2, m2, r, k + 1)] = Cyc(w2, m2, r, k)
  <2>1. /\ m2[r] = m[r] /\ m[r] \in Nat /\ Cyc(w2, m2, r, k) = Cyc(w, m, r, k)
        /\ Cyc(w2, m2, r, k + 1) = Cyc(w, m, r, k + 1)
    BY <1>4, <1>9, CycFacts
  <2>2. f[Cyc(w, m, r, k)] = Cyc(w, m, r, k + 1) /\ b[Cyc(w, m, r, k + 1)] = Cyc(w, m, r, k)
    BY <1>9, <2>1, NodesLinked
  <2>3. ASSUME NEW j \in 0 .. m[r] + 1
        PROVE  /\ Cyc(w, m, r, j) \in Sent \cup Cells /\ Cyc(w, m, r, j) # c
               /\ Cyc(w, m, r, j) # s /\ Cyc(w, m, r, j) # first
    <3>1. Cyc(w, m, r, j) # s /\ Cyc(w, m, r, j) # first
      <4>1. 0 \in 0 .. m[s] + 1 /\ 1 \in 0 .. m[s] + 1 /\ Cyc(w, m, s, 0) = s
        BY <1>0, CycFacts
      <4> QED
        BY <1>9, <4>1, CycApart DEF first
    <3>2. Cyc(w, m, r, j) # c
      <4>1. CASE j \in 1 .. m[r]
        <5>1. Cyc(w, m, r, j) = w[r][j] /\ f[w[r][j]] # Nil
          BY <4>1 DEF Cyc, Ringed, Listed
        <5> QED
          BY <5>1
      <4>2. CASE j \notin 1 .. m[r]
        BY <1>0, <4>2 DEF Cyc
      <4> QED
        BY <4>1, <4>2
    <3>3. j \in Nat
      BY <2>1
    <3>4. Cyc(w, m, r, j) \in Sent \cup Cells
      BY <3>3, CycFacts
    <3> QED
      BY <3>1, <3>2, <3>4
  <2>4. k \in 0 .. m[r] + 1 /\ k + 1 \in 0 .. m[r] + 1
    BY <2>1
  <2>5. f2[Cyc(w, m, r, k)] = f[Cyc(w, m, r, k)]
    BY <1>2, <2>3, <2>4
  <2>6. b2[Cyc(w, m, r, k + 1)] = b[Cyc(w, m, r, k + 1)]
    BY <1>3, <2>3, <2>4
  <2> QED
    BY <2>1, <2>2, <2>5, <2>6
<1>10. ASSUME NEW r \in Sent, r[1] \notin Known(f) PROVE Unused(f2, b2, m2, r)
  <2>1. r # s /\ r # c /\ Unused(f, b, m, r)
    BY <1>0, <1>10 DEF Ringed
  <2>2. r # first
    <3>1. first = s \/ first \in Cells
      BY <1>0, CycFacts DEF first, Cyc
    <3>2. r \notin Cells
      BY <1>0 DEF NodesOK
    <3> QED
      BY <2>1, <3>1, <3>2
  <2> QED
    BY <1>2, <1>3, <1>4, <2>1, <2>2 DEF Unused
<1>11. \A r \in Sent : (r[1] \in Known(f2) => Linked(f2, b2, w2, m2, r))
                       /\ (r[1] \notin Known(f2) => Unused(f2, b2, m2, r))
  BY <1>6, <1>8, <1>9, <1>10 DEF Linked
<1> QED
  BY <1>0, <1>2, <1>3, <1>6, <1>7, <1>11 DEF Ringed, f2, b2, w2, m2

-----------------------------------------------------------------------------
(* Unlinking a cell *)

LEMMA CycDiffer ==
  ASSUME NEW f, NEW b, NEW w, NEW m, Ringed(f, b, w, m),
         NEW s \in Sent, NEW r \in Sent, NEW j \in 0 .. m[s] + 1, NEW k \in 0 .. m[r] + 1,
         s # r \/ (j # k /\ (j \in 1 .. m[s] \/ k \in 1 .. m[s]))
  PROVE  Cyc(w, m, s, j) # Cyc(w, m, r, k)
<1>1. m[s] \in Nat /\ m[r] \in Nat
  BY CycFacts
<1>2. SUFFICES ASSUME Cyc(w, m, s, j) = Cyc(w, m, r, k) PROVE FALSE
  OBVIOUS
<1>3. s = r /\ (j = k \/ (j \in {0, m[s] + 1} /\ k \in {0, m[s] + 1}))
  BY <1>2, CycApart
<1> QED
  BY <1>1, <1>3

\* The cell at place i of the ring of s is no longer in it.
Shorter(m, s) == [m EXCEPT ![s] = @ - 1]
Dropped(w, s, i) ==
  [r \in Sent |-> IF r = s THEN [k \in Nat |-> IF k < i THEN w[s][k] ELSE w[s][k + 1]] ELSE w[r]]

IsDropped(w2, m2, w, m, s, i) ==
  /\ m2 \in [Sent -> Nat]
  /\ m2[s] = m[s] - 1
  /\ \A k \in 1 .. i - 1 : w2[s][k] = w[s][k]
  /\ \A k \in i .. m[s] - 1 : w2[s][k] = w[s][k + 1]
  /\ \A r \in Sent : r # s => m2[r] = m[r] /\ w2[r] = w[r]

LEMMA DroppedFacts ==
  ASSUME NEW w, NEW m \in [Sent -> Nat], NEW s \in Sent, NEW i \in 1 .. m[s]
  PROVE  IsDropped(Dropped(w, s, i), Shorter(m, s), w, m, s, i)
<1>0. m[s] - 1 \in Nat
  OBVIOUS
<1>1. Shorter(m, s) \in [Sent -> Nat] /\ Shorter(m, s)[s] = m[s] - 1
      /\ \A r \in Sent : r # s => Shorter(m, s)[r] = m[r]
  BY <1>0 DEF Shorter
<1>2. Dropped(w, s, i)[s] = [k \in Nat |-> IF k < i THEN w[s][k] ELSE w[s][k + 1]]
  BY DEF Dropped
<1>3. \A r \in Sent : r # s => Dropped(w, s, i)[r] = w[r]
  BY DEF Dropped
<1>4. ASSUME NEW k \in 1 .. i - 1 PROVE Dropped(w, s, i)[s][k] = w[s][k]
  <2>1. k \in Nat /\ k < i
    OBVIOUS
  <2> QED
    BY <1>2, <2>1
<1>5. ASSUME NEW k \in i .. m[s] - 1 PROVE Dropped(w, s, i)[s][k] = w[s][k + 1]
  <2>1. k \in Nat /\ ~(k < i)
    OBVIOUS
  <2> QED
    BY <1>2, <2>1
<1> QED
  BY <1>1, <1>3, <1>4, <1>5 DEF IsDropped

LEMMA DroppedCyc ==
  ASSUME NEW f, NEW b, NEW w, NEW m, Ringed(f, b, w, m), NEW s \in Sent, NEW i \in 1 .. m[s]
  PROVE  LET w2 == Dropped(w, s, i)
             m2 == Shorter(m, s)
         IN  /\ m2[s] = m[s] - 1
             /\ \A k \in 0 .. i - 1 : Cyc(w2, m2, s, k) = Cyc(w, m, s, k)
             /\ \A k \in i .. m[s] : Cyc(w2, m2, s, k) = Cyc(w, m, s, k + 1)
             /\ Ahead(w2, m2, s, i) = Ahead(w, m, s, i + 1)
             /\ \A r \in Sent : r # s => /\ m2[r] = m[r]
                                         /\ \A k : /\ Cyc(w2, m2, r, k) = Cyc(w, m, r, k)
                                                   /\ Ahead(w2, m2, r, k) = Ahead(w, m, r, k)
<1> DEFINE w2 == Dropped(w, s, i)
           m2 == Shorter(m, s)
<1>0. m \in [Sent -> Nat] /\ m[s] \in Nat
  BY CycFacts DEF Ringed, Listed
<1>1. IsDropped(w2, m2, w, m, s, i)
  BY <1>0, DroppedFacts
<1> HIDE DEF w2, m2
<1>2. /\ m2[s] = m[s] - 1
      /\ \A k \in 1 .. i - 1 : w2[s][k] = w[s][k]
      /\ \A k \in i .. m[s] - 1 : w2[s][k] = w[s][k + 1]
      /\ \A r \in Sent : r # s => m2[r] = m[r] /\ w2[r] = w[r]
  BY <1>1 DEF IsDropped
<1>3. ASSUME NEW k \in 0 .. i - 1 PROVE Cyc(w2, m2, s, k) = Cyc(w, m, s, k)
  <2>1. CASE k = 0
    BY <1>0, <1>2, <2>1 DEF Cyc
  <2>2. CASE k \in 1 .. i - 1
    <3>1. k \in 1 .. m[s] /\ k \in 1 .. m2[s]
      BY <1>0, <1>2, <2>2
    <3> QED
      BY <1>2, <2>2, <3>1 DEF Cyc
  <2> QED
    BY <2>1, <2>2
<1>4. ASSUME NEW k \in i .. m[s] PROVE Cyc(w2, m2, s, k) = Cyc(w, m, s, k + 1)
  <2>1. CASE k = m[s]
    <3>1. k \notin 1 .. m2[s] /\ k + 1 \notin 1 .. m[s]
      BY <1>0, <1>2, <2>1
    <3> QED
      BY <3>1 DEF Cyc
  <2>2. CASE k \in i .. m[s] - 1
    <3>1. k \in 1 .. m2[s] /\ k + 1 \in 1 .. m[s]
      BY <1>0, <1>2, <2>2
    <3> QED
      BY <1>2, <2>2, <3>1 DEF Cyc
  <2> QED
    BY <1>0, <2>1, <2>2
<1>5. Ahead(w2, m2, s, i) = Ahead(w, m, s, i + 1)
  <2>1. ASSUME NEW j \in i .. m2[s] PROVE w2[s][j] \in Ahead(w, m, s, i + 1)
    <3>1. j \in i .. m[s] - 1 /\ j + 1 \in i + 1 .. m[s]
      BY <1>0, <1>2
    <3> QED
      BY <1>2, <3>1 DEF Ahead
  <2>2. ASSUME NEW j \in i + 1 .. m[s] PROVE w[s][j] \in Ahead(w2, m2, s, i)
    <3>1. j - 1 \in i .. m[s] - 1 /\ j - 1 \in i .. m2[s] /\ (j - 1) + 1 = j
      BY <1>0, <1>2
    <3>2. w2[s][j - 1] = w[s][j]
      BY <1>2, <3>1
    <3> QED
      BY <3>1, <3>2 DEF Ahead
  <2> QED
    BY <2>1, <2>2 DEF Ahead
<1>6. ASSUME NEW r \in Sent, r # s
      PROVE  /\ m2[r] = m[r]
             /\ \A k : /\ Cyc(w2, m2, r, k) = Cyc(w, m, r, k)
                       /\ Ahead(w2, m2, r, k) = Ahead(w, m, r, k)
  <2>1. m2[r] = m[r] /\ w2[r] = w[r]
    BY <1>2, <1>6
  <2> QED
    BY <2>1 DEF Cyc, Ahead
<1> QED
  BY <1>2, <1>3, <1>4, <1>5, <1>6 DEF w2, m2

\* The links after the destructor of a cell c.
CutNext(f, b, c) == [f EXCEPT ![b[c]] = f[c], ![c] = Nil]
CutPrev(f, b, c) == [b EXCEPT ![f[c]] = b[c], ![c] = Nil]

LEMMA DroppedRinged ==
  ASSUME NEW f, NEW b, NEW w, NEW m, Ringed(f, b, w, m),
         NEW s \in Sent, NEW i \in 1 .. m[s], NEW c, c = w[s][i]
  PROVE  /\ Ringed(CutNext(f, b, c), CutPrev(f, b, c), Dropped(w, s, i), Shorter(m, s))
         /\ Known(CutNext(f, b, c)) = Known(f)
<1> DEFINE f2 == CutNext(f, b, c)
           b2 == CutPrev(f, b, c)
           w2 == Dropped(w, s, i)
           m2 == Shorter(m, s)
           pred == Cyc(w, m, s, i - 1)
           succ == Cyc(w, m, s, i + 1)
<1>0. /\ NodesOK /\ DOMAIN f = Sent \cup Cells /\ DOMAIN b = Sent \cup Cells
      /\ m \in [Sent -> Nat] /\ m[s] \in Nat /\ s \notin Cells
  <2>1. m[s] \in Nat /\ s \notin Cells
    BY CycFacts
  <2> QED
    BY <2>1 DEF Ringed, Listed
<1>1. c \in Cells /\ c \notin Sent /\ Cyc(w, m, s, i) = c
  BY CycFacts
<1>2. s[1] \in Known(f) /\ f[c] = succ /\ b[c] = pred
  <2>1. s[1] \in Known(f)
    BY NodesLinked
  <2>2. i \in 0 .. m[s] /\ i - 1 \in 0 .. m[s] /\ (i - 1) + 1 = i
    BY <1>0
  <2>3. f[Cyc(w, m, s, i)] = succ
    BY <2>1, <2>2, NodesLinked
  <2>4. b[Cyc(w, m, s, (i - 1) + 1)] = pred
    BY <2>1, <2>2, NodesLinked
  <2> QED
    BY <1>1, <2>1, <2>2, <2>3, <2>4
<1>3. /\ i \in 0 .. m[s] + 1 /\ i - 1 \in 0 .. m[s] + 1 /\ i + 1 \in 0 .. m[s] + 1
      /\ i - 1 \in Nat /\ i + 1 \in Nat
  BY <1>0
<1>4. /\ pred \in Sent \cup Cells /\ pred # c
      /\ succ \in Sent \cup Cells /\ succ # c /\ succ # Nil
  <2>1. pred # Cyc(w, m, s, i)
    BY <1>3, CycDiffer
  <2>2. succ # Cyc(w, m, s, i)
    BY <1>3, CycDiffer
  <2> QED
    BY <1>1, <1>3, <2>1, <2>2, CycFacts
<1> HIDE DEF pred, succ
<1>5. /\ DOMAIN f2 = Sent \cup Cells /\ f2[pred] = succ /\ f2[c] = Nil
      /\ \A x \in Sent \cup Cells : x # c /\ x # pred => f2[x] = f[x]
  BY <1>0, <1>1, <1>2, <1>4 DEF CutNext
<1>6. /\ DOMAIN b2 = Sent \cup Cells /\ b2[succ] = pred
      /\ \A x \in Sent \cup Cells : x # c /\ x # succ => b2[x] = b[x]
  BY <1>0, <1>1, <1>2, <1>4 DEF CutPrev
<1>7. /\ m2[s] = m[s] - 1
      /\ \A k \in 0 .. i - 1 : Cyc(w2, m2, s, k) = Cyc(w, m, s, k)
      /\ \A k \in i .. m[s] : Cyc(w2, m2, s, k) = Cyc(w, m, s, k + 1)
      /\ \A r \in Sent : r # s => m2[r] = m[r] /\ \A k : Cyc(w2, m2, r, k) = Cyc(w, m, r, k)
  BY DroppedCyc
<1>8. /\ m2 \in [Sent -> Nat]
      /\ \A k \in 1 .. i - 1 : w2[s][k] = w[s][k]
      /\ \A k \in i .. m[s] - 1 : w2[s][k] = w[s][k + 1]
      /\ \A r \in Sent : r # s => w2[r] = w[r]
  <2>1. IsDropped(w2, m2, w, m, s, i)
    BY <1>0, DroppedFacts
  <2> QED
    BY <2>1 DEF IsDropped
<1> HIDE DEF f2, b2, w2, m2
<1>9. Known(f2) = Known(f)
  <2>1. ASSUME NEW t \in Threads PROVE f2[<<t, 0>>] # Nil <=> f[<<t, 0>>] # Nil
    <3>1. <<t, 0>> \in Sent
      BY DEF Sent
    <3>2. CASE <<t, 0>> = pred
      <4>1. pred = s
        BY <1>3, <3>1, <3>2, CycFacts DEF pred
      <4>2. s[1] = t
        BY <3>2, <4>1
      <4>3. f[<<t, 0>>] # Nil
        BY <1>2, <4>2 DEF Known
      <4> QED
        BY <1>4, <1>5, <3>2, <4>3
    <3>3. CASE <<t, 0>> # pred
      BY <1>1, <1>5, <3>1, <3>3
    <3> QED
      BY <3>2, <3>3
  <2> QED
    BY <2>1 DEF Known
<1>10. Listed(f2, w2, m2)
  <2>1. ASSUME NEW r \in Sent, NEW k \in 1 .. m2[r]
        PROVE  \/ r = s /\ k < i /\ k \in 1 .. m[r] /\ w2[r][k] = w[r][k]
               \/ r = s /\ k >= i /\ k + 1 \in 1 .. m[r] /\ w2[r][k] = w[r][k + 1]
               \/ r # s /\ k \in 1 .. m[r] /\ w2[r][k] = w[r][k]
    <3>1. CASE r = s /\ k < i
      <4>1. k \in 1 .. i - 1 /\ k \in 1 .. m[r]
        BY <1>0, <1>7, <3>1
      <4> QED
        BY <1>8, <3>1, <4>1
    <3>2. CASE r = s /\ k >= i
      <4>1. k \in i .. m[s] - 1 /\ k + 1 \in 1 .. m[r]
        BY <1>0, <1>7, <3>2
      <4> QED
        BY <1>8, <3>2, <4>1
    <3>3. CASE r # s
      BY <1>7, <1>8, <3>3
    <3> QED
      BY <3>1, <3>2, <3>3
  <2>2. \A x, y \in Sent : \A j \in 1 .. m[x] : \A l \in 1 .. m[y] : w[x][j] = w[y][l] => x = y /\ j = l
    BY DEF Ringed, Listed
  <2>3. ASSUME NEW r \in Sent, NEW k \in 1 .. m[r], r # s \/ k # i
        PROVE  w[r][k] \in Cells /\ f2[w[r][k]] # Nil
    <3>1. w[r][k] \in Cells /\ f[w[r][k]] # Nil
      BY DEF Ringed, Listed
    <3>2. w[r][k] # c
      BY <2>2, <2>3
    <3> QED
      BY <1>4, <1>5, <3>1, <3>2
  <2>4. ASSUME NEW r \in Sent, NEW k \in 1 .. m2[r]
        PROVE  w2[r][k] \in Cells /\ f2[w2[r][k]] # Nil
    <3>1. CASE r = s /\ k < i
      <4>1. k # i /\ k \in 1 .. m[r] /\ w2[r][k] = w[r][k]
        BY <2>1, <3>1
      <4> QED
        BY <2>3, <4>1
    <3>2. CASE r = s /\ k >= i
      <4>1. k + 1 # i /\ k + 1 \in 1 .. m[r] /\ w2[r][k] = w[r][k + 1]
        BY <2>1, <3>2
      <4> QED
        BY <2>3, <4>1
    <3>3. CASE r # s
      BY <2>1, <2>3, <3>3
    <3> QED
      BY <3>1, <3>2, <3>3
  <2>5. ASSUME NEW q \in Sent, NEW r \in Sent, NEW j \in 1 .. m2[q], NEW k \in 1 .. m2[r],
               w2[q][j] = w2[r][k]
        PROVE  q = r /\ j = k
    <3>1. PICK j2 \in {j, j + 1} : j2 \in 1 .. m[q] /\ w2[q][j] = w[q][j2]
                                   /\ (q = s /\ j >= i => j2 = j + 1)
                                   /\ (~(q = s /\ j >= i) => j2 = j)
      BY <2>1
    <3>2. PICK k2 \in {k, k + 1} : k2 \in 1 .. m[r] /\ w2[r][k] = w[r][k2]
                                   /\ (r = s /\ k >= i => k2 = k + 1)
                                   /\ (~(r = s /\ k >= i) => k2 = k)
      BY <2>1
    <3>3. w[q][j2] = w[r][k2] /\ j2 \in 1 .. m[q] /\ k2 \in 1 .. m[r]
      BY <2>5, <3>1, <3>2
    <3>4. q = r /\ j2 = k2
      BY <2>2, <3>3
    <3> QED
      BY <3>1, <3>2, <3>4
  <2>6. ASSUME NEW x \in Cells, f2[x] # Nil PROVE \E r \in Sent : \E k \in 1 .. m2[r] : w2[r][k] = x
    <3>1. x # c /\ f[x] # Nil
      <4>1. x # c
        BY <1>5, <2>6
      <4>2. CASE x = pred
        <5>1. i - 1 \in 1 .. m[s] /\ pred = w[s][i - 1]
          BY <1>0, <1>3, <4>2, CycFacts DEF pred, NodesOK
        <5> QED
          BY <4>1, <4>2, <5>1 DEF Ringed, Listed
      <4>3. CASE x # pred
        BY <1>5, <2>6, <4>1, <4>3
      <4> QED
        BY <4>1, <4>2, <4>3
    <3>2. PICK r \in Sent : \E k \in 1 .. m[r] : w[r][k] = x
      BY <3>1 DEF Ringed, Listed
    <3>3. PICK k \in 1 .. m[r] : w[r][k] = x
      BY <3>2
    <3>4. CASE r # s
      BY <1>7, <1>8, <3>3, <3>4
    <3>5. CASE r = s /\ k < i
      <4>1. k \in 1 .. i - 1 /\ k \in 1 .. m2[s]
        BY <1>0, <1>7, <3>5
      <4> QED
        BY <1>8, <3>3, <3>5, <4>1
    <3>6. CASE r = s /\ k > i
      <4>1. k - 1 \in i .. m[s] - 1 /\ k - 1 \in 1 .. m2[s] /\ (k - 1) + 1 = k
        BY <1>0, <1>7, <3>6
      <4>2. w2[s][k - 1] = x
        BY <1>8, <3>3, <3>6, <4>1
      <4> QED
        BY <4>1, <4>2
    <3>7. ~(r = s /\ k = i)
      BY <3>1, <3>3
    <3> QED
      BY <1>0, <3>4, <3>5, <3>6, <3>7
  <2> QED
    BY <1>8, <2>4, <2>5, <2>6 DEF Listed
<1>11. ASSUME NEW k \in 0 .. m2[s]
       PROVE  /\ f2[Cyc(w2, m2, s, k)] = Cyc(w2, m2, s, k + 1)
              /\ b2[Cyc(w2, m2, s, k + 1)] = Cyc(w2, m2, s, k)
  <2>0. /\ \A j \in 0 .. m[s] : /\ f[Cyc(w, m, s, j)] = Cyc(w, m, s, j + 1)
                                /\ b[Cyc(w, m, s, j + 1)] = Cyc(w, m, s, j)
    BY <1>2, NodesLinked
  <2>1. CASE k = i - 1
    <3>1. k \in 0 .. i - 1 /\ k + 1 = i /\ i \in i .. m[s]
      BY <1>0, <2>1
    <3>2. Cyc(w2, m2, s, k) = pred
      BY <1>7, <2>1, <3>1 DEF pred
    <3>3. Cyc(w2, m2, s, k + 1) = succ
      BY <1>7, <3>1 DEF succ
    <3> QED
      BY <1>5, <1>6, <3>2, <3>3
  <2> DEFINE l == IF k < i THEN k ELSE k + 1
  <2>2. CASE k # i - 1
    <3>1. l \in 0 .. m[s] /\ l \in 0 .. m[s] + 1 /\ l + 1 \in 0 .. m[s] + 1 /\ l \in Nat /\ l + 1 \in Nat
      BY <1>0, <1>7, <2>2
    <3>2. Cyc(w2, m2, s, k) = Cyc(w, m, s, l)
      <4>1. k \in 0 .. i - 1 \/ k \in i .. m[s]
        BY <1>0, <1>7
      <4>2. CASE k \in 0 .. i - 1
        <5>1. l = k
          BY <4>2
        <5> HIDE DEF l
        <5> QED
          BY <1>7, <4>2, <5>1
      <4>3. CASE k \in i .. m[s]
        <5>1. l = k + 1
          BY <4>3
        <5> HIDE DEF l
        <5> QED
          BY <1>7, <4>3, <5>1
      <4> QED
        BY <4>1, <4>2, <4>3
    <3>3. Cyc(w2, m2, s, k + 1) = Cyc(w, m, s, l + 1)
      <4>1. CASE k < i
        <5>1. l = k /\ k + 1 \in 0 .. i - 1
          BY <1>0, <1>7, <2>2, <4>1
        <5> HIDE DEF l
        <5> QED
          BY <1>7, <5>1
      <4>2. CASE ~(k < i)
        <5>1. l = k + 1 /\ k + 1 \in i .. m[s]
          BY <1>0, <1>7, <4>2
        <5> HIDE DEF l
        <5> QED
          BY <1>7, <5>1
      <4> QED
        BY <4>1, <4>2
    <3>4. l # i - 1 /\ (l \in 1 .. m[s] \/ i - 1 \in 1 .. m[s]) /\ l # i /\ i \in 1 .. m[s]
      BY <1>0, <1>7, <2>2
    <3>5. l + 1 # i + 1 /\ (l + 1 \in 1 .. m[s] \/ i + 1 \in 1 .. m[s]) /\ l + 1 # i
      BY <1>0, <1>7, <2>2
    <3> HIDE DEF l
    <3>6. Cyc(w, m, s, l) # pred
      BY <1>3, <3>1, <3>4, CycDiffer DEF pred
    <3>7. Cyc(w, m, s, l) # c
      BY <1>1, <1>3, <3>1, <3>4, CycDiffer
    <3>8. Cyc(w, m, s, l + 1) # succ
      BY <1>3, <3>1, <3>5, CycDiffer DEF succ
    <3>9. Cyc(w, m, s, l + 1) # c
      BY <1>1, <1>3, <3>1, <3>4, <3>5, CycDiffer
    <3>10. Cyc(w, m, s, l) \in Sent \cup Cells /\ Cyc(w, m, s, l + 1) \in Sent \cup Cells
      BY <3>1, CycFacts
    <3>11. f[Cyc(w, m, s, l)] = Cyc(w, m, s, l + 1) /\ b[Cyc(w, m, s, l + 1)] = Cyc(w, m, s, l)
      BY <2>0, <3>1
    <3> QED
      BY <1>5, <1>6, <3>2, <3>3, <3>6, <3>7, <3>8, <3>9, <3>10, <3>11
  <2> QED
    BY <2>1, <2>2
<1>12. ASSUME NEW r \in Sent, r # s, r[1] \in Known(f), NEW k \in 0 .. m2[r]
       PROVE  /\ f2[Cyc(w2, m2, r, k)] = Cyc(w2, m2, r, k + 1)
              /\ b2[Cyc(w2, m2, r, k + 1)] = Cyc(w2, m2, r, k)
  <2>1. /\ m2[r] = m[r] /\ m[r] \in Nat /\ Cyc(w2, m2, r, k) = Cyc(w, m, r, k)
        /\ Cyc(w2, m2, r, k + 1) = Cyc(w, m, r, k + 1)
    BY <1>7, <1>12, CycFacts
  <2>2. f[Cyc(w, m, r, k)] = Cyc(w, m, r, k + 1) /\ b[Cyc(w, m, r, k + 1)] = Cyc(w, m, r, k)
    BY <1>12, <2>1, NodesLinked
  <2>3. k \in 0 .. m[r] + 1 /\ k + 1 \in 0 .. m[r] + 1 /\ k \in Nat /\ k + 1 \in Nat
    BY <2>1
  <2>4. Cyc(w, m, r, k) # pred
    BY <1>3, <1>12, <2>3, CycDiffer DEF pred
  <2>5. Cyc(w, m, r, k) # c
    BY <1>1, <1>3, <1>12, <2>3, CycDiffer
  <2>6. Cyc(w, m, r, k + 1) # succ
    BY <1>3, <1>12, <2>3, CycDiffer DEF succ
  <2>7. Cyc(w, m, r, k + 1) # c
    BY <1>1, <1>3, <1>12, <2>3, CycDiffer
  <2>8. Cyc(w, m, r, k) \in Sent \cup Cells /\ Cyc(w, m, r, k + 1) \in Sent \cup Cells
    BY <2>3, CycFacts
  <2> QED
    BY <1>5, <1>6, <2>1, <2>2, <2>4, <2>5, <2>6, <2>7, <2>8
<1>13. ASSUME NEW r \in Sent, r[1] \notin Known(f) PROVE Unused(f2, b2, m2, r)
  <2>1. r # s /\ r # c /\ Unused(f, b, m, r)
    BY <1>1, <1>2, <1>13 DEF Ringed
  <2>2. r # pred /\ r # succ
    <3>1. (pred = s \/ pred \in Cells) /\ (succ = s \/ succ \in Cells)
      BY <1>3, CycFacts DEF pred, succ
    <3>2. r \notin Cells
      BY <1>0 DEF NodesOK
    <3> QED
      BY <2>1, <3>1, <3>2
  <2> QED
    BY <1>5, <1>6, <1>7, <2>1, <2>2 DEF Unused
<1>14. \A r \in Sent : (r[1] \in Known(f2) => Linked(f2, b2, w2, m2, r))
                       /\ (r[1] \notin Known(f2) => Unused(f2, b2, m2, r))
  BY <1>9, <1>11, <1>12, <1>13 DEF Linked
<1> QED
  BY <1>0, <1>5, <1>6, <1>9, <1>10, <1>14 DEF Ringed, f2, b2, w2, m2

-----------------------------------------------------------------------------
(* Joining two rings *)

\* The cells of s go before those of d, and s is empty.
JoinedLen(m, s, d) == [m EXCEPT ![d] = m[s] + m[d], ![s] = 0]
Joined(w, m, s, d) ==
  [r \in Sent |-> IF r = d THEN [k \in Nat |-> IF k <= m[s] THEN w[s][k] ELSE w[d][k - m[s]]] ELSE w[r]]

IsJoined(w2, m2, w, m, s, d) ==
  /\ m2 \in [Sent -> Nat]
  /\ m2[s] = 0 /\ m2[d] = m[s] + m[d]
  /\ \A k \in 1 .. m[s] : w2[d][k] = w[s][k]
  /\ \A k \in 1 .. m[d] : w2[d][m[s] + k] = w[d][k]
  /\ \A r \in Sent : r # s /\ r # d => m2[r] = m[r] /\ w2[r] = w[r]

LEMMA JoinedFacts ==
  ASSUME NEW w, NEW m \in [Sent -> Nat], NEW s \in Sent, NEW d \in Sent, s # d
  PROVE  IsJoined(Joined(w, m, s, d), JoinedLen(m, s, d), w, m, s, d)
<1>0. m[s] + m[d] \in Nat
  OBVIOUS
<1>1. /\ JoinedLen(m, s, d) \in [Sent -> Nat]
      /\ JoinedLen(m, s, d)[s] = 0 /\ JoinedLen(m, s, d)[d] = m[s] + m[d]
      /\ \A r \in Sent : r # s /\ r # d => JoinedLen(m, s, d)[r] = m[r]
  BY <1>0 DEF JoinedLen
<1>2. Joined(w, m, s, d)[d] = [k \in Nat |-> IF k <= m[s] THEN w[s][k] ELSE w[d][k - m[s]]]
  BY DEF Joined
<1>3. \A r \in Sent : r # d => Joined(w, m, s, d)[r] = w[r]
  BY DEF Joined
<1>4. ASSUME NEW k \in 1 .. m[s] PROVE Joined(w, m, s, d)[d][k] = w[s][k]
  <2>1. k \in Nat /\ k <= m[s]
    OBVIOUS
  <2> QED
    BY <1>2, <2>1
<1>5. ASSUME NEW k \in 1 .. m[d] PROVE Joined(w, m, s, d)[d][m[s] + k] = w[d][k]
  <2>1. m[s] + k \in Nat /\ ~(m[s] + k <= m[s]) /\ (m[s] + k) - m[s] = k
    OBVIOUS
  <2> QED
    BY <1>2, <2>1
<1> QED
  BY <1>1, <1>3, <1>4, <1>5 DEF IsJoined

\* A place of the joined ring is one of the first ring or one of the second.
JoinsPlaces(w2, m2, w, m, s, d) ==
  /\ \A k : Cyc(w2, m2, s, k) = s
  /\ Cyc(w2, m2, d, 0) = d
  /\ \A k \in 1 .. m[s] : Cyc(w2, m2, d, k) = Cyc(w, m, s, k)
  /\ \A k \in 1 .. m[d] + 1 : Cyc(w2, m2, d, m[s] + k) = Cyc(w, m, d, k)
  /\ \A r \in Sent : r # s /\ r # d => \A k : Cyc(w2, m2, r, k) = Cyc(w, m, r, k)

LEMMA JoinedCyc ==
  ASSUME NEW w2, NEW m2, NEW w, NEW m \in [Sent -> Nat], NEW s \in Sent, NEW d \in Sent, s # d,
         IsJoined(w2, m2, w, m, s, d)
  PROVE  JoinsPlaces(w2, m2, w, m, s, d)
<1>0. m[s] \in Nat /\ m[d] \in Nat
  OBVIOUS
<1>1. \A k : Cyc(w2, m2, s, k) = s
  BY DEF Cyc, IsJoined
<1>2. Cyc(w2, m2, d, 0) = d
  BY <1>0 DEF Cyc, IsJoined
<1>3. ASSUME NEW k \in 1 .. m[s] PROVE Cyc(w2, m2, d, k) = Cyc(w, m, s, k)
  <2>1. k \in 1 .. m2[d]
    BY <1>0 DEF IsJoined
  <2> QED
    BY <2>1 DEF Cyc, IsJoined
<1>4. ASSUME NEW k \in 1 .. m[d] + 1 PROVE Cyc(w2, m2, d, m[s] + k) = Cyc(w, m, d, k)
  <2>1. m2[d] = m[s] + m[d]
    BY DEF IsJoined
  <2>2. CASE k \in 1 .. m[d]
    <3>1. m[s] + k \in 1 .. m2[d]
      BY <1>0, <2>1, <2>2
    <3>2. w2[d][m[s] + k] = w[d][k]
      BY <2>2 DEF IsJoined
    <3> QED
      BY <2>2, <3>1, <3>2 DEF Cyc
  <2>3. CASE k = m[d] + 1
    <3>1. m[s] + k \notin 1 .. m2[d] /\ k \notin 1 .. m[d]
      BY <1>0, <2>1, <2>3
    <3> QED
      BY <3>1 DEF Cyc
  <2> QED
    BY <1>0, <2>2, <2>3
<1>5. ASSUME NEW r \in Sent, r # s /\ r # d, NEW k PROVE Cyc(w2, m2, r, k) = Cyc(w, m, r, k)
  <2>1. m2[r] = m[r] /\ w2[r] = w[r]
    BY <1>5 DEF IsJoined
  <2> QED
    BY <2>1 DEF Cyc
<1> QED
  BY <1>1, <1>2, <1>3, <1>4, <1>5 DEF JoinsPlaces

\* The links after merge_from_to.
JoinNext(f, b, s, d) == [f EXCEPT ![b[s]] = f[d], ![d] = f[s], ![s] = s]
JoinPrev(f, b, s, d) == [b EXCEPT ![f[s]] = d, ![f[d]] = b[s], ![s] = s]

LEMMA JoinedListed ==
  ASSUME NEW f, NEW f2, NEW w2, NEW m2, NEW w, NEW m, Listed(f, w, m),
         NEW s \in Sent, NEW d \in Sent, s # d,
         IsJoined(w2, m2, w, m, s, d),
         \A x \in Cells : f2[x] # Nil <=> f[x] # Nil
  PROVE  Listed(f2, w2, m2)
<1>0. /\ m \in [Sent -> Nat] /\ m[s] \in Nat /\ m[d] \in Nat
      /\ m2 \in [Sent -> Nat] /\ m2[s] = 0 /\ m2[d] = m[s] + m[d]
  BY DEF Listed, IsJoined
<1>1. \A x, y \in Sent : \A j \in 1 .. m[x] : \A l \in 1 .. m[y] : w[x][j] = w[y][l] => x = y /\ j = l
  BY DEF Listed
<1>2. ASSUME NEW r \in Sent, NEW k \in 1 .. m2[r]
      PROVE  \E x \in Sent : \E l \in 1 .. m[x] :
               /\ w2[r][k] = w[x][l]
               /\ r # d => x = r /\ l = k
               /\ r = d => (x = s /\ l = k) \/ (x = d /\ l = k - m[s])
               /\ r # s
  <2>0. r # s
    BY <1>0
  <2>1. CASE r = d /\ k \in 1 .. m[s]
    <3>1. w2[r][k] = w[s][k]
      BY <2>1 DEF IsJoined
    <3> QED
      BY <2>0, <2>1, <3>1
  <2>2. CASE r = d /\ k \notin 1 .. m[s]
    <3>1. k - m[s] \in 1 .. m[d] /\ m[s] + (k - m[s]) = k
      BY <1>0, <2>2
    <3>2. w2[r][m[s] + (k - m[s])] = w[d][k - m[s]]
      BY <2>2, <3>1 DEF IsJoined
    <3>3. w2[r][k] = w[d][k - m[s]]
      BY <3>1, <3>2
    <3> QED
      BY <2>0, <2>2, <3>1, <3>3
  <2>3. CASE r # d
    <3>1. m2[r] = m[r] /\ w2[r] = w[r]
      BY <2>0, <2>3 DEF IsJoined
    <3> QED
      BY <2>0, <2>3, <3>1
  <2> QED
    BY <2>1, <2>2, <2>3
<1>3. ASSUME NEW r \in Sent, NEW k \in 1 .. m2[r] PROVE w2[r][k] \in Cells /\ f2[w2[r][k]] # Nil
  <2>1. PICK x \in Sent : \E l \in 1 .. m[x] : w2[r][k] = w[x][l]
    BY <1>2
  <2>2. PICK l \in 1 .. m[x] : w2[r][k] = w[x][l]
    BY <2>1
  <2>3. w[x][l] \in Cells /\ f[w[x][l]] # Nil
    BY DEF Listed
  <2> QED
    BY <2>2, <2>3
<1>4. ASSUME NEW q \in Sent, NEW r \in Sent, NEW j \in 1 .. m2[q], NEW k \in 1 .. m2[r],
             w2[q][j] = w2[r][k]
      PROVE  q = r /\ j = k
  <2>1. PICK x \in Sent : \E l \in 1 .. m[x] :
               /\ w2[q][j] = w[x][l]
               /\ q # d => x = q /\ l = j
               /\ q = d => (x = s /\ l = j) \/ (x = d /\ l = j - m[s])
               /\ q # s
    BY <1>2
  <2>2. PICK l \in 1 .. m[x] :
               /\ w2[q][j] = w[x][l]
               /\ q # d => x = q /\ l = j
               /\ q = d => (x = s /\ l = j) \/ (x = d /\ l = j - m[s])
               /\ q # s
    BY <2>1
  <2>3. PICK y \in Sent : \E i \in 1 .. m[y] :
               /\ w2[r][k] = w[y][i]
               /\ r # d => y = r /\ i = k
               /\ r = d => (y = s /\ i = k) \/ (y = d /\ i = k - m[s])
               /\ r # s
    BY <1>2
  <2>4. PICK i \in 1 .. m[y] :
               /\ w2[r][k] = w[y][i]
               /\ r # d => y = r /\ i = k
               /\ r = d => (y = s /\ i = k) \/ (y = d /\ i = k - m[s])
               /\ r # s
    BY <2>3
  <2>5. x = y /\ l = i
    <3>1. w[x][l] = w[y][i]
      BY <1>4, <2>2, <2>4
    <3> QED
      BY <1>1, <3>1
  <2>6. m[s] \in Nat /\ j \in Int /\ k \in Int
    BY <1>0
  <2> QED
    BY <2>2, <2>4, <2>5, <2>6
<1>5. ASSUME NEW x \in Cells, f2[x] # Nil PROVE \E r \in Sent : \E k \in 1 .. m2[r] : w2[r][k] = x
  <2>1. f[x] # Nil
    BY <1>5
  <2>2. PICK r \in Sent : \E k \in 1 .. m[r] : w[r][k] = x
    BY <2>1 DEF Listed
  <2>3. PICK k \in 1 .. m[r] : w[r][k] = x
    BY <2>2
  <2>4. CASE r = s
    <3>1. k \in 1 .. m2[d]
      BY <1>0, <2>4
    <3>2. w2[d][k] = x
      BY <2>3, <2>4 DEF IsJoined
    <3> QED
      BY <3>1, <3>2
  <2>5. CASE r = d
    <3>1. m[s] + k \in 1 .. m2[d]
      BY <1>0, <2>5
    <3>2. w2[d][m[s] + k] = x
      BY <2>3, <2>5 DEF IsJoined
    <3> QED
      BY <3>1, <3>2
  <2>6. CASE r # s /\ r # d
    <3>1. m2[r] = m[r] /\ w2[r] = w[r]
      BY <2>6 DEF IsJoined
    <3> QED
      BY <2>3, <3>1
  <2> QED
    BY <2>4, <2>5, <2>6
<1> QED
  BY <1>0, <1>3, <1>4, <1>5 DEF Listed

LEMMA JoinedRinged ==
  ASSUME NEW f, NEW b, NEW w, NEW m, Ringed(f, b, w, m),
         NEW s \in Sent, NEW d \in Sent, s # d, s[1] \in Known(f), d[1] \in Known(f), m[s] > 1
  PROVE  /\ Ringed(JoinNext(f, b, s, d), JoinPrev(f, b, s, d), Joined(w, m, s, d), JoinedLen(m, s, d))
         /\ Known(JoinNext(f, b, s, d)) = Known(f)
<1> DEFINE f2 == JoinNext(f, b, s, d)
           b2 == JoinPrev(f, b, s, d)
           w2 == Joined(w, m, s, d)
           m2 == JoinedLen(m, s, d)
           last == Cyc(w, m, s, m[s])
           first == Cyc(w, m, s, 1)
           then == Cyc(w, m, d, 1)
<1>0. /\ NodesOK /\ DOMAIN f = Sent \cup Cells /\ DOMAIN b = Sent \cup Cells
      /\ m \in [Sent -> Nat] /\ m[s] \in Nat /\ m[d] \in Nat /\ s \notin Cells /\ d \notin Cells
      /\ \A r \in Sent : r # Nil /\ r \notin Cells
  BY DEF Ringed, Listed, NodesOK
<1>1. /\ \A k \in 0 .. m[s] : f[Cyc(w, m, s, k)] = Cyc(w, m, s, k + 1)
                              /\ b[Cyc(w, m, s, k + 1)] = Cyc(w, m, s, k)
      /\ \A k \in 0 .. m[d] : f[Cyc(w, m, d, k)] = Cyc(w, m, d, k + 1)
                              /\ b[Cyc(w, m, d, k + 1)] = Cyc(w, m, d, k)
  BY NodesLinked
<1>2. f[s] = first /\ b[s] = last /\ f[d] = then
  <2>1. 0 \in 0 .. m[s] /\ 0 \in 0 .. m[d] /\ m[s] \in 0 .. m[s] /\ 0 + 1 = 1
    BY <1>0
  <2>2. Cyc(w, m, s, 0) = s /\ Cyc(w, m, d, 0) = d /\ Cyc(w, m, s, m[s] + 1) = s
    BY CycFacts
  <2> QED
    BY <1>1, <2>1, <2>2
<1>3. /\ 1 \in 1 .. m[s] /\ m[s] \in 1 .. m[s] /\ 1 # m[s]
      /\ 0 \in 0 .. m[s] + 1 /\ 1 \in 0 .. m[s] + 1 /\ m[s] \in 0 .. m[s] + 1
      /\ 0 \in 0 .. m[d] + 1 /\ 1 \in 0 .. m[d] + 1
  BY <1>0
<1>4. /\ first \in Cells /\ last \in Cells /\ then \in Sent \cup Cells
      /\ first # last /\ then # first /\ then # last /\ then # s
  <2>1. first \in Cells /\ last \in Cells /\ then \in Sent \cup Cells
    <3>1. 1 \in Nat
      OBVIOUS
    <3> QED
      BY <1>3, <3>1, CycFacts
  <2>2. first # last
    BY <1>3, CycDiffer
  <2>3. then # first /\ then # last
    BY <1>3, CycDiffer
  <2>4. then # Cyc(w, m, s, 0) /\ Cyc(w, m, s, 0) = s
    BY <1>3, CycDiffer, CycFacts
  <2> QED
    BY <2>1, <2>2, <2>3, <2>4
<1> HIDE DEF last, first, then
<1>5. /\ DOMAIN f2 = Sent \cup Cells /\ f2[last] = then /\ f2[d] = first /\ f2[s] = s
      /\ \A x \in Sent \cup Cells : x # last /\ x # d /\ x # s => f2[x] = f[x]
  BY <1>0, <1>2, <1>4 DEF JoinNext
<1>6. /\ DOMAIN b2 = Sent \cup Cells /\ b2[first] = d /\ b2[then] = last /\ b2[s] = s
      /\ \A x \in Sent \cup Cells : x # first /\ x # then /\ x # s => b2[x] = b[x]
  BY <1>0, <1>2, <1>4 DEF JoinPrev
<1>7. IsJoined(w2, m2, w, m, s, d)
  BY <1>0, JoinedFacts
<1> HIDE DEF f2, b2, w2, m2
<1>8. m2 \in [Sent -> Nat] /\ m2[s] = 0 /\ m2[d] = m[s] + m[d]
      /\ \A r \in Sent : r # s /\ r # d => m2[r] = m[r]
  BY <1>7 DEF IsJoined
<1>9. /\ \A k : Cyc(w2, m2, s, k) = s
      /\ Cyc(w2, m2, d, 0) = d
      /\ \A k \in 1 .. m[s] : Cyc(w2, m2, d, k) = Cyc(w, m, s, k)
      /\ \A k \in 1 .. m[d] + 1 : Cyc(w2, m2, d, m[s] + k) = Cyc(w, m, d, k)
      /\ \A r \in Sent : r # s /\ r # d => \A k : Cyc(w2, m2, r, k) = Cyc(w, m, r, k)
  <2>1. JoinsPlaces(w2, m2, w, m, s, d)
    BY <1>0, <1>7, JoinedCyc
  <2> QED
    BY <2>1 DEF JoinsPlaces
<1>10. \A x \in Cells : f2[x] # Nil <=> f[x] # Nil
  <2>1. f2[last] # Nil /\ f[last] # Nil
    <3>1. then # Nil
      BY <1>0, <1>4 DEF NodesOK
    <3>2. last = w[s][m[s]]
      BY <1>3 DEF last, Cyc
    <3>3. f[w[s][m[s]]] # Nil
      BY <1>3 DEF Ringed, Listed
    <3> QED
      BY <1>5, <3>1, <3>2, <3>3
  <2>2. ASSUME NEW x \in Cells, x # last PROVE f2[x] = f[x]
    BY <1>0, <1>5, <2>2
  <2> QED
    BY <2>1, <2>2
<1>11. Listed(f2, w2, m2)
  <2>1. Listed(f, w, m)
    BY DEF Ringed
  <2> QED
    BY <1>7, <1>10, <2>1, JoinedListed
<1>12. Known(f2) = Known(f)
  <2>1. ASSUME NEW r \in Sent PROVE f2[r] # Nil <=> f[r] # Nil
    <3>1. f[s] # Nil /\ f2[s] # Nil /\ f[d] # Nil /\ f2[d] # Nil
      BY <1>0, <1>2, <1>4, <1>5 DEF NodesOK
    <3>2. r \notin Cells
      BY <1>0
    <3>3. CASE r # s /\ r # d
      BY <1>4, <1>5, <3>2, <3>3
    <3> QED
      BY <3>1, <3>3
  <2>2. \A t \in Threads : <<t, 0>> \in Sent
    BY DEF Sent
  <2> QED
    BY <2>1, <2>2 DEF Known
<1>13. ASSUME NEW k \in 0 .. m2[d]
       PROVE  /\ f2[Cyc(w2, m2, d, k)] = Cyc(w2, m2, d, k + 1)
              /\ b2[Cyc(w2, m2, d, k + 1)] = Cyc(w2, m2, d, k)
  <2>1. CASE k = 0
    <3>1. Cyc(w2, m2, d, k) = d /\ Cyc(w2, m2, d, k + 1) = first
      BY <1>3, <1>9, <2>1 DEF first
    <3> QED
      BY <1>5, <1>6, <3>1
  <2>2. CASE k \in 1 .. m[s] - 1
    <3>1. k \in 1 .. m[s] /\ k + 1 \in 1 .. m[s] /\ k \in 0 .. m[s]
          /\ k \in 0 .. m[s] + 1 /\ k + 1 \in 0 .. m[s] + 1 /\ k # m[s] /\ k + 1 # 1
      BY <1>0, <2>2
    <3>2. Cyc(w2, m2, d, k) = Cyc(w, m, s, k) /\ Cyc(w2, m2, d, k + 1) = Cyc(w, m, s, k + 1)
      BY <1>9, <3>1
    <3>3. f[Cyc(w, m, s, k)] = Cyc(w, m, s, k + 1) /\ b[Cyc(w, m, s, k + 1)] = Cyc(w, m, s, k)
      BY <1>1, <3>1
    <3>4. Cyc(w, m, s, k) \in Cells /\ Cyc(w, m, s, k + 1) \in Cells
      BY <3>1, CycFacts
    <3>5. Cyc(w, m, s, k) # last
      BY <1>3, <3>1, CycDiffer DEF last
    <3>6. Cyc(w, m, s, k + 1) # first
      BY <1>3, <3>1, CycDiffer DEF first
    <3>7. Cyc(w, m, s, k + 1) # then
      BY <1>3, <3>1, CycDiffer DEF then
    <3> QED
      BY <1>0, <1>5, <1>6, <3>2, <3>3, <3>4, <3>5, <3>6, <3>7
  <2>3. CASE k = m[s]
    <3>1. k \in 1 .. m[s] /\ 1 \in 1 .. m[d] + 1 /\ k + 1 = m[s] + 1
      BY <1>0, <1>3, <2>3
    <3>2. Cyc(w2, m2, d, k) = last
      BY <1>9, <2>3, <3>1 DEF last
    <3>3. Cyc(w2, m2, d, k + 1) = then
      BY <1>9, <3>1 DEF then
    <3> QED
      BY <1>5, <1>6, <3>2, <3>3
  <2>4. CASE k > m[s]
    <3>1. PICK j \in 1 .. m[d] : k = m[s] + j
      <4>1. k - m[s] \in 1 .. m[d] /\ k = m[s] + (k - m[s])
        BY <1>0, <1>8, <2>4
      <4> QED
        BY <4>1
    <3>2. j \in 1 .. m[d] + 1 /\ j + 1 \in 1 .. m[d] + 1 /\ j \in 0 .. m[d]
          /\ j \in 0 .. m[d] + 1 /\ j + 1 \in 0 .. m[d] + 1 /\ j + 1 # 1 /\ j # 0
          /\ k + 1 = m[s] + (j + 1) /\ j + 1 \in Nat /\ 1 \in 1 .. m[d]
      BY <1>0, <3>1
    <3>3. Cyc(w2, m2, d, k) = Cyc(w, m, d, j) /\ Cyc(w2, m2, d, k + 1) = Cyc(w, m, d, j + 1)
      BY <1>9, <3>1, <3>2
    <3>4. f[Cyc(w, m, d, j)] = Cyc(w, m, d, j + 1) /\ b[Cyc(w, m, d, j + 1)] = Cyc(w, m, d, j)
      BY <1>1, <3>2
    <3>5. Cyc(w, m, d, j) \in Cells /\ Cyc(w, m, d, j + 1) \in Sent \cup Cells
      BY <3>1, <3>2, CycFacts
    <3>6. Cyc(w, m, d, j) # last /\ Cyc(w, m, d, j + 1) # first
      BY <1>3, <3>2, CycDiffer DEF last, first
    <3>7. Cyc(w, m, d, j + 1) # then
      BY <1>3, <3>1, <3>2, CycDiffer DEF then
    <3>8. Cyc(w, m, d, j + 1) # s
      <4>1. Cyc(w, m, d, j + 1) # Cyc(w, m, s, 0) /\ Cyc(w, m, s, 0) = s
        BY <1>3, <3>2, CycDiffer, CycFacts
      <4> QED
        BY <4>1
    <3>9. Cyc(w, m, d, j) # d /\ Cyc(w, m, d, j) # s
      BY <1>0, <3>5
    <3> QED
      BY <1>5, <1>6, <3>3, <3>4, <3>5, <3>6, <3>7, <3>8, <3>9
  <2> QED
    BY <1>0, <1>3, <1>8, <2>1, <2>2, <2>3, <2>4
<1>14. ASSUME NEW k \in 0 .. m2[s]
       PROVE  /\ f2[Cyc(w2, m2, s, k)] = Cyc(w2, m2, s, k + 1)
              /\ b2[Cyc(w2, m2, s, k + 1)] = Cyc(w2, m2, s, k)
  BY <1>5, <1>6, <1>9
<1>15. ASSUME NEW r \in Sent, r # s, r # d, r[1] \in Known(f), NEW k \in 0 .. m2[r]
       PROVE  /\ f2[Cyc(w2, m2, r, k)] = Cyc(w2, m2, r, k + 1)
              /\ b2[Cyc(w2, m2, r, k + 1)] = Cyc(w2, m2, r, k)
  <2>1. /\ m2[r] = m[r] /\ m[r] \in Nat /\ Cyc(w2, m2, r, k) = Cyc(w, m, r, k)
        /\ Cyc(w2, m2, r, k + 1) = Cyc(w, m, r, k + 1)
    BY <1>0, <1>8, <1>9, <1>15
  <2>2. f[Cyc(w, m, r, k)] = Cyc(w, m, r, k + 1) /\ b[Cyc(w, m, r, k + 1)] = Cyc(w, m, r, k)
    BY <1>15, <2>1, NodesLinked
  <2>3. k \in 0 .. m[r] + 1 /\ k + 1 \in 0 .. m[r] + 1
    BY <2>1
  <2>4. ASSUME NEW j \in 0 .. m[r] + 1
        PROVE  /\ Cyc(w, m, r, j) \in Sent \cup Cells
               /\ Cyc(w, m, r, j) # last /\ Cyc(w, m, r, j) # first /\ Cyc(w, m, r, j) # then
               /\ Cyc(w, m, r, j) # s /\ Cyc(w, m, r, j) # d
    <3>1. Cyc(w, m, r, j) # last /\ Cyc(w, m, r, j) # first
      BY <1>3, <1>15, CycDiffer DEF last, first
    <3>2. Cyc(w, m, r, j) # then
      BY <1>3, <1>15, CycDiffer DEF then
    <3>3. Cyc(w, m, r, j) # Cyc(w, m, s, 0)
      BY <1>3, <1>15, CycDiffer
    <3>4. Cyc(w, m, r, j) # Cyc(w, m, d, 0)
      BY <1>3, <1>15, CycDiffer
    <3>5. Cyc(w, m, s, 0) = s /\ Cyc(w, m, d, 0) = d
      BY CycFacts
    <3>6. j \in Nat
      BY <2>1
    <3>7. Cyc(w, m, r, j) \in Sent \cup Cells
      BY <3>6, CycFacts
    <3> QED
      BY <3>1, <3>2, <3>3, <3>4, <3>5, <3>7
  <2>5. f2[Cyc(w, m, r, k)] = f[Cyc(w, m, r, k)]
    BY <1>5, <2>3, <2>4
  <2>6. b2[Cyc(w, m, r, k + 1)] = b[Cyc(w, m, r, k + 1)]
    BY <1>6, <2>3, <2>4
  <2> QED
    BY <2>1, <2>2, <2>5, <2>6
<1>16. ASSUME NEW r \in Sent, r[1] \notin Known(f) PROVE Unused(f2, b2, m2, r)
  <2>1. r # s /\ r # d /\ Unused(f, b, m, r) /\ r \notin Cells
    BY <1>0, <1>16 DEF Ringed
  <2>2. r # then
    <3>1. then = d \/ then \in Cells
      BY <1>0, CycFacts DEF then, Cyc
    <3> QED
      BY <2>1, <3>1
  <2> QED
    BY <1>4, <1>5, <1>6, <1>8, <2>1, <2>2 DEF Unused
<1>17. \A r \in Sent : (r[1] \in Known(f2) => Linked(f2, b2, w2, m2, r))
                       /\ (r[1] \notin Known(f2) => Unused(f2, b2, m2, r))
  BY <1>12, <1>13, <1>14, <1>15, <1>16 DEF Linked
<1> QED
  BY <1>0, <1>5, <1>6, <1>11, <1>12, <1>17 DEF Ringed, f2, b2, w2, m2

-----------------------------------------------------------------------------
(* A walk from the sentinel *)

\* g is the function that Ring is computed with, and its values up to n links.
IsWalk(g) ==
  g = [n \in 0 .. Cardinality(Cells) |->
        [x \in Nodes \cup {Nil} |-> IF n = 0 \/ x \notin Cells THEN {} ELSE {x} \cup g[n - 1][next[x]]]]
WalkTo(g, m) ==
  g = [n \in 0 .. m |->
        [x \in Nodes \cup {Nil} |-> IF n = 0 \/ x \notin Cells THEN {} ELSE {x} \cup g[n - 1][next[x]]]]

LEMMA WalkExists ==
  ASSUME IsFiniteSet(Cells)
  PROVE  \E g : IsWalk(g)
<1> DEFINE T == {m \in Nat : \E g : WalkTo(g, m)}
<1>1. 0 \in T
  <2> DEFINE g == [n \in 0 .. 0 |-> [x \in Nodes \cup {Nil} |-> {}]]
  <2>1. WalkTo(g, 0)
    BY DEF WalkTo
  <2> QED
    BY <2>1
<1>2. ASSUME NEW m \in Nat, m \in T PROVE m + 1 \in T
  <2>1. PICK h : WalkTo(h, m)
    BY <1>2
  <2> DEFINE g == [n \in 0 .. m + 1 |->
                    [x \in Nodes \cup {Nil} |->
                      IF n = 0 \/ x \notin Cells THEN {} ELSE {x} \cup h[n - 1][next[x]]]]
  <2>2. ASSUME NEW n \in 0 .. m PROVE g[n] = h[n]
    <3>1. h = [k \in 0 .. m |-> [x \in Nodes \cup {Nil} |->
                 IF k = 0 \/ x \notin Cells THEN {} ELSE {x} \cup h[k - 1][next[x]]]]
      BY <2>1 DEF WalkTo
    <3>2. h[n] = [x \in Nodes \cup {Nil} |->
                   IF n = 0 \/ x \notin Cells THEN {} ELSE {x} \cup h[n - 1][next[x]]]
      BY <3>1
    <3>3. n \in 0 .. m + 1
      OBVIOUS
    <3>4. g[n] = [x \in Nodes \cup {Nil} |->
                   IF n = 0 \/ x \notin Cells THEN {} ELSE {x} \cup h[n - 1][next[x]]]
      BY <3>3
    <3> QED
      BY <3>2, <3>4
  <2>3. ASSUME NEW n \in 0 .. m + 1
        PROVE  g[n] = [x \in Nodes \cup {Nil} |->
                        IF n = 0 \/ x \notin Cells THEN {} ELSE {x} \cup g[n - 1][next[x]]]
    <3>1. CASE n = 0
      BY <3>1
    <3>2. CASE n # 0
      <4>1. n - 1 \in 0 .. m
        BY <3>2
      <4>2. g[n - 1] = h[n - 1]
        BY <4>1, <2>2
      <4>3. g[n] = [x \in Nodes \cup {Nil} |->
                     IF n = 0 \/ x \notin Cells THEN {} ELSE {x} \cup h[n - 1][next[x]]]
        OBVIOUS
      <4> HIDE DEF g
      <4> QED
        BY <4>2, <4>3
    <3> QED
      BY <3>1, <3>2
  <2>4. WalkTo(g, m + 1)
    BY <2>3 DEF WalkTo
  <2> QED
    BY <2>4
<1> HIDE DEF T
<1>3. Cardinality(Cells) \in T
  <2>1. Cardinality(Cells) \in Nat
    BY FS_CardinalityType
  <2> QED
    BY <1>1, <1>2, <2>1, CountUp
<1> QED
  BY <1>3 DEF T, IsWalk, WalkTo

LEMMA RingDef ==
  ASSUME IsFiniteSet(Cells)
  PROVE  \E g : IsWalk(g) /\ \A s : Ring(s) = g[Cardinality(Cells)][next[s]]
<1> DEFINE g == CHOOSE g : IsWalk(g)
<1>1. IsWalk(g)
  BY WalkExists
<1>2. \A s : Ring(s) = g[Cardinality(Cells)][next[s]]
  BY DEF Ring, IsWalk
<1> QED
  BY <1>1, <1>2

LEMMA AheadFacts ==
  ASSUME NEW f, NEW b, NEW w, NEW m, Ringed(f, b, w, m), NEW s \in Sent
  PROVE  /\ \A k \in Nat : k > m[s] => Ahead(w, m, s, k) = {}
         /\ \A k \in 1 .. m[s] : Ahead(w, m, s, k) = {w[s][k]} \cup Ahead(w, m, s, k + 1)
         /\ \A k \in Nat \ {0} : Ahead(w, m, s, k) \subseteq Cells
<1>1. m[s] \in Nat /\ \A k \in 1 .. m[s] : w[s][k] \in Cells
  BY CycFacts
<1>2. ASSUME NEW k \in Nat, k > m[s] PROVE Ahead(w, m, s, k) = {}
  <2>1. k .. m[s] = {}
    BY <1>1, <1>2
  <2> QED
    BY <2>1 DEF Ahead
<1>3. ASSUME NEW k \in 1 .. m[s] PROVE Ahead(w, m, s, k) = {w[s][k]} \cup Ahead(w, m, s, k + 1)
  <2>1. k .. m[s] = {k} \cup (k + 1 .. m[s])
    BY <1>1
  <2> QED
    BY <2>1 DEF Ahead
<1>4. ASSUME NEW k \in Nat \ {0} PROVE Ahead(w, m, s, k) \subseteq Cells
  <2>1. \A j \in k .. m[s] : j \in 1 .. m[s]
    BY <1>1
  <2> QED
    BY <1>1, <2>1 DEF Ahead
<1> QED
  BY <1>2, <1>3, <1>4

LEMMA RingIsShort ==
  ASSUME NEW f, NEW b, NEW w, NEW m, Ringed(f, b, w, m), NEW s \in Sent
  PROVE  m[s] <= Cardinality(Cells)
<1> DEFINE u == [k \in 1 .. m[s] |-> w[s][k]]
<1>1. m[s] \in Nat /\ \A k \in 1 .. m[s] : w[s][k] \in Cells
  BY CycFacts
<1>2. \A k, l \in 1 .. m[s] : w[s][k] = w[s][l] => k = l
  BY DEF Ringed, Listed
<1>3. u \in Injection(1 .. m[s], Cells)
  BY <1>1, <1>2 DEF Injection, IsInjective
<1>4. IsFiniteSet(Cells)
  BY DEF Ringed, NodesOK
<1>5. Cardinality(1 .. m[s]) = m[s]
  BY <1>1, FS_Interval
<1>6. Cardinality(1 .. m[s]) <= Cardinality(Cells)
  BY <1>3, <1>4, FS_Injection
<1> QED
  BY <1>5, <1>6

LEMMA RingIs ==
  ASSUME NEW w, NEW m, Ringed(next, prev, w, m), NEW s \in Sent
  PROVE  Ring(s) = Ahead(w, m, s, 1)
<1> DEFINE N == Cardinality(Cells)
<1>0. /\ IsFiniteSet(Cells) /\ Nil \notin Cells /\ N \in Nat /\ m[s] \in Nat /\ m[s] <= N
      /\ Nodes = Sent \cup Cells
  <2>1. IsFiniteSet(Cells) /\ Nil \notin Cells
    BY DEF Ringed, NodesOK
  <2>2. N = Cardinality(Cells) /\ Cardinality(Cells) \in Nat
    BY <2>1, FS_CardinalityType
  <2>3. m[s] \in Nat /\ m[s] <= Cardinality(Cells)
    BY RingIsShort, CycFacts
  <2>4. Nodes = Sent \cup Cells
    BY DEF Nodes, Sentinels, Sent
  <2> HIDE DEF N
  <2> QED
    BY <2>1, <2>2, <2>3, <2>4
<1>1. PICK g : IsWalk(g) /\ \A r : Ring(r) = g[N][next[r]]
  BY <1>0, RingDef
<1>2. ASSUME NEW n \in 0 .. N, NEW x \in Sent \cup Cells \cup {Nil}
      PROVE  g[n][x] = IF n = 0 \/ x \notin Cells THEN {} ELSE {x} \cup g[n - 1][next[x]]
  <2>1. g = [k \in 0 .. N |-> [y \in Nodes \cup {Nil} |->
              IF k = 0 \/ y \notin Cells THEN {} ELSE {y} \cup g[k - 1][next[y]]]]
    BY <1>1 DEF IsWalk
  <2>2. g[n] = [y \in Nodes \cup {Nil} |->
                 IF n = 0 \/ y \notin Cells THEN {} ELSE {y} \cup g[n - 1][next[y]]]
    BY <2>1
  <2> QED
    BY <1>0, <2>2
<1> HIDE DEF N
<1> DEFINE T == {n \in Nat : n <= N => \A k \in 1 .. m[s] + 1 :
                    m[s] + 1 - k <= n => g[n][Cyc(w, m, s, k)] = Ahead(w, m, s, k)}
<1>3. /\ s \in Sent \cup Cells \cup {Nil} /\ s \notin Cells
      /\ \A k \in 1 .. m[s] : Cyc(w, m, s, k) = w[s][k] /\ w[s][k] \in Cells
      /\ Cyc(w, m, s, m[s] + 1) = s
  BY CycFacts
<1>4. /\ Ahead(w, m, s, m[s] + 1) = {}
      /\ \A k \in 1 .. m[s] : Ahead(w, m, s, k) = {w[s][k]} \cup Ahead(w, m, s, k + 1)
  <2>1. m[s] + 1 \in Nat /\ m[s] + 1 > m[s]
    BY <1>0
  <2> QED
    BY <2>1, AheadFacts
<1>5. \A n \in 0 .. N : g[n][s] = {}
  BY <1>2, <1>3
<1>6. 0 \in T
  <2> SUFFICES ASSUME NEW k \in 1 .. m[s] + 1, m[s] + 1 - k <= 0
               PROVE  g[0][Cyc(w, m, s, k)] = Ahead(w, m, s, k)
    OBVIOUS
  <2>1. k = m[s] + 1 /\ 0 \in 0 .. N
    BY <1>0
  <2> QED
    BY <1>3, <1>4, <1>5, <2>1
<1>7. ASSUME NEW n \in Nat, n \in T PROVE n + 1 \in T
  <2> SUFFICES ASSUME n + 1 <= N, NEW k \in 1 .. m[s] + 1, m[s] + 1 - k <= n + 1
               PROVE  g[n + 1][Cyc(w, m, s, k)] = Ahead(w, m, s, k)
    OBVIOUS
  <2>1. n <= N /\ n + 1 \in 0 .. N /\ n + 1 # 0 /\ (n + 1) - 1 = n
    BY <1>0
  <2>2. CASE k = m[s] + 1
    BY <1>3, <1>4, <1>5, <2>1, <2>2
  <2>3. CASE k \in 1 .. m[s]
    <3>1. k + 1 \in 1 .. m[s] + 1 /\ m[s] + 1 - (k + 1) <= n /\ k \in 0 .. m[s]
      BY <1>0, <2>3
    <3>2. g[n][Cyc(w, m, s, k + 1)] = Ahead(w, m, s, k + 1)
      BY <1>7, <2>1, <3>1
    <3>3. next[Cyc(w, m, s, k)] = Cyc(w, m, s, k + 1)
      BY <2>3, <3>1, NodesLinked
    <3>4. \A x \in Cells : g[n + 1][x] = {x} \cup g[n][next[x]]
      <4>1. \A x \in Cells : g[n + 1][x] = {x} \cup g[(n + 1) - 1][next[x]]
        BY <1>2, <2>1
      <4> QED
        BY <2>1, <4>1
    <3>5. Cyc(w, m, s, k) \in Cells /\ Cyc(w, m, s, k) = w[s][k]
      BY <1>3, <2>3
    <3>6. g[n + 1][Cyc(w, m, s, k)] = {w[s][k]} \cup Ahead(w, m, s, k + 1)
      BY <3>2, <3>3, <3>4, <3>5
    <3> QED
      BY <1>4, <2>3, <3>6
  <2> QED
    BY <1>0, <2>2, <2>3
<1>8. N \in T
  <2> HIDE DEF T
  <2> QED
    BY <1>0, <1>6, <1>7, CountUp
<1>9. CASE s[1] \in Known(next)
  <2>1. 1 \in 1 .. m[s] + 1 /\ m[s] + 1 - 1 <= N /\ N <= N
    BY <1>0
  <2>2. g[N][Cyc(w, m, s, 1)] = Ahead(w, m, s, 1)
    BY <1>8, <2>1
  <2>3. next[s] = Cyc(w, m, s, 1)
    <3>1. 0 \in 0 .. m[s] /\ 0 + 1 = 1 /\ Cyc(w, m, s, 0) = s
      BY <1>0, CycFacts
    <3>2. next[Cyc(w, m, s, 0)] = Cyc(w, m, s, 0 + 1)
      BY <1>9, <3>1, NodesLinked
    <3> QED
      BY <3>1, <3>2
  <2> QED
    BY <1>1, <2>2, <2>3
<1>10. CASE s[1] \notin Known(next)
  <2>1. m[s] = 0 /\ next[s] = Nil
    BY <1>10 DEF Ringed, Unused
  <2>2. Ahead(w, m, s, 1) = {}
    BY <1>4, <2>1
  <2>3. N \in 0 .. N
    BY <1>0
  <2>4. g[N][Nil] = {}
    BY <1>0, <1>2, <2>3
  <2> QED
    BY <1>1, <2>1, <2>2, <2>4
<1> QED
  BY <1>9, <1>10

-----------------------------------------------------------------------------
(* The invariant of the lists *)

A(t) == <<t, ActiveIndex>>
Z(t) == <<t, 1 - ActiveIndex>>

ToSweep(w, m, T) == UNION {Ahead(w, m, Z(t), 1) : t \in T}
ToWalk(w, m, p, T) == UNION {Ahead(w, m, A(t), p[t] + 1) : t \in T}

\* p[t] cells have been linked in the active list of t since it was merged; where a walk
\* from saved[t] begins.
Starts(w, m, p) ==
  /\ p \in [Threads -> Nat]
  /\ \A t \in Threads : t \notin Known(next) \/ t \in late => saved[t] = Nil
  /\ \A t \in Known(next) \ late : Merged(t) => p[t] <= m[A(t)] /\ saved[t] = Cyc(w, m, A(t), p[t] + 1)
Rests == gc \in {"idle", "merge"} => it = Nowhere
SweepGoes(w, m) ==
  gc = "sweep" =>
    /\ late = {}
    /\ it = Nowhere => owed = visited \cup ToSweep(w, m, todo)
    /\ it # Nowhere => \E t \in Threads \ todo : \E k \in 1 .. m[Z(t)] + 1 :
         it.next = Cyc(w, m, Z(t), k) /\ owed = visited \cup ToSweep(w, m, todo) \cup Ahead(w, m, Z(t), k)
MergeGoes(m, p) ==
  gc = "merge" =>
    /\ late \cap todo = {}
    /\ \A t \in Threads \ todo : IF t \in late THEN m[A(t)] = 0 ELSE t \in Known(next) => p[t] = 0
RestoreGoes(w, m, p) ==
  gc \in {"restore", "finalize"} =>
    /\ owed = ToWalk(w, m, p, Threads \ late)
    /\ it = Nowhere => owed = visited \cup ToWalk(w, m, p, todo \ late)
    /\ it # Nowhere => \E t \in Threads : \E k \in 1 .. m[A(t)] + 1 :
         /\ it.center = Cyc(w, m, A(t), k)
         /\ k <= m[A(t)] => it.next = Cyc(w, m, A(t), k + 1)
         /\ owed = visited \cup ToWalk(w, m, p, todo \ late) \cup Ahead(w, m, A(t), k)

Walks(w, m, p) ==
  /\ Starts(w, m, p) /\ Rests
  /\ SweepGoes(w, m) /\ MergeGoes(m, p) /\ RestoreGoes(w, m, p)
SlInv == SlTypeOK /\ \E w, m, p : Ringed(next, prev, w, m) /\ Walks(w, m, p)

LEMMA SlNames ==
  /\ Registered = Known(next)
  /\ Nodes = Sent \cup Cells /\ Sentinels = Sent
  /\ Snapshot = 1 - ActiveIndex
  /\ Nowhere = [center |-> Nil, next |-> Nil]
  BY DEF Registered, Known, Nodes, Sentinels, Sent, Snapshot, Nowhere

LEMMA Ends ==
  ASSUME ActiveIndex \in {0, 1}
  PROVE  /\ \A t \in Threads : A(t) \in Sent /\ Z(t) \in Sent /\ A(t) # Z(t) /\ A(t)[1] = t /\ Z(t)[1] = t
         /\ \A t, u \in Threads : A(t) # Z(u) /\ (A(t) = A(u) => t = u) /\ (Z(t) = Z(u) => t = u)
         /\ \A s \in Sent : s[1] \in Threads /\ (s = A(s[1]) \/ s = Z(s[1]))
<1>1. 1 - ActiveIndex \in {0, 1} /\ 1 - ActiveIndex # ActiveIndex
      /\ \A i \in {0, 1} : i = ActiveIndex \/ i = 1 - ActiveIndex
  OBVIOUS
<1> QED
  BY <1>1 DEF Sent, A, Z

LEMMA ToSweepFacts ==
  ASSUME NEW w, NEW m, NEW T, NEW t \in T
  PROVE  ToSweep(w, m, T) = Ahead(w, m, Z(t), 1) \cup ToSweep(w, m, T \ {t})
  BY DEF ToSweep

\* The walks to come with the slot t and without it.
TakesOne(w, m, p, t) ==
  ToWalk(w, m, p, todo \ late) = Ahead(w, m, A(t), p[t] + 1) \cup ToWalk(w, m, p, (todo \ {t}) \ late)

LEMMA ToWalkFacts ==
  ASSUME NEW w, NEW m, NEW p, NEW t \in todo, t \notin late
  PROVE  TakesOne(w, m, p, t)
<1>1. (todo \ {t}) \ late = (todo \ late) \ {t} /\ t \in todo \ late
  OBVIOUS
<1> QED
  BY <1>1 DEF ToWalk, TakesOne

\* Nothing is listed for a thread that has not been registered.
LEMMA UnknownEmpty ==
  ASSUME NEW w, NEW m, Ringed(next, prev, w, m), ActiveIndex \in {0, 1}, NEW t \in Threads \ Known(next)
  PROVE  /\ m[A(t)] = 0 /\ m[Z(t)] = 0
         /\ \A k \in Nat \ {0} : Ahead(w, m, A(t), k) = {} /\ Ahead(w, m, Z(t), k) = {}
<1>1. A(t) \in Sent /\ Z(t) \in Sent /\ A(t)[1] \notin Known(next) /\ Z(t)[1] \notin Known(next)
  BY Ends
<1>2. m[A(t)] = 0 /\ m[Z(t)] = 0
  BY <1>1 DEF Ringed, Unused
<1>3. \A k \in Nat \ {0} : k > 0
  OBVIOUS
<1> QED
  BY <1>1, <1>2, <1>3, AheadFacts

-----------------------------------------------------------------------------
(* Steps that leave the links alone *)

LEMMA StepSkip ==
  ASSUME SlTypeOK, NEW w, NEW m, NEW p, Ringed(next, prev, w, m), Walks(w, m, p),
         NEW t \in Threads, SkipSlot(t)
  PROVE  SlInv'
<1>1. /\ gc \in {"sweep", "merge", "restore", "finalize"} /\ it = Nowhere
      /\ t \in todo /\ t \notin Known(next) /\ todo' = todo \ {t}
      /\ UNCHANGED <<next, prev, ActiveIndex, saved, gc, it, visited, owed, late>>
  BY SlNames DEF SkipSlot, rings
<1>2. SlTypeOK'
  BY <1>1 DEF SlTypeOK, Nodes, Sentinels, Nowhere
<1>3. ActiveIndex \in {0, 1} /\ Nowhere' = Nowhere
  BY DEF SlTypeOK, Nowhere
<1>4. \A u : A(u)' = A(u) /\ Z(u)' = Z(u)
  BY <1>1 DEF A, Z
<1>5. /\ m[A(t)] = 0 /\ m[Z(t)] = 0
      /\ \A k \in Nat \ {0} : Ahead(w, m, A(t), k) = {} /\ Ahead(w, m, Z(t), k) = {}
  BY <1>1, <1>3, UnknownEmpty
<1>6. Starts(w, m, p)'
  BY <1>1, <1>4 DEF Walks, Starts, Merged, Known
<1>8. Rests'
  BY <1>1, <1>3 DEF Walks, Rests
<1>9. SweepGoes(w, m)'
  <2>1. ToSweep(w, m, todo)' = ToSweep(w, m, todo \ {t})
    BY <1>1, <1>4 DEF ToSweep
  <2>2. ToSweep(w, m, todo \ {t}) = ToSweep(w, m, todo)
    BY <1>1, <1>5, ToSweepFacts
  <2> QED
    BY <1>1, <1>3, <2>1, <2>2 DEF Walks, SweepGoes
<1>10. MergeGoes(m, p)'
  BY <1>1, <1>4, <1>5 DEF Walks, MergeGoes, Known
<1>11. RestoreGoes(w, m, p)'
  <2>1. /\ ToWalk(w, m, p, Threads \ late)' = ToWalk(w, m, p, Threads \ late)
        /\ ToWalk(w, m, p, todo \ late)' = ToWalk(w, m, p, (todo \ {t}) \ late)
    BY <1>1, <1>4 DEF ToWalk
  <2>2. ToWalk(w, m, p, (todo \ {t}) \ late) = ToWalk(w, m, p, todo \ late)
    <3>1. CASE t \in late
      <4>1. (todo \ {t}) \ late = todo \ late
        BY <3>1
      <4> QED
        BY <4>1
    <3>2. CASE t \notin late
      <4>1. t \in todo /\ t \notin late /\ p[t] + 1 \in Nat \ {0}
        BY <1>1, <3>2 DEF Walks, Starts
      <4>2. Ahead(w, m, A(t), p[t] + 1) = {}
        BY <1>5, <4>1
      <4>3. TakesOne(w, m, p, t)
        BY <4>1, ToWalkFacts
      <4>4. ToWalk(w, m, p, todo \ late) = {} \cup ToWalk(w, m, p, (todo \ {t}) \ late)
        BY <4>2, <4>3 DEF TakesOne
      <4> QED
        BY <4>4
    <3> QED
      BY <3>1, <3>2
  <2> QED
    BY <1>1, <1>3, <2>1, <2>2 DEF Walks, RestoreGoes
<1>12. Ringed(next', prev', w, m)
  BY <1>1
<1>13. Walks(w, m, p)'
  BY <1>6, <1>8, <1>9, <1>10, <1>11 DEF Walks
<1> QED
  BY <1>2, <1>12, <1>13 DEF SlInv

\* The cell behind a sentinel.
LEMMA Behind ==
  ASSUME NEW w, NEW m, Ringed(next, prev, w, m), NEW s \in Sent, s[1] \in Known(next)
  PROVE  next[s] = Cyc(w, m, s, 1) /\ next[s] \in Sent \cup Cells /\ 1 \in 1 .. m[s] + 1
<1>1. 0 \in 0 .. m[s] /\ 0 + 1 = 1 /\ 1 \in Nat /\ 1 \in 1 .. m[s] + 1
  BY CycFacts
<1>2. next[Cyc(w, m, s, 0)] = Cyc(w, m, s, 0 + 1)
  BY <1>1, NodesLinked
<1> QED
  BY <1>1, <1>2, CycFacts

LEMMA StepSweepSlot ==
  ASSUME SlTypeOK, NEW w, NEW m, NEW p, Ringed(next, prev, w, m), Walks(w, m, p),
         NEW t \in Threads, SweepSlot(t)
  PROVE  SlInv'
<1>1. /\ gc = "sweep" /\ it = Nowhere
      /\ t \in todo /\ t \in Known(next) /\ todo' = todo \ {t}
      /\ it' = [center |-> Z(t), next |-> next[Z(t)]]
      /\ UNCHANGED <<next, prev, ActiveIndex, saved, gc, visited, owed, late>>
  BY SlNames DEF SweepSlot, rings, Iterate, Z
<1>2. ActiveIndex \in {0, 1} /\ Z(t) \in Sent /\ Z(t)[1] = t
  BY Ends DEF SlTypeOK
<1>3. next[Z(t)] = Cyc(w, m, Z(t), 1) /\ next[Z(t)] \in Sent \cup Cells /\ 1 \in 1 .. m[Z(t)] + 1
  BY <1>1, <1>2, Behind
<1>4. Nodes' = Nodes /\ Nowhere' = Nowhere /\ it' \in [center : Nodes, next : Nodes]
  BY <1>1, <1>2, <1>3, SlNames DEF Nodes, Sentinels, Nowhere
<1>5. SlTypeOK'
  BY <1>1, <1>4 DEF SlTypeOK
<1>6. it' # Nowhere'
  <2>1. Z(t) # Nil
    BY <1>2 DEF Ringed, NodesOK
  <2> QED
    BY <1>1, <1>4, <2>1, SlNames
<1>7. \A u : A(u)' = A(u) /\ Z(u)' = Z(u)
  BY <1>1 DEF A, Z
<1>8. Starts(w, m, p)' /\ Rests' /\ MergeGoes(m, p)' /\ RestoreGoes(w, m, p)'
  BY <1>1, <1>7 DEF Walks, Starts, Rests, MergeGoes, RestoreGoes, Merged
<1>9. SweepGoes(w, m)'
  <2>1. ToSweep(w, m, todo)' = ToSweep(w, m, todo \ {t})
    BY <1>1, <1>7 DEF ToSweep
  <2>2. ToSweep(w, m, todo) = Ahead(w, m, Z(t), 1) \cup ToSweep(w, m, todo \ {t})
    BY <1>1, ToSweepFacts
  <2>3. late = {} /\ owed = visited \cup ToSweep(w, m, todo)
    BY <1>1 DEF Walks, SweepGoes
  <2>4. /\ t \in Threads \ todo' /\ 1 \in 1 .. m[Z(t)] + 1 /\ it'.next = Cyc(w, m, Z(t), 1)
        /\ owed = visited \cup ToSweep(w, m, todo)' \cup Ahead(w, m, Z(t), 1)
    BY <1>1, <1>3, <2>1, <2>2, <2>3
  <2> QED
    BY <1>1, <1>6, <1>7, <2>3, <2>4 DEF SweepGoes
<1>10. Ringed(next', prev', w, m) /\ Walks(w, m, p)'
  BY <1>1, <1>8, <1>9 DEF Walks
<1> QED
  BY <1>5, <1>10 DEF SlInv

LEMMA StepStartMerge ==
  ASSUME SlTypeOK, NEW w, NEW m, NEW p, Ringed(next, prev, w, m), Walks(w, m, p), StartMerge
  PROVE  SlInv'
<1>1. /\ gc = "sweep" /\ it = Nowhere /\ gc' = "merge" /\ todo' = Threads /\ visited' = {} /\ owed' = {}
      /\ UNCHANGED <<next, prev, ActiveIndex, saved, it, late>>
  BY DEF StartMerge, rings, StartLoop, LoopIsOver
<1>2. Nowhere' = Nowhere
  BY DEF Nowhere
<1>3. SlTypeOK'
  BY <1>1 DEF SlTypeOK, Nodes, Sentinels, Nowhere
<1>4. late = {}
  BY <1>1 DEF Walks, SweepGoes
<1>5. Starts(w, m, p)' /\ Rests'
  BY <1>1, <1>2 DEF Walks, Starts, Rests, Merged, Known
<1>6. SweepGoes(w, m)' /\ MergeGoes(m, p)' /\ RestoreGoes(w, m, p)'
  BY <1>1, <1>4 DEF SweepGoes, MergeGoes, RestoreGoes
<1>7. Ringed(next', prev', w, m) /\ Walks(w, m, p)'
  BY <1>1, <1>5, <1>6 DEF Walks
<1> QED
  BY <1>3, <1>7 DEF SlInv

\* The cells of the active lists are the cells ahead of the active sentinels.
LEMMA ActiveIs ==
  ASSUME NEW w, NEW m, Ringed(next, prev, w, m), ActiveIndex \in {0, 1}
  PROVE  Active = UNION {Ahead(w, m, A(t), 1) : t \in Threads}
<1>1. Active = UNION {Ring(A(t)) : t \in Known(next)}
  BY SlNames DEF Active, A
<1>2. \A t \in Threads : Ring(A(t)) = Ahead(w, m, A(t), 1)
  BY Ends, RingIs
<1>3. \A t \in Threads : t \in Known(next) \/ Ahead(w, m, A(t), 1) = {}
  BY UnknownEmpty
<1>4. Known(next) \subseteq Threads
  BY DEF Known
<1> QED
  BY <1>1, <1>2, <1>3, <1>4

LEMMA StepFlip ==
  ASSUME SlTypeOK, NEW w, NEW m, NEW p, Ringed(next, prev, w, m), Walks(w, m, p), Flip
  PROVE  SlInv'
<1>1. /\ gc = "idle" /\ gc' = "sweep" /\ todo' = Threads /\ visited' = {} /\ owed' = Active
      /\ ActiveIndex' = 1 - ActiveIndex /\ late' = {}
      /\ UNCHANGED <<next, prev, saved, it>>
  BY DEF Flip, rings, StartLoop
<1>2. Nowhere' = Nowhere /\ it = Nowhere
  BY <1>1 DEF Nowhere, Walks, Rests
<1>3. ActiveIndex \in {0, 1} /\ 1 - ActiveIndex \in {0, 1} /\ 1 - (1 - ActiveIndex) = ActiveIndex
  BY DEF SlTypeOK
<1>4. \A t : Z(t)' = A(t)
  BY <1>1, <1>3 DEF A, Z
<1>5. owed' = UNION {Ahead(w, m, A(t), 1) : t \in Threads}
  BY <1>1, <1>3, ActiveIs
<1>6. owed' \subseteq Cells
  <2>1. \A t \in Threads : Ahead(w, m, A(t), 1) \subseteq Cells
    <3>1. 1 \in Nat \ {0}
      OBVIOUS
    <3> QED
      BY <1>3, <3>1, Ends, AheadFacts
  <2> QED
    BY <1>5, <2>1
<1>7. SlTypeOK'
  BY <1>1, <1>3, <1>6 DEF SlTypeOK, Nodes, Sentinels, Nowhere
<1>8. SweepGoes(w, m)'
  <2>1. ToSweep(w, m, todo)' = owed'
    BY <1>1, <1>4, <1>5 DEF ToSweep
  <2> QED
    BY <1>1, <1>2, <2>1 DEF SweepGoes
<1>9. Starts(w, m, p)' /\ Rests' /\ MergeGoes(m, p)' /\ RestoreGoes(w, m, p)'
  BY <1>1 DEF Walks, Starts, Rests, MergeGoes, RestoreGoes, Merged
<1>10. Ringed(next', prev', w, m) /\ Walks(w, m, p)'
  BY <1>1, <1>8, <1>9 DEF Walks
<1> QED
  BY <1>7, <1>10 DEF SlInv

LEMMA StepStartRestore ==
  ASSUME SlTypeOK, NEW w, NEW m, NEW p, Ringed(next, prev, w, m), Walks(w, m, p), StartRestore
  PROVE  SlInv'
<1>1. /\ gc = "merge" /\ todo = {} /\ it = Nowhere
      /\ gc' = "restore" /\ todo' = Threads /\ visited' = {} /\ owed' = Active
      /\ UNCHANGED <<next, prev, ActiveIndex, saved, it, late>>
  BY DEF StartRestore, rings, StartLoop, LoopIsOver
<1>2. Nowhere' = Nowhere /\ ActiveIndex \in {0, 1}
  BY DEF Nowhere, SlTypeOK
<1>3. owed' = UNION {Ahead(w, m, A(t), 1) : t \in Threads}
  BY <1>1, <1>2, ActiveIs
<1>4. \A t \in Threads : Ahead(w, m, A(t), 1) \subseteq Cells
  <2>1. 1 \in Nat \ {0}
    OBVIOUS
  <2> QED
    BY <1>2, <2>1, Ends, AheadFacts
<1>5. SlTypeOK'
  BY <1>1, <1>3, <1>4 DEF SlTypeOK, Nodes, Sentinels, Nowhere
<1>6. \A t : A(t)' = A(t) /\ Z(t)' = Z(t)
  BY <1>1 DEF A, Z
<1>7. \A t \in Threads : IF t \in late THEN m[A(t)] = 0 ELSE t \in Known(next) => p[t] = 0
  BY <1>1 DEF Walks, MergeGoes
<1>8. owed' = ToWalk(w, m, p, Threads \ late)
  <2>1. ASSUME NEW t \in Threads PROVE t \in late => Ahead(w, m, A(t), 1) = {}
    <3>1. m[A(t)] = 0 => Ahead(w, m, A(t), 1) = {}
      <4>1. A(t) \in Sent /\ 1 \in Nat /\ 1 > 0
        BY <1>2, Ends
      <4> QED
        BY <4>1, AheadFacts
    <3> QED
      BY <1>7, <3>1
  <2>2. ASSUME NEW t \in Threads, t \notin late PROVE Ahead(w, m, A(t), 1) = Ahead(w, m, A(t), p[t] + 1)
    <3>1. CASE t \in Known(next)
      <4>1. p[t] + 1 = 1
        BY <1>7, <2>2, <3>1
      <4> QED
        BY <4>1
    <3>2. CASE t \notin Known(next)
      <4>1. p[t] + 1 \in Nat \ {0} /\ 1 \in Nat \ {0}
        BY DEF Walks, Starts
      <4> QED
        BY <1>2, <3>2, <4>1, UnknownEmpty
    <3> QED
      BY <3>1, <3>2
  <2>3. UNION {Ahead(w, m, A(t), 1) : t \in Threads}
          = UNION {Ahead(w, m, A(t), 1) : t \in Threads \ late}
    BY <2>1
  <2>4. {Ahead(w, m, A(t), 1) : t \in Threads \ late} = {Ahead(w, m, A(t), p[t] + 1) : t \in Threads \ late}
    BY <2>2
  <2> QED
    BY <1>3, <2>3, <2>4 DEF ToWalk
<1>9. RestoreGoes(w, m, p)'
  <2>1. /\ ToWalk(w, m, p, Threads \ late)' = ToWalk(w, m, p, Threads \ late)
        /\ ToWalk(w, m, p, todo \ late)' = ToWalk(w, m, p, Threads \ late)
    BY <1>1, <1>6 DEF ToWalk
  <2> QED
    BY <1>1, <1>2, <1>8, <2>1 DEF RestoreGoes
<1>10. Starts(w, m, p)' /\ Rests' /\ SweepGoes(w, m)' /\ MergeGoes(m, p)'
  BY <1>1, <1>2, <1>6 DEF Walks, Starts, Rests, SweepGoes, MergeGoes, Merged, Known
<1>11. Ringed(next', prev', w, m) /\ Walks(w, m, p)'
  BY <1>1, <1>9, <1>10 DEF Walks
<1> QED
  BY <1>5, <1>11 DEF SlInv

LEMMA StepStartFinalize ==
  ASSUME SlTypeOK, NEW w, NEW m, NEW p, Ringed(next, prev, w, m), Walks(w, m, p), StartFinalize
  PROVE  SlInv'
<1>1. /\ gc = "restore" /\ it = Nowhere
      /\ gc' = "finalize" /\ todo' = Threads /\ visited' = {} /\ owed' = owed
      /\ UNCHANGED <<next, prev, ActiveIndex, saved, it, late>>
  BY DEF StartFinalize, rings, StartLoop, LoopIsOver
<1>2. Nowhere' = Nowhere
  BY DEF Nowhere
<1>3. SlTypeOK'
  BY <1>1 DEF SlTypeOK, Nodes, Sentinels, Nowhere
<1>4. \A t : A(t)' = A(t) /\ Z(t)' = Z(t)
  BY <1>1 DEF A, Z
<1>5. RestoreGoes(w, m, p)'
  <2>1. /\ ToWalk(w, m, p, Threads \ late)' = ToWalk(w, m, p, Threads \ late)
        /\ ToWalk(w, m, p, todo \ late)' = ToWalk(w, m, p, Threads \ late)
    BY <1>1, <1>4 DEF ToWalk
  <2>2. owed = ToWalk(w, m, p, Threads \ late)
    BY <1>1 DEF Walks, RestoreGoes
  <2> QED
    BY <1>1, <1>2, <2>1, <2>2 DEF RestoreGoes
<1>6. Starts(w, m, p)' /\ Rests' /\ SweepGoes(w, m)' /\ MergeGoes(m, p)'
  BY <1>1, <1>2, <1>4 DEF Walks, Starts, Rests, SweepGoes, MergeGoes, Merged, Known
<1>7. Ringed(next', prev', w, m) /\ Walks(w, m, p)'
  BY <1>1, <1>5, <1>6 DEF Walks
<1> QED
  BY <1>3, <1>7 DEF SlInv

LEMMA StepEndCollection ==
  ASSUME SlTypeOK, NEW w, NEW m, NEW p, Ringed(next, prev, w, m), Walks(w, m, p), EndCollection
  PROVE  SlInv'
<1>1. /\ gc = "finalize" /\ it = Nowhere /\ gc' = "idle" /\ visited' = {} /\ owed' = {}
      /\ UNCHANGED <<next, prev, ActiveIndex, saved, todo, it, late>>
  BY DEF EndCollection, rings, LoopIsOver
<1>2. Nowhere' = Nowhere
  BY DEF Nowhere
<1>3. SlTypeOK'
  BY <1>1 DEF SlTypeOK, Nodes, Sentinels, Nowhere
<1>4. \A t : A(t)' = A(t) /\ Z(t)' = Z(t)
  BY <1>1 DEF A, Z
<1>5. Starts(w, m, p)' /\ Rests'
  BY <1>1, <1>2, <1>4 DEF Walks, Starts, Rests, Merged, Known
<1>6. SweepGoes(w, m)' /\ MergeGoes(m, p)' /\ RestoreGoes(w, m, p)'
  BY <1>1 DEF SweepGoes, MergeGoes, RestoreGoes
<1>7. Ringed(next', prev', w, m) /\ Walks(w, m, p)'
  BY <1>1, <1>5, <1>6 DEF Walks
<1> QED
  BY <1>3, <1>7 DEF SlInv

LEMMA StepRestoreSlot ==
  ASSUME SlTypeOK, NEW w, NEW m, NEW p, Ringed(next, prev, w, m), Walks(w, m, p),
         NEW t \in Threads, RestoreSlot(t)
  PROVE  SlInv'
<1>1. /\ gc \in {"restore", "finalize"} /\ it = Nowhere
      /\ t \in todo /\ t \in Known(next) /\ todo' = todo \ {t}
      /\ UNCHANGED <<next, prev, ActiveIndex, saved, visited, owed, late>>
  BY SlNames DEF RestoreSlot, rings
<1>2. ActiveIndex \in {0, 1} /\ Nowhere' = Nowhere /\ Nodes' = Nodes
  BY DEF SlTypeOK, Nowhere, Nodes, Sentinels
<1>3. A(t) \in Sent /\ A(t)[1] = t /\ \A u : A(u)' = A(u) /\ Z(u)' = Z(u)
  BY <1>1, <1>2, Ends DEF A, Z
<1>4. t \notin late => /\ p[t] + 1 \in 1 .. m[A(t)] + 1 /\ p[t] + 1 \in 0 .. m[A(t)] + 1
                       /\ saved[t] = Cyc(w, m, A(t), p[t] + 1)
                       /\ saved[t] \in Sent \cup Cells /\ saved[t] # Nil
  <2> SUFFICES ASSUME t \notin late
               PROVE  /\ p[t] + 1 \in 1 .. m[A(t)] + 1 /\ p[t] + 1 \in 0 .. m[A(t)] + 1
                      /\ saved[t] = Cyc(w, m, A(t), p[t] + 1)
                      /\ saved[t] \in Sent \cup Cells /\ saved[t] # Nil
    OBVIOUS
  <2>1. p[t] \in Nat /\ p[t] <= m[A(t)] /\ saved[t] = Cyc(w, m, A(t), p[t] + 1)
    BY <1>1 DEF Walks, Starts, Merged
  <2>2. m[A(t)] \in Nat
    BY <1>3, CycFacts
  <2>3. p[t] + 1 \in Nat /\ p[t] + 1 \in 1 .. m[A(t)] + 1 /\ p[t] + 1 \in 0 .. m[A(t)] + 1
    BY <2>1, <2>2
  <2> QED
    BY <1>3, <2>1, <2>3, CycFacts
<1>5. CASE saved[t] = Nil
  <2>1. t \in late /\ gc' = "wild" /\ it' = it
    BY <1>4, <1>5 DEF RestoreSlot
  <2>2. SlTypeOK'
    BY <1>1, <1>2, <2>1 DEF SlTypeOK
  <2>3. Starts(w, m, p)' /\ Rests'
    BY <1>1, <1>2, <2>1 DEF Walks, Starts, Rests, Merged
  <2>4. SweepGoes(w, m)' /\ MergeGoes(m, p)' /\ RestoreGoes(w, m, p)'
    BY <2>1 DEF SweepGoes, MergeGoes, RestoreGoes
  <2>5. Ringed(next', prev', w, m) /\ Walks(w, m, p)'
    BY <1>1, <2>3, <2>4 DEF Walks
  <2> QED
    BY <2>2, <2>5 DEF SlInv
<1>6. CASE saved[t] # Nil
  <2>1. t \notin late /\ gc' = gc /\ it' = [center |-> saved[t], next |-> next[saved[t]]]
    BY <1>1, <1>6 DEF RestoreSlot, Iterate, Walks, Starts
  <2> DEFINE k == p[t] + 1
  <2>2. /\ k \in 1 .. m[A(t)] + 1 /\ k \in Nat /\ saved[t] = Cyc(w, m, A(t), k)
        /\ saved[t] \in Sent \cup Cells
    BY <1>4, <2>1
  <2>3. next[saved[t]] \in Sent \cup Cells /\ (k <= m[A(t)] => next[saved[t]] = Cyc(w, m, A(t), k + 1))
    <3> HIDE DEF k
    <3>1. CASE k <= m[A(t)]
      <4>1. k \in 0 .. m[A(t)] /\ k + 1 \in Nat
        BY <1>3, <2>2, <3>1
      <4>2. next[Cyc(w, m, A(t), k)] = Cyc(w, m, A(t), k + 1)
        BY <1>1, <1>3, <4>1, NodesLinked
      <4> QED
        BY <1>3, <2>2, <4>1, <4>2, CycFacts
    <3>2. CASE ~(k <= m[A(t)])
      <4>1. k = m[A(t)] + 1
        BY <1>3, <2>2, <3>2, CycFacts
      <4>2. saved[t] = A(t)
        BY <1>3, <2>2, <4>1, CycFacts
      <4> QED
        BY <1>1, <1>3, <3>2, <4>2, Behind
    <3> QED
      BY <3>1, <3>2
  <2>4. it' \in [center : Nodes, next : Nodes]
    BY <2>1, <2>2, <2>3, SlNames
  <2>5. SlTypeOK'
    BY <1>1, <1>2, <2>1, <2>4 DEF SlTypeOK
  <2>6. it' # Nowhere'
    <3>1. saved[t] # Nil
      BY <1>6
    <3> QED
      BY <1>2, <2>1, <3>1, SlNames
  <2>7. Starts(w, m, p)' /\ Rests' /\ SweepGoes(w, m)' /\ MergeGoes(m, p)'
    BY <1>1, <1>3, <2>1 DEF Walks, Starts, Rests, SweepGoes, MergeGoes, Merged
  <2>8. RestoreGoes(w, m, p)'
    <3>1. /\ ToWalk(w, m, p, Threads \ late)' = ToWalk(w, m, p, Threads \ late)
          /\ ToWalk(w, m, p, todo \ late)' = ToWalk(w, m, p, (todo \ {t}) \ late)
      BY <1>1, <1>3 DEF ToWalk
    <3>2. owed = ToWalk(w, m, p, Threads \ late) /\ owed = visited \cup ToWalk(w, m, p, todo \ late)
      BY <1>1 DEF Walks, RestoreGoes
    <3>3. ToWalk(w, m, p, todo \ late) = Ahead(w, m, A(t), k) \cup ToWalk(w, m, p, (todo \ {t}) \ late)
      <4>1. t \in todo /\ t \notin late
        BY <1>1, <2>1
      <4>2. TakesOne(w, m, p, t)
        BY <4>1, ToWalkFacts
      <4> QED
        BY <4>2 DEF TakesOne
    <3> HIDE DEF k
    <3>4. owed' = visited' \cup ToWalk(w, m, p, todo \ late)' \cup Ahead(w, m, A(t), k)
      BY <1>1, <3>1, <3>2, <3>3
    <3>5. /\ it'.center = Cyc(w, m, A(t), k)
          /\ k <= m[A(t)] => it'.next = Cyc(w, m, A(t), k + 1)
      BY <2>1, <2>2, <2>3
    <3>6. owed' = ToWalk(w, m, p, Threads \ late)'
      BY <1>1, <3>1, <3>2
    <3>7. k \in 1 .. m[A(t)'] + 1 /\ A(t)' = A(t)
      BY <1>3, <2>2
    <3> QED
      BY <2>6, <3>4, <3>5, <3>6, <3>7 DEF RestoreGoes
  <2>9. Ringed(next', prev', w, m) /\ Walks(w, m, p)'
    BY <1>1, <2>7, <2>8 DEF Walks
  <2> QED
    BY <2>5, <2>9 DEF SlInv
<1> QED
  BY <1>5, <1>6

LEMMA StepRestoreCell ==
  ASSUME SlTypeOK, NEW w, NEW m, NEW p, Ringed(next, prev, w, m), Walks(w, m, p), RestoreCell
  PROVE  SlInv'
<1>1. /\ gc \in {"restore", "finalize"} /\ it # Nowhere
      /\ UNCHANGED <<next, prev, ActiveIndex, saved, gc, todo, owed, late>>
  BY DEF RestoreCell, rings
<1>2. ActiveIndex \in {0, 1} /\ Nowhere' = Nowhere /\ Nodes' = Nodes
  BY DEF SlTypeOK, Nowhere, Nodes, Sentinels
<1>3. \A u : A(u)' = A(u) /\ Z(u)' = Z(u)
  BY <1>1 DEF A, Z
<1>4. /\ ToWalk(w, m, p, Threads \ late)' = ToWalk(w, m, p, Threads \ late)
      /\ ToWalk(w, m, p, todo \ late)' = ToWalk(w, m, p, todo \ late)
  BY <1>1, <1>3 DEF ToWalk
<1>5. owed = ToWalk(w, m, p, Threads \ late)
  BY <1>1 DEF Walks, RestoreGoes
<1>6. PICK t \in Threads : \E k \in 1 .. m[A(t)] + 1 :
         /\ it.center = Cyc(w, m, A(t), k)
         /\ k <= m[A(t)] => it.next = Cyc(w, m, A(t), k + 1)
         /\ owed = visited \cup ToWalk(w, m, p, todo \ late) \cup Ahead(w, m, A(t), k)
  BY <1>1 DEF Walks, RestoreGoes
<1>7. PICK k \in 1 .. m[A(t)] + 1 :
         /\ it.center = Cyc(w, m, A(t), k)
         /\ k <= m[A(t)] => it.next = Cyc(w, m, A(t), k + 1)
         /\ owed = visited \cup ToWalk(w, m, p, todo \ late) \cup Ahead(w, m, A(t), k)
  BY <1>6
<1>8. A(t) \in Sent /\ A(t)[1] = t /\ m[A(t)] \in Nat
  BY <1>2, Ends, CycFacts
<1>9. Starts(w, m, p)' /\ Rests' /\ SweepGoes(w, m)' /\ MergeGoes(m, p)'
  BY <1>1, <1>3 DEF Walks, Starts, Rests, SweepGoes, MergeGoes, Merged
<1>10. CASE it.center \in Sent
  <2>1. it' = Nowhere /\ visited' = visited
    <3>1. it.center \notin Cells
      BY <1>10 DEF Ringed, NodesOK
    <3> QED
      BY <3>1 DEF RestoreCell
  <2>2. k = m[A(t)] + 1
    <3>1. k \in 1 .. m[A(t)] => it.center \in Cells
      BY <1>7, <1>8, CycFacts
    <3>2. it.center \notin Cells
      BY <1>10 DEF Ringed, NodesOK
    <3> QED
      BY <1>8, <3>1, <3>2
  <2>3. Ahead(w, m, A(t), k) = {}
    <3>1. k \in Nat /\ k > m[A(t)]
      BY <1>8, <2>2
    <3> QED
      BY <1>8, <3>1, AheadFacts
  <2>4. RestoreGoes(w, m, p)'
    <3>1. owed' = visited' \cup ToWalk(w, m, p, todo \ late)'
      BY <1>1, <1>4, <1>7, <2>1, <2>3
    <3> QED
      BY <1>1, <1>2, <1>4, <1>5, <2>1, <3>1 DEF RestoreGoes
  <2>5. SlTypeOK'
    BY <1>1, <1>2, <2>1 DEF SlTypeOK
  <2>6. Ringed(next', prev', w, m) /\ Walks(w, m, p)'
    BY <1>1, <1>9, <2>4 DEF Walks
  <2> QED
    BY <2>5, <2>6 DEF SlInv
<1>11. CASE it.center \in Cells
  <2>1. it' = [center |-> it.next, next |-> next[it.next]] /\ visited' = visited \cup {it.center}
    <3>1. it.center \notin Sentinels
      BY <1>11, SlNames DEF Ringed, NodesOK
    <3> QED
      BY <3>1 DEF RestoreCell, Iterate
  <2>2. k \in 1 .. m[A(t)] /\ t \in Known(next)
    <3>1. k \in 1 .. m[A(t)]
      <4>1. k = m[A(t)] + 1 => it.center = A(t)
        BY <1>7, <1>8, CycFacts
      <4>2. A(t) \notin Cells
        BY <1>8, CycFacts
      <4> QED
        BY <1>8, <1>11, <4>1, <4>2
    <3> QED
      BY <1>8, <3>1, NodesLinked
  <2>3. /\ k + 1 \in 1 .. m[A(t)] + 1 /\ k + 1 \in Nat /\ k + 2 \in Nat /\ k <= m[A(t)]
        /\ (k + 1) + 1 = k + 2
        /\ k + 1 <= m[A(t)] => k + 1 \in 0 .. m[A(t)]
    BY <1>8, <2>2
  <2>4. it.next = Cyc(w, m, A(t), k + 1) /\ it.next \in Sent \cup Cells /\ it.next # Nil
    BY <1>7, <1>8, <2>3, CycFacts
  <2>5. next[it.next] \in Sent \cup Cells /\ (k + 1 <= m[A(t)] => next[it.next] = Cyc(w, m, A(t), k + 2))
    <3>1. CASE k + 1 <= m[A(t)]
      <4>1. next[Cyc(w, m, A(t), k + 1)] = Cyc(w, m, A(t), (k + 1) + 1)
        BY <1>8, <2>2, <2>3, <3>1, NodesLinked
      <4> QED
        BY <1>8, <2>3, <2>4, <4>1, CycFacts
    <3>2. CASE ~(k + 1 <= m[A(t)])
      <4>1. k + 1 = m[A(t)] + 1
        BY <1>8, <2>3, <3>2
      <4>2. it.next = A(t)
        BY <1>8, <2>4, <4>1, CycFacts
      <4> QED
        BY <1>8, <2>2, <3>2, <4>2, Behind
    <3> QED
      BY <3>1, <3>2
  <2>6. /\ it' \in [center : Nodes, next : Nodes] /\ it' # Nowhere'
        /\ it'.center = Cyc(w, m, A(t), k + 1)
        /\ k + 1 <= m[A(t)] => it'.next = Cyc(w, m, A(t), (k + 1) + 1)
    <3>1. it'.center = it.next /\ it'.next = next[it.next]
      BY <2>1
    <3>2. it'.center # Nil /\ Nowhere'.center = Nil
      BY <1>2, <2>4, <3>1, SlNames
    <3>3. it' \in [center : Nodes, next : Nodes]
      BY <2>1, <2>4, <2>5, SlNames
    <3> QED
      BY <2>3, <2>4, <2>5, <3>1, <3>2, <3>3
  <2>7. SlTypeOK'
    BY <1>1, <1>2, <1>11, <2>1, <2>6 DEF SlTypeOK
  <2>8. RestoreGoes(w, m, p)'
    <3>1. Ahead(w, m, A(t), k) = {it.center} \cup Ahead(w, m, A(t), k + 1)
      <4>1. it.center = w[A(t)][k]
        BY <1>7, <1>8, <2>2, CycFacts
      <4> QED
        BY <1>8, <2>2, <4>1, AheadFacts
    <3>2. owed' = visited' \cup ToWalk(w, m, p, todo \ late)' \cup Ahead(w, m, A(t), k + 1)
      BY <1>1, <1>4, <1>7, <2>1, <3>1
    <3>3. k + 1 \in 1 .. m[A(t)'] + 1 /\ A(t)' = A(t)
      BY <1>3, <2>3
    <3>4. owed' = ToWalk(w, m, p, Threads \ late)'
      BY <1>1, <1>4, <1>5
    <3> QED
      BY <2>6, <3>2, <3>3, <3>4 DEF RestoreGoes
  <2>9. Ringed(next', prev', w, m) /\ Walks(w, m, p)'
    BY <1>1, <1>9, <2>8 DEF Walks
  <2> QED
    BY <2>7, <2>9 DEF SlInv
<1>12. it.center \in Sent \cup Cells
  BY <1>1, SlNames DEF SlTypeOK
<1> QED
  BY <1>10, <1>11, <1>12

-----------------------------------------------------------------------------
(* The sweep deletes a cell or keeps it *)

\* Where the sweep is.
LEMMA SweepPlace ==
  ASSUME SlTypeOK, NEW w, NEW m, NEW p, Ringed(next, prev, w, m), Walks(w, m, p), SweepCell
  PROVE  /\ gc = "sweep" /\ it # Nowhere /\ ActiveIndex \in {0, 1}
         /\ UNCHANGED <<ActiveIndex, saved, gc, todo, owed, late>>
         /\ late = {}
         /\ \E t \in Threads \ todo : \E k \in 1 .. m[Z(t)] + 1 :
              it.next = Cyc(w, m, Z(t), k) /\ owed = visited \cup ToSweep(w, m, todo) \cup Ahead(w, m, Z(t), k)
<1>1. /\ gc = "sweep" /\ it # Nowhere /\ ActiveIndex \in {0, 1}
      /\ UNCHANGED <<ActiveIndex, saved, gc, todo, owed, late>>
  BY DEF SweepCell, SlTypeOK
<1> QED
  BY <1>1 DEF Walks, SweepGoes

LEMMA StepSweepEnd ==
  ASSUME SlTypeOK, NEW w, NEW m, NEW p, Ringed(next, prev, w, m), Walks(w, m, p), SweepCell,
         it.next \in Sent
  PROVE  SlInv'
<1>1. /\ gc = "sweep" /\ it # Nowhere /\ ActiveIndex \in {0, 1}
      /\ UNCHANGED <<ActiveIndex, saved, gc, todo, owed, late>> /\ late = {}
  BY SweepPlace
<1>2. Nowhere' = Nowhere /\ Nodes' = Nodes /\ it.next \notin Cells
  BY DEF Nowhere, Nodes, Sentinels, Ringed, NodesOK
<1>3. it' = Nowhere /\ UNCHANGED <<next, prev, visited>>
  BY <1>2 DEF SweepCell, rings
<1>4. PICK t \in Threads \ todo : \E k \in 1 .. m[Z(t)] + 1 :
        it.next = Cyc(w, m, Z(t), k) /\ owed = visited \cup ToSweep(w, m, todo) \cup Ahead(w, m, Z(t), k)
  BY SweepPlace
<1>5. PICK k \in 1 .. m[Z(t)] + 1 :
        it.next = Cyc(w, m, Z(t), k) /\ owed = visited \cup ToSweep(w, m, todo) \cup Ahead(w, m, Z(t), k)
  BY <1>4
<1>6. Z(t) \in Sent /\ m[Z(t)] \in Nat
  BY <1>1, Ends, CycFacts
<1>7. k \in Nat /\ k > m[Z(t)]
  <2>1. k \in 1 .. m[Z(t)] => it.next \in Cells
    BY <1>5, <1>6, CycFacts
  <2> QED
    BY <1>2, <1>6, <2>1
<1>8. Ahead(w, m, Z(t), k) = {}
  BY <1>6, <1>7, AheadFacts
<1>9. \A u : A(u)' = A(u) /\ Z(u)' = Z(u)
  BY <1>1 DEF A, Z
<1>10. SweepGoes(w, m)'
  <2>1. ToSweep(w, m, todo)' = ToSweep(w, m, todo)
    BY <1>1, <1>9 DEF ToSweep
  <2> QED
    BY <1>1, <1>2, <1>3, <1>5, <1>8, <2>1 DEF SweepGoes
<1>11. Starts(w, m, p)' /\ Rests' /\ MergeGoes(m, p)' /\ RestoreGoes(w, m, p)'
  BY <1>1, <1>3, <1>9 DEF Walks, Starts, Rests, MergeGoes, RestoreGoes, Merged
<1>12. SlTypeOK'
  BY <1>1, <1>2, <1>3 DEF SlTypeOK
<1>13. Ringed(next', prev', w, m) /\ Walks(w, m, p)'
  BY <1>1, <1>3, <1>10, <1>11 DEF Walks
<1> QED
  BY <1>12, <1>13 DEF SlInv

LEMMA StepSweepKeep ==
  ASSUME SlTypeOK, NEW w, NEW m, NEW p, Ringed(next, prev, w, m), Walks(w, m, p), SweepCell,
         it.next \in Cells, UNCHANGED <<next, prev>>
  PROVE  SlInv'
<1>1. /\ gc = "sweep" /\ it # Nowhere /\ ActiveIndex \in {0, 1}
      /\ UNCHANGED <<ActiveIndex, saved, gc, todo, owed, late>> /\ late = {}
  BY SweepPlace
<1>2. Nowhere' = Nowhere /\ Nodes' = Nodes /\ it.next \notin Sentinels
  BY SlNames DEF Nowhere, Nodes, Sentinels, Ringed, NodesOK
<1>3. it' = [center |-> it.next, next |-> next[it.next]] /\ visited' = visited \cup {it.next}
  BY <1>2 DEF SweepCell, Advance, Iterate
<1>4. PICK t \in Threads \ todo : \E k \in 1 .. m[Z(t)] + 1 :
        it.next = Cyc(w, m, Z(t), k) /\ owed = visited \cup ToSweep(w, m, todo) \cup Ahead(w, m, Z(t), k)
  BY SweepPlace
<1>5. PICK k \in 1 .. m[Z(t)] + 1 :
        it.next = Cyc(w, m, Z(t), k) /\ owed = visited \cup ToSweep(w, m, todo) \cup Ahead(w, m, Z(t), k)
  BY <1>4
<1>6. Z(t) \in Sent /\ m[Z(t)] \in Nat
  BY <1>1, Ends, CycFacts
<1>7. k \in 1 .. m[Z(t)]
  <2>1. k = m[Z(t)] + 1 => it.next = Z(t)
    BY <1>5, <1>6, CycFacts
  <2>2. Z(t) \notin Cells
    BY <1>6, CycFacts
  <2> QED
    BY <1>6, <2>1, <2>2
<1>8. /\ k + 1 \in 1 .. m[Z(t)] + 1 /\ k + 1 \in Nat /\ k \in 0 .. m[Z(t)]
  BY <1>6, <1>7
<1>9. next[it.next] = Cyc(w, m, Z(t), k + 1) /\ next[it.next] \in Sent \cup Cells
  <2>1. Z(t)[1] \in Known(next)
    BY <1>6, <1>7, NodesLinked
  <2>2. next[Cyc(w, m, Z(t), k)] = Cyc(w, m, Z(t), k + 1)
    BY <1>6, <1>8, <2>1, NodesLinked
  <2> QED
    BY <1>5, <1>6, <1>8, <2>2, CycFacts
<1>10. Ahead(w, m, Z(t), k) = {it.next} \cup Ahead(w, m, Z(t), k + 1)
  <2>1. it.next = w[Z(t)][k]
    BY <1>5, <1>6, <1>7, CycFacts
  <2> QED
    BY <1>6, <1>7, <2>1, AheadFacts
<1>11. it' \in [center : Nodes, next : Nodes] /\ it' # Nowhere'
  <2>1. it.next # Nil
    BY DEF Ringed, NodesOK
  <2>2. it' \in [center : Nodes, next : Nodes]
    BY <1>3, <1>9, SlNames
  <2>3. it'.center # Nil /\ Nowhere'.center = Nil
    BY <1>2, <1>3, <2>1, SlNames
  <2> QED
    BY <2>2, <2>3
<1>12. \A u : A(u)' = A(u) /\ Z(u)' = Z(u)
  BY <1>1 DEF A, Z
<1>13. SweepGoes(w, m)'
  <2>1. ToSweep(w, m, todo)' = ToSweep(w, m, todo)
    BY <1>1, <1>12 DEF ToSweep
  <2>2. /\ t \in Threads \ todo' /\ k + 1 \in 1 .. m[Z(t)'] + 1 /\ Z(t)' = Z(t)
        /\ it'.next = Cyc(w, m, Z(t), k + 1)
        /\ owed' = visited' \cup ToSweep(w, m, todo)' \cup Ahead(w, m, Z(t), k + 1)
    BY <1>1, <1>3, <1>5, <1>8, <1>9, <1>10, <1>12, <2>1
  <2> QED
    BY <1>1, <1>11, <2>2 DEF SweepGoes
<1>14. Starts(w, m, p)' /\ Rests' /\ MergeGoes(m, p)' /\ RestoreGoes(w, m, p)'
  BY <1>1, <1>12 DEF Walks, Starts, Rests, MergeGoes, RestoreGoes, Merged, Known
<1>15. SlTypeOK'
  BY <1>1, <1>2, <1>3, <1>11 DEF SlTypeOK
<1>16. Ringed(next', prev', w, m) /\ Walks(w, m, p)'
  BY <1>13, <1>14 DEF Walks
<1> QED
  BY <1>15, <1>16 DEF SlInv

LEMMA StepSweepUnlink ==
  ASSUME SlTypeOK, NEW w, NEW m, NEW p, Ringed(next, prev, w, m), Walks(w, m, p), SweepCell,
         it.next \in Cells, Unlink(it.next)
  PROVE  SlInv'
<1>1. /\ gc = "sweep" /\ it # Nowhere /\ ActiveIndex \in {0, 1}
      /\ UNCHANGED <<ActiveIndex, saved, gc, todo, owed, late>> /\ late = {}
  BY SweepPlace
<1>2. Nowhere' = Nowhere /\ Nodes' = Nodes /\ it.next \notin Sentinels
  BY SlNames DEF Nowhere, Nodes, Sentinels, Ringed, NodesOK
<1>3. it' = [center |-> it.next, next |-> next[it.next]] /\ visited' = visited \cup {it.next}
  BY <1>2 DEF SweepCell, Advance, Iterate
<1>4. next' = CutNext(next, prev, it.next) /\ prev' = CutPrev(next, prev, it.next)
  BY DEF Unlink, CutNext, CutPrev
<1>5. PICK t \in Threads \ todo : \E k \in 1 .. m[Z(t)] + 1 :
        it.next = Cyc(w, m, Z(t), k) /\ owed = visited \cup ToSweep(w, m, todo) \cup Ahead(w, m, Z(t), k)
  BY SweepPlace
<1>6. PICK k \in 1 .. m[Z(t)] + 1 :
        it.next = Cyc(w, m, Z(t), k) /\ owed = visited \cup ToSweep(w, m, todo) \cup Ahead(w, m, Z(t), k)
  BY <1>5
<1>7. PICK s \in Sent : s = Z(t)
  BY <1>1, Ends
<1>8. m[s] \in Nat /\ k \in 1 .. m[s]
  <2>1. m[s] \in Nat
    BY CycFacts
  <2>2. k = m[s] + 1 => it.next = s
    BY <1>6, <1>7, CycFacts
  <2>3. s \notin Cells
    BY CycFacts
  <2> QED
    BY <1>6, <1>7, <2>1, <2>2, <2>3
<1>9. it.next = w[s][k]
  BY <1>6, <1>7, <1>8, CycFacts
<1>10. PICK w2, m2 : w2 = Dropped(w, s, k) /\ m2 = Shorter(m, s)
  OBVIOUS
<1>11. Ringed(next', prev', w2, m2) /\ Known(next') = Known(next)
  BY <1>4, <1>8, <1>9, <1>10, DroppedRinged
<1>12. /\ m2[s] = m[s] - 1
       /\ \A j \in k .. m[s] : Cyc(w2, m2, s, j) = Cyc(w, m, s, j + 1)
       /\ Ahead(w2, m2, s, k) = Ahead(w, m, s, k + 1)
       /\ \A r \in Sent : r # s => /\ m2[r] = m[r]
                                   /\ \A j : /\ Cyc(w2, m2, r, j) = Cyc(w, m, r, j)
                                             /\ Ahead(w2, m2, r, j) = Ahead(w, m, r, j)
  BY <1>8, <1>10, DroppedCyc
<1>13. next[it.next] = Cyc(w2, m2, s, k) /\ next[it.next] \in Sent \cup Cells /\ k \in 1 .. m2[s] + 1
  <2>1. k \in 0 .. m[s] /\ k \in k .. m[s] /\ k + 1 \in Nat /\ k \in 1 .. m2[s] + 1
    BY <1>8, <1>12
  <2>2. s[1] \in Known(next)
    BY <1>8, NodesLinked
  <2>3. next[Cyc(w, m, s, k)] = Cyc(w, m, s, k + 1)
    BY <2>1, <2>2, NodesLinked
  <2> QED
    BY <1>6, <1>7, <1>12, <2>1, <2>3, CycFacts
<1>14. Ahead(w, m, s, k) = {it.next} \cup Ahead(w2, m2, s, k)
  BY <1>8, <1>9, <1>12, AheadFacts
<1>15. it' \in [center : Nodes, next : Nodes] /\ it' # Nowhere'
  <2>1. it.next # Nil
    BY DEF Ringed, NodesOK
  <2>2. it' \in [center : Nodes, next : Nodes]
    BY <1>3, <1>13, SlNames
  <2>3. it'.center # Nil /\ Nowhere'.center = Nil
    BY <1>2, <1>3, <2>1, SlNames
  <2> QED
    BY <2>2, <2>3
<1>16. \A u : A(u)' = A(u) /\ Z(u)' = Z(u)
  BY <1>1 DEF A, Z
<1>17. SweepGoes(w2, m2)'
  <2>1. ToSweep(w2, m2, todo)' = ToSweep(w, m, todo)
    <3>1. \A u \in todo : u \in Threads /\ u # t
      BY <1>5 DEF SlTypeOK
    <3>2. \A u \in todo : Z(u) \in Sent /\ Z(u) # s
      BY <1>1, <1>7, <3>1, Ends
    <3>3. \A u \in todo : Ahead(w2, m2, Z(u), 1) = Ahead(w, m, Z(u), 1)
      BY <1>12, <3>2
    <3>4. ToSweep(w2, m2, todo)' = ToSweep(w2, m2, todo)
      BY <1>1, <1>16 DEF ToSweep
    <3> QED
      BY <3>3, <3>4 DEF ToSweep
  <2>2. /\ t \in Threads \ todo' /\ k \in 1 .. m2[Z(t)'] + 1 /\ Z(t)' = s
        /\ it'.next = Cyc(w2, m2, s, k)
        /\ owed' = visited' \cup ToSweep(w2, m2, todo)' \cup Ahead(w2, m2, s, k)
    BY <1>1, <1>3, <1>6, <1>7, <1>13, <1>14, <1>16, <2>1
  <2> QED
    BY <1>1, <1>15, <2>2 DEF SweepGoes
<1>18. Starts(w2, m2, p)' /\ Rests' /\ MergeGoes(m2, p)' /\ RestoreGoes(w2, m2, p)'
  BY <1>1, <1>11 DEF Walks, Starts, Rests, MergeGoes, RestoreGoes, Merged
<1>19. SlTypeOK'
  <2>1. next' \in [Nodes -> Nodes \cup {Nil}] /\ prev' \in [Nodes -> Nodes \cup {Nil}]
    <3>1. next[it.next] \in Nodes \cup {Nil} /\ prev[it.next] \in Nodes \cup {Nil}
      BY SlNames DEF SlTypeOK
    <3> QED
      BY <1>4, <3>1 DEF SlTypeOK, CutNext, CutPrev
  <2> QED
    BY <1>1, <1>2, <1>3, <1>15, <2>1 DEF SlTypeOK
<1>20. Ringed(next', prev', w2, m2) /\ Walks(w2, m2, p)'
  BY <1>11, <1>17, <1>18 DEF Walks
<1> QED
  BY <1>19, <1>20 DEF SlInv

LEMMA StepSweepCell ==
  ASSUME SlTypeOK, NEW w, NEW m, NEW p, Ringed(next, prev, w, m), Walks(w, m, p), SweepCell
  PROVE  SlInv'
<1>1. it.next \in Sent \cup Cells
  BY SweepPlace, SlNames DEF SlTypeOK
<1>2. it.next \in Cells => UNCHANGED <<next, prev>> \/ Unlink(it.next)
  <2>1. it.next \in Cells => it.next \notin Sentinels
    BY SlNames DEF Ringed, NodesOK
  <2> QED
    BY <2>1 DEF SweepCell, rings
<1> QED
  BY <1>1, <1>2, StepSweepEnd, StepSweepKeep, StepSweepUnlink

-----------------------------------------------------------------------------
(* The mutators *)

\* The links after a thread has registered.
Fresh(f, t) == [n \in Sent \cup Cells |-> IF n \in {t} \X {0, 1} THEN n ELSE f[n]]

LEMMA FreshRinged ==
  ASSUME NEW f, NEW b, NEW w, NEW m, Ringed(f, b, w, m), NEW t \in Threads \ Known(f)
  PROVE  /\ Ringed(Fresh(f, t), Fresh(b, t), w, m)
         /\ Known(Fresh(f, t)) = Known(f) \cup {t}
<1> DEFINE f2 == Fresh(f, t)
           b2 == Fresh(b, t)
<1>0. /\ NodesOK /\ \A s \in Sent : s # Nil /\ s \notin Cells
      /\ \A s \in Sent : s[1] \in Threads /\ (s[1] = t <=> s \in {t} \X {0, 1})
      /\ \A u \in Threads : <<u, 0>> \in Sent /\ (<<u, 0>> \in {t} \X {0, 1} <=> u = t)
      /\ {t} \X {0, 1} \subseteq Sent
  BY DEF Ringed, NodesOK, Sent
<1>1. /\ DOMAIN f2 = Sent \cup Cells /\ DOMAIN b2 = Sent \cup Cells
      /\ \A n \in {t} \X {0, 1} : f2[n] = n /\ b2[n] = n
      /\ \A n \in Sent \cup Cells : n \notin {t} \X {0, 1} => f2[n] = f[n] /\ b2[n] = b[n]
  BY <1>0 DEF Fresh
<1> HIDE DEF f2, b2
<1>2. Known(f2) = Known(f) \cup {t}
  BY <1>0, <1>1 DEF Known
<1>3. Listed(f2, w, m)
  <2>1. \A c \in Cells : f2[c] = f[c]
    BY <1>0, <1>1
  <2> QED
    BY <2>1 DEF Ringed, Listed
<1>4. ASSUME NEW s \in Sent, s[1] = t
      PROVE  Linked(f2, b2, w, m, s)
  <2>1. m[s] = 0
    BY <1>4 DEF Ringed, Unused
  <2>2. f2[s] = s /\ b2[s] = s
    BY <1>0, <1>1, <1>4
  <2>3. \A k : Cyc(w, m, s, k) = s
    BY <2>1 DEF Cyc
  <2> QED
    BY <2>2, <2>3 DEF Linked
<1>5. ASSUME NEW s \in Sent, s[1] \in Known(f)
      PROVE  Linked(f2, b2, w, m, s)
  <2> SUFFICES ASSUME NEW k \in 0 .. m[s]
               PROVE  f2[Cyc(w, m, s, k)] = Cyc(w, m, s, k + 1) /\ b2[Cyc(w, m, s, k + 1)] = Cyc(w, m, s, k)
    BY DEF Linked
  <2>1. \A j : (Cyc(w, m, s, j) = s \/ Cyc(w, m, s, j) \in Cells)
    BY CycFacts DEF Cyc
  <2>2. \A j : Cyc(w, m, s, j) \in Sent \cup Cells /\ Cyc(w, m, s, j) \notin {t} \X {0, 1}
    BY <1>0, <1>5, <2>1
  <2>3. f2[Cyc(w, m, s, k)] = f[Cyc(w, m, s, k)] /\ b2[Cyc(w, m, s, k + 1)] = b[Cyc(w, m, s, k + 1)]
    BY <1>1, <2>2
  <2> QED
    BY <1>5, <2>3, NodesLinked
<1>6. ASSUME NEW s \in Sent, s[1] \notin Known(f2)
      PROVE  Unused(f2, b2, m, s)
  <2>1. s[1] \notin Known(f) /\ s[1] # t
    BY <1>2, <1>6
  <2>2. Unused(f, b, m, s)
    BY <2>1 DEF Ringed
  <2>3. f2[s] = f[s] /\ b2[s] = b[s]
    BY <1>0, <1>1, <2>1
  <2> QED
    BY <2>2, <2>3 DEF Unused
<1>7. Ringed(f2, b2, w, m)
  BY <1>0, <1>1, <1>2, <1>3, <1>4, <1>5, <1>6 DEF Ringed
<1> QED
  BY <1>2, <1>7 DEF f2, b2

LEMMA StepRegister ==
  ASSUME SlTypeOK, NEW w, NEW m, NEW p, Ringed(next, prev, w, m), Walks(w, m, p),
         NEW t \in Threads, Register(t)
  PROVE  SlInv'
<1>1. /\ t \notin Known(next) /\ next' = Fresh(next, t) /\ prev' = Fresh(prev, t)
      /\ late' = IF Merged(t) THEN late \cup {t} ELSE late
      /\ UNCHANGED <<ActiveIndex, saved, gc, todo, it, visited, owed>>
  BY SlNames DEF Register, Fresh
<1>2. Ringed(next', prev', w, m) /\ Known(next') = Known(next) \cup {t}
  BY <1>1, FreshRinged
<1>3. ActiveIndex \in {0, 1} /\ Nowhere' = Nowhere /\ Nodes' = Nodes
  BY DEF SlTypeOK, Nowhere, Nodes, Sentinels
<1>4. \A u : A(u)' = A(u) /\ Z(u)' = Z(u) /\ (Merged(u)' <=> Merged(u))
  BY <1>1 DEF A, Z, Merged
<1>5. SlTypeOK'
  <2>1. next' \in [Nodes -> Nodes \cup {Nil}] /\ prev' \in [Nodes -> Nodes \cup {Nil}]
    BY <1>1, SlNames DEF SlTypeOK, Fresh
  <2>2. late' \subseteq Threads
    BY <1>1 DEF SlTypeOK
  <2> QED
    BY <1>1, <1>3, <2>1, <2>2 DEF SlTypeOK
<1>6. /\ m[A(t)] = 0 /\ m[Z(t)] = 0
      /\ \A k \in Nat \ {0} : Ahead(w, m, A(t), k) = {} /\ Ahead(w, m, Z(t), k) = {}
  BY <1>1, <1>3, UnknownEmpty
<1>7. Starts(w, m, p)'
  <2>1. p \in [Threads -> Nat]
    BY DEF Walks, Starts
  <2>2. \A u \in Threads : u \notin Known(next') \/ u \in late' => saved'[u] = Nil
    BY <1>1, <1>2 DEF Walks, Starts
  <2>3. \A u \in Known(next') \ late' : Merged(u) => p[u] <= m[A(u)] /\ saved[u] = Cyc(w, m, A(u), p[u] + 1)
    BY <1>1, <1>2 DEF Walks, Starts
  <2> QED
    BY <1>1, <1>4, <2>1, <2>2, <2>3 DEF Starts
<1>8. Rests'
  BY <1>1, <1>3, <1>4 DEF Walks, Rests
<1>9. SweepGoes(w, m)'
  <2>1. ToSweep(w, m, todo)' = ToSweep(w, m, todo)
    BY <1>1, <1>4 DEF ToSweep
  <2>2. gc = "sweep" => late' = late
    BY <1>1 DEF Merged
  <2> QED
    BY <1>1, <1>3, <1>4, <2>1, <2>2 DEF Walks, SweepGoes
<1>10. MergeGoes(m, p)'
  <2> SUFFICES ASSUME gc = "merge"
               PROVE  /\ late' \cap todo = {}
                      /\ \A u \in Threads \ todo :
                           IF u \in late' THEN m[A(u)] = 0 ELSE u \in Known(next') => p[u] = 0
    BY <1>1, <1>4 DEF MergeGoes
  <2>1. /\ late \cap todo = {}
        /\ \A u \in Threads \ todo : IF u \in late THEN m[A(u)] = 0 ELSE u \in Known(next) => p[u] = 0
    BY DEF Walks, MergeGoes
  <2>2. late' = IF t \notin todo THEN late \cup {t} ELSE late
    BY <1>1 DEF Merged
  <2> QED
    BY <1>2, <1>6, <2>1, <2>2
<1>11. RestoreGoes(w, m, p)'
  <2> SUFFICES ASSUME gc \in {"restore", "finalize"} PROVE RestoreGoes(w, m, p)'
    BY <1>1 DEF RestoreGoes
  <2>1. late' = late \cup {t}
    BY <1>1 DEF Merged
  <2>2. Ahead(w, m, A(t), p[t] + 1) = {}
    <3>1. p[t] + 1 \in Nat \ {0}
      BY DEF Walks, Starts
    <3> QED
      BY <1>6, <3>1
  <2>3. /\ ToWalk(w, m, p, Threads \ late') = ToWalk(w, m, p, Threads \ late)
        /\ ToWalk(w, m, p, todo \ late') = ToWalk(w, m, p, todo \ late)
    BY <2>1, <2>2 DEF ToWalk
  <2>4. /\ ToWalk(w, m, p, Threads \ late)' = ToWalk(w, m, p, Threads \ late')
        /\ ToWalk(w, m, p, todo \ late)' = ToWalk(w, m, p, todo \ late')
    BY <1>1, <1>4 DEF ToWalk
  <2>5. PICK X, Y : /\ X = ToWalk(w, m, p, Threads \ late) /\ X = ToWalk(w, m, p, Threads \ late)'
                    /\ Y = ToWalk(w, m, p, todo \ late) /\ Y = ToWalk(w, m, p, todo \ late)'
    BY <2>3, <2>4
  <2>6. RestoreGoes(w, m, p)
    BY DEF Walks
  <2>7. /\ owed = X
        /\ it = Nowhere => owed = visited \cup Y
        /\ it # Nowhere => \E u \in Threads : \E k \in 1 .. m[A(u)] + 1 :
             /\ it.center = Cyc(w, m, A(u), k)
             /\ k <= m[A(u)] => it.next = Cyc(w, m, A(u), k + 1)
             /\ owed = visited \cup Y \cup Ahead(w, m, A(u), k)
    BY <2>5, <2>6 DEF RestoreGoes
  <2>8. /\ gc' = gc /\ it' = it /\ visited' = visited /\ owed' = owed /\ Nowhere' = Nowhere
        /\ \A u : A(u)' = A(u)
    BY <1>1, <1>3, <1>4
  <2>9. CASE it = Nowhere
    BY <2>5, <2>7, <2>8, <2>9 DEF RestoreGoes
  <2>10. CASE it # Nowhere
    BY <2>5, <2>7, <2>8, <2>10 DEF RestoreGoes
  <2> QED
    BY <2>9, <2>10
<1> QED
  BY <1>2, <1>5, <1>7, <1>8, <1>9, <1>10, <1>11 DEF SlInv, Walks

LEMMA StepInsert ==
  ASSUME SlTypeOK, NEW w, NEW m, NEW p, Ringed(next, prev, w, m), Walks(w, m, p),
         NEW t \in Threads, NEW c \in Cells, Insert(t, c)
  PROVE  SlInv'
<1>0. ActiveIndex \in {0, 1} /\ Nowhere' = Nowhere /\ Nodes' = Nodes
  BY DEF SlTypeOK, Nowhere, Nodes, Sentinels
<1>1. PICK s \in Sent : s = A(t)
  BY <1>0, Ends
<1>2. /\ t \in Known(next) /\ gc # "merge" /\ next[c] = Nil
      /\ next' = LinkNext(next, s, c) /\ prev' = LinkPrev(next, prev, s, c)
      /\ UNCHANGED <<ActiveIndex, saved, gc, todo, it, visited, owed, late>>
  BY <1>1, SlNames DEF Insert, Living, LinkNext, LinkPrev, A
<1>3. /\ \A u : A(u)' = A(u) /\ Z(u)' = Z(u) /\ (Merged(u)' <=> Merged(u))
      /\ s[1] = t
      /\ \A u \in Threads : A(u) \in Sent /\ Z(u) \in Sent /\ Z(u) # s /\ (A(u) = s <=> u = t)
  <2>1. \A u : A(u)' = A(u) /\ Z(u)' = Z(u) /\ (Merged(u)' <=> Merged(u))
    BY <1>2 DEF A, Z, Merged
  <2> QED
    BY <1>0, <1>1, <2>1, Ends
<1>4. PICK w2, m2 : w2 = WithFirst(w, s, c) /\ m2 = Longer(m, s)
  OBVIOUS
<1>5. Ringed(next', prev', w2, m2) /\ Known(next') = Known(next)
  BY <1>2, <1>3, <1>4, PushedRinged
<1>6. /\ m2[s] = m[s] + 1
      /\ \A k \in 1 .. m[s] + 1 : /\ Cyc(w2, m2, s, k + 1) = Cyc(w, m, s, k)
                                  /\ Ahead(w2, m2, s, k + 1) = Ahead(w, m, s, k)
      /\ \A r \in Sent : r # s => /\ m2[r] = m[r]
                                  /\ \A k : /\ Cyc(w2, m2, r, k) = Cyc(w, m, r, k)
                                            /\ Ahead(w2, m2, r, k) = Ahead(w, m, r, k)
  BY <1>4, PushedCyc
<1>7. PICK p2 : p2 = [p EXCEPT ![t] = @ + 1]
  OBVIOUS
<1>8. /\ m[s] \in Nat /\ p \in [Threads -> Nat] /\ p2 \in [Threads -> Nat] /\ p2[t] = p[t] + 1
      /\ \A u \in Threads : u # t => p2[u] = p[u]
  <2>1. m[s] \in Nat
    BY CycFacts
  <2>2. p \in [Threads -> Nat]
    BY DEF Walks, Starts
  <2> QED
    BY <1>7, <2>1, <2>2
<1>9. t \notin late /\ Merged(t) => p[t] + 1 \in 1 .. m[s] + 1 /\ saved[t] = Cyc(w, m, s, p[t] + 1)
  <2> SUFFICES ASSUME t \notin late /\ Merged(t)
               PROVE  p[t] + 1 \in 1 .. m[s] + 1 /\ saved[t] = Cyc(w, m, s, p[t] + 1)
    OBVIOUS
  <2>1. p[t] <= m[s] /\ saved[t] = Cyc(w, m, s, p[t] + 1)
    BY <1>1, <1>2 DEF Walks, Starts
  <2> QED
    BY <1>8, <2>1
<1>10. Starts(w2, m2, p2)'
  <2>1. ASSUME NEW u \in Known(next) \ late, Merged(u)
        PROVE  p2[u] <= m2[A(u)] /\ saved[u] = Cyc(w2, m2, A(u), p2[u] + 1)
    <3>0. u \in Threads
      BY DEF Known
    <3>1. CASE u = t
      <4>1. p[t] + 1 \in 1 .. m[s] + 1 /\ saved[t] = Cyc(w, m, s, p[t] + 1)
        BY <1>9, <2>1, <3>1
      <4>2. saved[t] = Cyc(w2, m2, s, (p[t] + 1) + 1)
        BY <1>6, <4>1
      <4>3. p[t] + 1 <= m2[s]
        BY <1>6, <1>8, <4>1
      <4> QED
        BY <1>1, <1>8, <3>1, <4>2, <4>3
    <3>2. CASE u # t
      <4>1. p[u] <= m[A(u)] /\ saved[u] = Cyc(w, m, A(u), p[u] + 1)
        BY <2>1 DEF Walks, Starts
      <4>2. A(u) \in Sent /\ A(u) # s /\ p2[u] = p[u]
        BY <1>3, <1>8, <3>0, <3>2
      <4> QED
        BY <1>6, <4>1, <4>2
    <3> QED
      BY <3>1, <3>2
  <2>2. \A u \in Threads : u \notin Known(next) \/ u \in late => saved[u] = Nil
    BY DEF Walks, Starts
  <2> QED
    BY <1>2, <1>3, <1>5, <1>8, <2>1, <2>2 DEF Starts
<1>11. Rests'
  BY <1>0, <1>2, <1>3 DEF Walks, Rests
<1>12. SweepGoes(w2, m2)'
  <2>1. \A u \in Threads : /\ m2[Z(u)] = m[Z(u)]
                           /\ \A k : /\ Cyc(w2, m2, Z(u), k) = Cyc(w, m, Z(u), k)
                                     /\ Ahead(w2, m2, Z(u), k) = Ahead(w, m, Z(u), k)
    BY <1>3, <1>6
  <2>2. ToSweep(w2, m2, todo)' = ToSweep(w, m, todo)
    <3>1. todo \subseteq Threads
      BY DEF SlTypeOK
    <3>2. \A u \in todo : Ahead(w2, m2, Z(u), 1) = Ahead(w, m, Z(u), 1)
      BY <2>1, <3>1
    <3>3. ToSweep(w2, m2, todo)' = ToSweep(w2, m2, todo)
      BY <1>2, <1>3 DEF ToSweep
    <3> QED
      BY <3>2, <3>3 DEF ToSweep
  <2> SUFFICES ASSUME gc = "sweep" PROVE SweepGoes(w2, m2)'
    BY <1>2 DEF SweepGoes
  <2>3. /\ late = {}
        /\ it = Nowhere => owed = visited \cup ToSweep(w, m, todo)
        /\ it # Nowhere => \E u \in Threads \ todo : \E k \in 1 .. m[Z(u)] + 1 :
             it.next = Cyc(w, m, Z(u), k) /\ owed = visited \cup ToSweep(w, m, todo) \cup Ahead(w, m, Z(u), k)
    BY DEF Walks, SweepGoes
  <2>4. it # Nowhere => \E u \in Threads \ todo : \E k \in 1 .. m2[Z(u)] + 1 :
             it.next = Cyc(w2, m2, Z(u), k) /\ owed = visited \cup ToSweep(w, m, todo) \cup Ahead(w2, m2, Z(u), k)
    BY <2>1, <2>3
  <2> QED
    BY <1>0, <1>2, <1>3, <2>2, <2>3, <2>4 DEF SweepGoes
<1>13. MergeGoes(m2, p2)'
  BY <1>2 DEF MergeGoes
<1>14. RestoreGoes(w2, m2, p2)'
  <2> SUFFICES ASSUME gc \in {"restore", "finalize"} PROVE RestoreGoes(w2, m2, p2)'
    BY <1>2 DEF RestoreGoes
  <2>1. \A u \in Threads \ late : Ahead(w2, m2, A(u), p2[u] + 1) = Ahead(w, m, A(u), p[u] + 1)
    <3> SUFFICES ASSUME NEW u \in Threads \ late
                 PROVE  Ahead(w2, m2, A(u), p2[u] + 1) = Ahead(w, m, A(u), p[u] + 1)
      OBVIOUS
    <3>1. CASE u = t
      <4>1. p[t] + 1 \in 1 .. m[s] + 1
        BY <1>9, <3>1 DEF Merged
      <4>2. Ahead(w2, m2, s, (p[t] + 1) + 1) = Ahead(w, m, s, p[t] + 1)
        BY <1>6, <4>1
      <4> QED
        BY <1>1, <1>8, <3>1, <4>2
    <3>2. CASE u # t
      BY <1>3, <1>6, <1>8, <3>2
    <3> QED
      BY <3>1, <3>2
  <2>2. /\ ToWalk(w2, m2, p2, Threads \ late)' = ToWalk(w, m, p, Threads \ late)
        /\ ToWalk(w2, m2, p2, todo \ late)' = ToWalk(w, m, p, todo \ late)
    <3>1. todo \subseteq Threads
      BY DEF SlTypeOK
    <3>2. /\ ToWalk(w2, m2, p2, Threads \ late)' = ToWalk(w2, m2, p2, Threads \ late)
          /\ ToWalk(w2, m2, p2, todo \ late)' = ToWalk(w2, m2, p2, todo \ late)
      BY <1>2, <1>3 DEF ToWalk
    <3>3. ToWalk(w2, m2, p2, Threads \ late) = ToWalk(w, m, p, Threads \ late)
      BY <2>1 DEF ToWalk
    <3>4. \A u \in todo \ late : Ahead(w2, m2, A(u), p2[u] + 1) = Ahead(w, m, A(u), p[u] + 1)
      BY <2>1, <3>1
    <3>5. ToWalk(w2, m2, p2, todo \ late) = ToWalk(w, m, p, todo \ late)
      BY <3>4 DEF ToWalk
    <3> QED
      BY <3>2, <3>3, <3>5
  <2>3. /\ owed = ToWalk(w, m, p, Threads \ late)
        /\ it = Nowhere => owed = visited \cup ToWalk(w, m, p, todo \ late)
    BY DEF Walks, RestoreGoes
  <2>4. CASE it = Nowhere
    BY <1>0, <1>2, <2>2, <2>3, <2>4 DEF RestoreGoes
  <2>5. CASE it # Nowhere
    <3>1. PICK u \in Threads : \E k \in 1 .. m[A(u)] + 1 :
            /\ it.center = Cyc(w, m, A(u), k)
            /\ k <= m[A(u)] => it.next = Cyc(w, m, A(u), k + 1)
            /\ owed = visited \cup ToWalk(w, m, p, todo \ late) \cup Ahead(w, m, A(u), k)
      BY <2>5 DEF Walks, RestoreGoes
    <3>2. PICK k \in 1 .. m[A(u)] + 1 :
            /\ it.center = Cyc(w, m, A(u), k)
            /\ k <= m[A(u)] => it.next = Cyc(w, m, A(u), k + 1)
            /\ owed = visited \cup ToWalk(w, m, p, todo \ late) \cup Ahead(w, m, A(u), k)
      BY <3>1
    <3>3. \E l \in 1 .. m2[A(u)] + 1 :
            /\ it.center = Cyc(w2, m2, A(u), l)
            /\ l <= m2[A(u)] => it.next = Cyc(w2, m2, A(u), l + 1)
            /\ owed = visited \cup ToWalk(w, m, p, todo \ late) \cup Ahead(w2, m2, A(u), l)
      <4>1. CASE u = t
        <5>1. k \in 1 .. m[s] + 1 /\ k + 1 \in 1 .. m2[s] + 1
              /\ (k + 1 <= m2[s] => k <= m[s] /\ k + 1 \in 1 .. m[s] + 1)
          BY <1>1, <1>6, <1>8, <3>2, <4>1
        <5>2. it.center = Cyc(w2, m2, s, k + 1) /\ Ahead(w2, m2, s, k + 1) = Ahead(w, m, s, k)
          BY <1>1, <1>6, <3>2, <4>1, <5>1
        <5>3. k + 1 <= m2[s] => it.next = Cyc(w2, m2, s, (k + 1) + 1)
          <6> SUFFICES ASSUME k + 1 <= m2[s] PROVE it.next = Cyc(w2, m2, s, (k + 1) + 1)
            OBVIOUS
          <6>1. it.next = Cyc(w, m, s, k + 1)
            BY <1>1, <3>2, <4>1, <5>1
          <6> QED
            BY <1>6, <5>1, <6>1
        <5> QED
          BY <1>1, <3>2, <4>1, <5>1, <5>2, <5>3
      <4>2. CASE u # t
        <5>1. A(u) \in Sent /\ A(u) # s
          BY <1>3, <4>2
        <5>2. /\ m2[A(u)] = m[A(u)]
              /\ \A l : /\ Cyc(w2, m2, A(u), l) = Cyc(w, m, A(u), l)
                        /\ Ahead(w2, m2, A(u), l) = Ahead(w, m, A(u), l)
          BY <1>6, <5>1
        <5> QED
          BY <3>2, <5>2
      <4> QED
        BY <4>1, <4>2
    <3>4. PICK l \in 1 .. m2[A(u)] + 1 :
            /\ it.center = Cyc(w2, m2, A(u), l)
            /\ l <= m2[A(u)] => it.next = Cyc(w2, m2, A(u), l + 1)
            /\ owed = visited \cup ToWalk(w, m, p, todo \ late) \cup Ahead(w2, m2, A(u), l)
      BY <3>3
    <3>5. A(u)' = A(u) /\ l \in 1 .. m2[A(u)'] + 1
      BY <1>3, <3>4
    <3>6. owed' = visited' \cup ToWalk(w2, m2, p2, todo \ late)' \cup Ahead(w2, m2, A(u), l)
      BY <1>2, <2>2, <3>4
    <3>7. owed' = ToWalk(w2, m2, p2, Threads \ late)' /\ it' = it /\ it' # Nowhere'
      BY <1>0, <1>2, <2>2, <2>3, <2>5
    <3> QED
      BY <3>4, <3>5, <3>6, <3>7 DEF RestoreGoes
  <2> QED
    BY <2>4, <2>5
<1>15. SlTypeOK'
  <2>1. next' \in [Nodes -> Nodes \cup {Nil}] /\ prev' \in [Nodes -> Nodes \cup {Nil}]
    <3>1. next[s] \in Nodes \cup {Nil} /\ s \in Nodes /\ c \in Nodes
      BY SlNames DEF SlTypeOK
    <3> QED
      BY <1>2, <3>1 DEF SlTypeOK, LinkNext, LinkPrev
  <2> QED
    BY <1>0, <1>2, <2>1 DEF SlTypeOK
<1>16. Walks(w2, m2, p2)'
  BY <1>10, <1>11, <1>12, <1>13, <1>14 DEF Walks
<1> QED
  BY <1>5, <1>15, <1>16 DEF SlInv

-----------------------------------------------------------------------------
(* The merge of one slot *)

\* CircularDoubleList::empty is true of rings of at most one cell.
LEMMA EmptyIs ==
  ASSUME NEW w, NEW m, Ringed(next, prev, w, m), NEW s \in Sent, s[1] \in Known(next)
  PROVE  Empty(s) <=> m[s] <= 1
<1>1. m[s] \in Nat /\ Cyc(w, m, s, 0) = s /\ Cyc(w, m, s, m[s] + 1) = s
  BY CycFacts
<1>2. 0 \in 0 .. m[s] /\ m[s] \in 0 .. m[s] /\ 0 + 1 = 1
  BY <1>1
<1>3. next[Cyc(w, m, s, 0)] = Cyc(w, m, s, 0 + 1)
  BY <1>2, NodesLinked
<1>4. prev[Cyc(w, m, s, m[s] + 1)] = Cyc(w, m, s, m[s])
  BY <1>2, NodesLinked
<1>5. next[s] = Cyc(w, m, s, 1) /\ prev[s] = Cyc(w, m, s, m[s])
  BY <1>1, <1>2, <1>3, <1>4
<1>6. CASE m[s] = 0
  BY <1>5, <1>6 DEF Empty, Cyc
<1>7. CASE m[s] = 1
  BY <1>5, <1>7 DEF Empty
<1>8. CASE m[s] > 1
  <2>1. 1 \in 0 .. m[s] + 1 /\ m[s] \in 0 .. m[s] + 1 /\ 1 # m[s] /\ 1 \in 1 .. m[s]
    BY <1>1, <1>8
  <2>2. Cyc(w, m, s, 1) # Cyc(w, m, s, m[s])
    BY <2>1, CycDiffer
  <2> QED
    BY <1>1, <1>5, <1>8, <2>2 DEF Empty
<1> QED
  BY <1>1, <1>6, <1>7, <1>8

\* The rings after merge_from_to: those of other sentinels are as before.
Merges(f2, b2, w2, m2, f, w, m, s, d) ==
  /\ Ringed(f2, b2, w2, m2) /\ Known(f2) = Known(f)
  /\ m2[s] <= 1
  /\ \A r \in Sent : r # s /\ r # d => m2[r] = m[r] /\ \A k : Cyc(w2, m2, r, k) = Cyc(w, m, r, k)

LEMMA MergeRinged ==
  ASSUME NEW w, NEW m, Ringed(next, prev, w, m),
         NEW s \in Sent, NEW d \in Sent, s # d, s[1] \in Known(next), d[1] \in Known(next),
         Merge(s, d)
  PROVE  \E w2, m2 : Merges(next', prev', w2, m2, next, w, m, s, d)
<1>1. CASE Empty(s)
  <2>1. next' = next /\ prev' = prev /\ m[s] <= 1
    BY <1>1, EmptyIs DEF Merge, rings
  <2>2. Merges(next', prev', w, m, next, w, m, s, d)
    BY <2>1 DEF Merges
  <2> QED
    BY <2>2
<1>2. CASE ~Empty(s)
  <2>1. next' = JoinNext(next, prev, s, d) /\ prev' = JoinPrev(next, prev, s, d)
    BY <1>2 DEF Merge, JoinNext, JoinPrev
  <2>2. m \in [Sent -> Nat] /\ m[s] > 1
    <3>1. m \in [Sent -> Nat] /\ m[s] \in Nat
      BY DEF Ringed, Listed
    <3>2. ~(m[s] <= 1)
      BY <1>2, EmptyIs
    <3> QED
      BY <3>1, <3>2
  <2>3. PICK w2, m2 : w2 = Joined(w, m, s, d) /\ m2 = JoinedLen(m, s, d)
    OBVIOUS
  <2>4. Ringed(next', prev', w2, m2) /\ Known(next') = Known(next)
    BY <2>1, <2>2, <2>3, JoinedRinged
  <2>5. IsJoined(w2, m2, w, m, s, d)
    BY <2>2, <2>3, JoinedFacts
  <2>6. JoinsPlaces(w2, m2, w, m, s, d)
    BY <2>2, <2>5, JoinedCyc
  <2>7. m2[s] <= 1 /\ \A r \in Sent : r # s /\ r # d => m2[r] = m[r]
    BY <2>5 DEF IsJoined
  <2>8. \A r \in Sent : r # s /\ r # d => \A k : Cyc(w2, m2, r, k) = Cyc(w, m, r, k)
    BY <2>6 DEF JoinsPlaces
  <2>9. Merges(next', prev', w2, m2, next, w, m, s, d)
    BY <2>4, <2>7, <2>8 DEF Merges
  <2> QED
    BY <2>9
<1> QED
  BY <1>1, <1>2

LEMMA StepMergeSlot ==
  ASSUME SlTypeOK, NEW w, NEW m, NEW p, Ringed(next, prev, w, m), Walks(w, m, p),
         NEW t \in Threads, MergeSlot(t)
  PROVE  SlInv'
<1>0. ActiveIndex \in {0, 1} /\ Nowhere' = Nowhere /\ Nodes' = Nodes
  BY DEF SlTypeOK, Nowhere, Nodes, Sentinels
<1>1. /\ gc = "merge" /\ t \in todo /\ t \in Known(next) /\ todo' = todo \ {t}
      /\ Merge(Z(t), A(t)) /\ saved' = [saved EXCEPT ![t] = next'[A(t)]]
      /\ UNCHANGED <<ActiveIndex, gc, it, visited, owed, late>>
  BY SlNames DEF MergeSlot, A, Z
<1>2. PICK s \in Sent, d \in Sent : s = Z(t) /\ d = A(t)
  BY <1>0, Ends
<1>3. /\ s # d /\ s[1] = t /\ d[1] = t
      /\ \A u : A(u)' = A(u) /\ Z(u)' = Z(u)
      /\ \A u \in Threads : /\ A(u) \in Sent /\ Z(u) \in Sent
                            /\ u # t => A(u) # s /\ A(u) # d /\ Z(u) # s /\ Z(u) # d
  <2>1. \A u : A(u)' = A(u) /\ Z(u)' = Z(u)
    BY <1>1 DEF A, Z
  <2> QED
    BY <1>0, <1>2, <2>1, Ends
<1>4. PICK w2, m2 : Merges(next', prev', w2, m2, next, w, m, s, d)
  <2>1. Merge(s, d)
    BY <1>1, <1>2
  <2> QED
    BY <1>1, <1>3, <2>1, MergeRinged
<1>5. /\ Ringed(next', prev', w2, m2) /\ Known(next') = Known(next)
      /\ m2[s] <= 1
      /\ \A r \in Sent : r # s /\ r # d => m2[r] = m[r] /\ \A k : Cyc(w2, m2, r, k) = Cyc(w, m, r, k)
  BY <1>4 DEF Merges
<1>6. next'[d] = Cyc(w2, m2, d, 1) /\ m2[d] \in Nat /\ next'[d] \in Sent \cup Cells
  <2>1. m2[d] \in Nat /\ Cyc(w2, m2, d, 0) = d
    BY <1>5, CycFacts
  <2>2. 0 \in 0 .. m2[d] /\ 0 + 1 = 1 /\ 1 \in Nat
    BY <2>1
  <2>3. next'[Cyc(w2, m2, d, 0)] = Cyc(w2, m2, d, 0 + 1)
    BY <1>1, <1>3, <1>5, <2>2, NodesLinked
  <2>4. Cyc(w2, m2, d, 1) \in Sent \cup Cells
    BY <1>5, <2>2, CycFacts
  <2> QED
    BY <2>1, <2>2, <2>3, <2>4
<1>7. PICK p2 : p2 = [p EXCEPT ![t] = 0]
  OBVIOUS
<1>8. /\ p2 \in [Threads -> Nat] /\ p2[t] = 0 /\ \A u \in Threads : u # t => p2[u] = p[u]
      /\ saved'[t] = Cyc(w2, m2, d, 1) /\ \A u \in Threads : u # t => saved'[u] = saved[u]
  <2>1. p \in [Threads -> Nat] /\ saved \in [Threads -> Nodes \cup {Nil}]
    BY DEF Walks, Starts, SlTypeOK
  <2> QED
    BY <1>1, <1>2, <1>6, <1>7, <2>1
<1>9. /\ t \notin late
      /\ \A u \in Threads : u # t => (Merged(u)' <=> Merged(u))
  <2>1. late \cap todo = {}
    BY <1>1 DEF Walks, MergeGoes
  <2> QED
    BY <1>1, <2>1 DEF Merged
<1>10. Starts(w2, m2, p2)'
  <2>1. ASSUME NEW u \in Known(next) \ late, Merged(u)'
        PROVE  p2[u] <= m2[A(u)] /\ saved'[u] = Cyc(w2, m2, A(u), p2[u] + 1)
    <3>0. u \in Threads
      BY DEF Known
    <3>1. CASE u = t
      BY <1>2, <1>6, <1>8, <3>1
    <3>2. CASE u # t
      <4>1. p[u] <= m[A(u)] /\ saved[u] = Cyc(w, m, A(u), p[u] + 1)
        BY <1>9, <2>1, <3>0, <3>2 DEF Walks, Starts
      <4>2. A(u) \in Sent /\ A(u) # s /\ A(u) # d /\ p2[u] = p[u] /\ saved'[u] = saved[u]
        BY <1>3, <1>8, <3>0, <3>2
      <4> QED
        BY <1>5, <4>1, <4>2
    <3> QED
      BY <3>1, <3>2
  <2>2. \A u \in Threads : u \notin Known(next) \/ u \in late => saved'[u] = Nil
    <3>1. \A u \in Threads : u \notin Known(next) \/ u \in late => saved[u] = Nil /\ u # t
      BY <1>1, <1>9 DEF Walks, Starts
    <3> QED
      BY <1>8, <3>1
  <2> QED
    BY <1>1, <1>3, <1>5, <1>8, <2>1, <2>2 DEF Starts
<1>11. Rests'
  BY <1>0, <1>1 DEF Walks, Rests
<1>12. MergeGoes(m2, p2)'
  <2>1. /\ late \cap todo = {}
        /\ \A u \in Threads \ todo : IF u \in late THEN m[A(u)] = 0 ELSE u \in Known(next) => p[u] = 0
    BY <1>1 DEF Walks, MergeGoes
  <2>2. ASSUME NEW u \in Threads \ todo'
        PROVE  IF u \in late THEN m2[A(u)] = 0 ELSE u \in Known(next) => p2[u] = 0
    <3>1. CASE u = t
      BY <1>8, <1>9, <3>1
    <3>2. CASE u # t
      <4>1. u \in Threads \ todo /\ p2[u] = p[u] /\ m2[A(u)] = m[A(u)]
        BY <1>1, <1>3, <1>5, <1>8, <3>2
      <4> QED
        BY <2>1, <4>1
    <3> QED
      BY <3>1, <3>2
  <2>3. late' = late /\ late \cap todo' = {}
    BY <1>1, <2>1
  <2> QED
    BY <1>3, <1>5, <2>2, <2>3 DEF MergeGoes
<1>13. SweepGoes(w2, m2)' /\ RestoreGoes(w2, m2, p2)'
  BY <1>1 DEF SweepGoes, RestoreGoes
<1>14. SlTypeOK'
  <2>1. next' \in [Nodes -> Nodes \cup {Nil}] /\ prev' \in [Nodes -> Nodes \cup {Nil}]
    <3>1. /\ next[s] \in Nodes \cup {Nil} /\ next[d] \in Nodes \cup {Nil}
          /\ prev[s] \in Nodes \cup {Nil} /\ s \in Nodes /\ d \in Nodes
      BY SlNames DEF SlTypeOK
    <3>2. Merge(s, d)
      BY <1>1, <1>2
    <3>3. next' = JoinNext(next, prev, s, d) \/ next' = next
      BY <3>2 DEF Merge, JoinNext, rings
    <3>4. prev' = JoinPrev(next, prev, s, d) \/ prev' = prev
      BY <3>2 DEF Merge, JoinPrev, rings
    <3> QED
      BY <3>1, <3>3, <3>4 DEF SlTypeOK, JoinNext, JoinPrev
  <2>2. saved' \in [Threads -> Nodes \cup {Nil}]
    <3>1. saved' = [saved EXCEPT ![t] = next'[d]] /\ next'[d] \in Nodes
      BY <1>1, <1>2, <1>6, SlNames
    <3> QED
      BY <3>1 DEF SlTypeOK
  <2>3. todo' \subseteq Threads
    BY <1>1 DEF SlTypeOK
  <2> QED
    BY <1>0, <1>1, <2>1, <2>2, <2>3 DEF SlTypeOK
<1>15. Walks(w2, m2, p2)'
  BY <1>10, <1>11, <1>12, <1>13 DEF Walks
<1> QED
  BY <1>5, <1>14, <1>15 DEF SlInv

-----------------------------------------------------------------------------
(* The theorems about the lists *)

LEMMA SlInvInit ==
  ASSUME SlInit
  PROVE  SlInv
<1>1. NodesOK
  BY NodesAssumption, SlNames DEF NodesOK
<1>2. /\ next = [n \in Sent \cup Cells |-> Nil] /\ prev = [n \in Sent \cup Cells |-> Nil]
      /\ ActiveIndex = 0 /\ saved = [t \in Threads |-> Nil] /\ gc = "idle"
      /\ todo = {} /\ visited = {} /\ owed = {} /\ late = {} /\ it = Nowhere
  BY SlNames DEF SlInit
<1>3. Known(next) = {}
  <2>1. \A t \in Threads : <<t, 0>> \in Sent
    BY DEF Sent
  <2> QED
    BY <1>2, <2>1 DEF Known
<1>4. PICK w, m, p : w = <<>> /\ m = [s \in Sent |-> 0] /\ p = [t \in Threads |-> 0]
  OBVIOUS
<1>5. Ringed(next, prev, w, m)
  <2>1. Listed(next, w, m)
    BY <1>2, <1>4 DEF Listed
  <2>2. \A s \in Sent : Unused(next, prev, m, s)
    BY <1>2, <1>4 DEF Unused
  <2> QED
    BY <1>1, <1>2, <1>3, <2>1, <2>2 DEF Ringed
<1>6. Walks(w, m, p)
  <2>1. Starts(w, m, p)
    BY <1>2, <1>3, <1>4 DEF Starts
  <2> QED
    BY <1>2, <2>1 DEF Walks, Rests, SweepGoes, MergeGoes, RestoreGoes
<1>7. SlTypeOK
  BY <1>2, SlNames DEF SlTypeOK
<1> QED
  BY <1>5, <1>6, <1>7 DEF SlInv

LEMMA SlInvStep == SlInv /\ [SlNext]_slVars => SlInv'
<1> SUFFICES ASSUME SlInv, [SlNext]_slVars PROVE SlInv'
  OBVIOUS
<1>0. SlTypeOK
  BY DEF SlInv
<1>1. PICK w, m, p : Ringed(next, prev, w, m) /\ Walks(w, m, p)
  BY DEF SlInv
<1>2. CASE UNCHANGED slVars
  <2>1. UNCHANGED <<next, prev, ActiveIndex, saved, gc, todo, it, visited, owed, late>>
    BY <1>2 DEF slVars, rings
  <2>2. Nowhere' = Nowhere /\ SlTypeOK'
    BY <1>0, <2>1 DEF Nowhere, SlTypeOK, Nodes, Sentinels
  <2>3. \A t : A(t)' = A(t) /\ Z(t)' = Z(t) /\ (Merged(t)' <=> Merged(t))
    BY <2>1 DEF A, Z, Merged
  <2>4. Starts(w, m, p)' /\ Rests' /\ MergeGoes(m, p)'
    BY <1>1, <2>1, <2>2, <2>3 DEF Walks, Starts, Rests, MergeGoes
  <2>5. SweepGoes(w, m)'
    <3>1. ToSweep(w, m, todo)' = ToSweep(w, m, todo)
      BY <2>1, <2>3 DEF ToSweep
    <3> QED
      BY <1>1, <2>1, <2>2, <2>3, <3>1 DEF Walks, SweepGoes
  <2>6. RestoreGoes(w, m, p)'
    <3>1. /\ ToWalk(w, m, p, Threads \ late)' = ToWalk(w, m, p, Threads \ late)
          /\ ToWalk(w, m, p, todo \ late)' = ToWalk(w, m, p, todo \ late)
      BY <2>1, <2>3 DEF ToWalk
    <3> QED
      BY <1>1, <2>1, <2>2, <2>3, <3>1 DEF Walks, RestoreGoes
  <2> QED
    BY <1>1, <2>1, <2>2, <2>4, <2>5, <2>6 DEF SlInv, Walks
<1>3. ASSUME NEW t \in Threads, Register(t) \/ \E c \in Cells : Insert(t, c) PROVE SlInv'
  BY <1>0, <1>1, <1>3, StepRegister, StepInsert
<1>4. CASE Flip \/ StartMerge \/ StartRestore \/ StartFinalize \/ EndCollection
  BY <1>0, <1>1, <1>4, StepFlip, StepStartMerge, StepStartRestore, StepStartFinalize, StepEndCollection
<1>5. CASE SweepCell \/ RestoreCell
  BY <1>0, <1>1, <1>5, StepSweepCell, StepRestoreCell
<1>6. ASSUME NEW t \in Threads,
             SkipSlot(t) \/ SweepSlot(t) \/ MergeSlot(t) \/ RestoreSlot(t)
      PROVE  SlInv'
  BY <1>0, <1>1, <1>6, StepSkip, StepSweepSlot, StepMergeSlot, StepRestoreSlot
<1> QED
  BY <1>2, <1>3, <1>4, <1>5, <1>6 DEF SlNext

LEMMA SlInvHolds == SlSpec => []SlInv
<1>1. SlInit => SlInv
  BY SlInvInit
<1>2. SlInv /\ [SlNext]_slVars => SlInv'
  BY SlInvStep
<1> QED
  BY <1>1, <1>2, PTL DEF SlSpec

LEMMA RingsBy ==
  ASSUME SlInv
  PROVE  RingsOK
<1>1. SlTypeOK /\ ActiveIndex \in {0, 1}
  BY DEF SlInv, SlTypeOK
<1>2. PICK w, m : Ringed(next, prev, w, m)
  BY DEF SlInv
<1>3. \A s \in Known(next) \X {0, 1} : s \in Sent /\ s[1] \in Known(next)
  BY DEF Known, Sent
<1>4. \A s \in Sent : s[1] \in Known(next) => s \in Known(next) \X {0, 1}
  BY DEF Sent
<1>5. \A c \in Living : c \in Cells /\ next[c] # Nil
  BY DEF Living
<1>6. ASSUME NEW n \in Living \cup (Known(next) \X {0, 1})
      PROVE  /\ next[n] # Nil /\ prev[next[n]] = n
             /\ prev[n] # Nil /\ next[prev[n]] = n
  <2>1. PICK s \in Sent : s[1] \in Known(next) /\ \E k \in 0 .. m[s] : n = Cyc(w, m, s, k)
    <3>1. CASE n \in Living
      <4>1. PICK s \in Sent : s[1] \in Known(next) /\ \E k \in 1 .. m[s] : w[s][k] = n
        BY <1>2, <1>5, <3>1, NodesLinked
      <4>2. PICK k \in 1 .. m[s] : w[s][k] = n
        BY <4>1
      <4>3. k \in 0 .. m[s] /\ n = Cyc(w, m, s, k)
        BY <1>2, <4>2, CycFacts
      <4> QED
        BY <4>1, <4>3
    <3>2. CASE n \in Known(next) \X {0, 1}
      <4>1. n \in Sent /\ n[1] \in Known(next)
        BY <1>3, <3>2
      <4>2. 0 \in 0 .. m[n] /\ n = Cyc(w, m, n, 0)
        <5>1. m[n] \in Nat /\ Cyc(w, m, n, 0) = n
          BY <1>2, <4>1, CycFacts
        <5> QED
          BY <5>1
      <4> QED
        BY <4>1, <4>2
    <3> QED
      BY <3>1, <3>2
  <2>2. PICK k \in 0 .. m[s] : n = Cyc(w, m, s, k)
    BY <2>1
  <2>3. m[s] \in Nat /\ Cyc(w, m, s, 0) = s /\ Cyc(w, m, s, m[s] + 1) = s
    BY <1>2, CycFacts
  <2>4. \A j \in 0 .. m[s] : next[Cyc(w, m, s, j)] = Cyc(w, m, s, j + 1) /\ prev[Cyc(w, m, s, j + 1)] = Cyc(w, m, s, j)
    BY <1>2, <2>1, NodesLinked
  <2>5. \A j \in Nat : Cyc(w, m, s, j) # Nil
    BY <1>2, CycFacts
  <2>6. next[n] # Nil /\ prev[next[n]] = n
    <3>1. k + 1 \in Nat
      BY <2>3
    <3> QED
      BY <2>2, <2>4, <2>5, <3>1
  <2>7. PICK j \in 0 .. m[s] : n = Cyc(w, m, s, j + 1)
    <3>1. CASE k = 0
      <4>1. m[s] \in 0 .. m[s] /\ n = Cyc(w, m, s, m[s] + 1)
        BY <2>2, <2>3, <3>1
      <4> QED
        BY <4>1
    <3>2. CASE k # 0
      <4>1. k - 1 \in 0 .. m[s] /\ (k - 1) + 1 = k
        BY <2>3, <3>2
      <4> QED
        BY <2>2, <4>1
    <3> QED
      BY <3>1, <3>2
  <2>8. prev[n] # Nil /\ next[prev[n]] = n
    <3>1. j \in Nat
      BY <2>3
    <3> QED
      BY <2>4, <2>5, <2>7, <3>1
  <2> QED
    BY <2>6, <2>8
<1>7. ASSUME NEW c \in Living
      PROVE  \E s \in Known(next) \X {0, 1} : {r \in Known(next) \X {0, 1} : c \in Ring(r)} = {s}
  <2>1. PICK s \in Sent : s[1] \in Known(next) /\ \E k \in 1 .. m[s] : w[s][k] = c
    BY <1>2, <1>5, NodesLinked
  <2>2. PICK k \in 1 .. m[s] : w[s][k] = c
    BY <2>1
  <2>3. \A r \in Sent : Ring(r) = Ahead(w, m, r, 1)
    BY <1>2, RingIs
  <2>4. \A r \in Sent : c \in Ring(r) <=> r = s
    <3>1. \A r \in Sent : \A j \in 1 .. m[r] : w[r][j] = c => r = s
      BY <1>2, <2>2 DEF Ringed, Listed
    <3> QED
      BY <2>2, <2>3, <3>1 DEF Ahead
  <2>5. s \in Known(next) \X {0, 1}
    BY <1>4, <2>1
  <2> QED
    BY <1>3, <2>4, <2>5
<1> QED
  BY <1>1, <1>6, <1>7, SlNames DEF RingsOK

\* The links lead to nodes, next and prev stay inverse of each other, and every cell is in
\* exactly one list, whatever is linked, deleted and merged (Collectable.h 66-92).
THEOREM RingsStayWhole == SlSpec => []RingsOK
<1>1. SlInv => RingsOK
  BY RingsBy
<1>2. SlSpec => []SlInv
  BY SlInvHolds
<1> QED
  BY <1>1, <1>2, PTL

\* Every walk of the collector that is over came to every cell it was for and to no other
\* (_do_collection, _do_restore_snapshot and _do_finalize_snapshot).
THEOREM WalksAreComplete == SlSpec => []WalkIsComplete
<1>1. SlInv => WalkIsComplete
  <2> SUFFICES ASSUME SlInv, gc \in {"sweep", "restore", "finalize"}, todo = {}, it = Nowhere
               PROVE  visited = owed
    BY DEF WalkIsComplete, LoopIsOver
  <2>1. PICK w, m, p : Walks(w, m, p)
    BY DEF SlInv
  <2>2. CASE gc = "sweep"
    BY <2>1, <2>2 DEF Walks, SweepGoes, ToSweep
  <2>3. CASE gc \in {"restore", "finalize"}
    BY <2>1, <2>3 DEF Walks, RestoreGoes, ToWalk
  <2> QED
    BY <2>2, <2>3
<1>2. SlSpec => []SlInv
  BY SlInvHolds
<1> QED
  BY <1>1, <1>2, PTL
=============================================================================
