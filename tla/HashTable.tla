------------------------------ MODULE HashTable ------------------------------
(***************************************************************************)
(* The open-addressing table of CollectableHash.h: linear probing, erased  *)
(* slots that stay as markers and are taken again by an insertion that     *)
(* passes them, and a table twice as big when a quarter of it has been     *)
(* used.  HashTable and its three collectable versions do the same.        *)
(*                                                                         *)
(* An operation is one step: one thread uses a table at a time, and the    *)
(* safe points inside let the collector change its phase, not the table.   *)
(***************************************************************************)
EXTENDS Integers, FiniteSets

CONSTANTS
  Keys, Values, Absent,
  Hashes,        \* values of the hash function
  InitialSize,   \* INITIAL_HASH_SIZE, a power of two
  Free, Skip     \* a slot that was never used; one that was erased

ASSUME AbsentAssumption == Absent \notin Values
ASSUME MarkerAssumption == Free # Skip /\ {Free, Skip} \cap [key : Keys, value : Values] = {}
ASSUME SizeAssumption == InitialSize \in Nat /\ InitialSize >= 4
ASSUME HashAssumption == Hashes \subseteq Nat

VARIABLES
  hash,       \* the hash of each key: any function
  HASH_SIZE,
  data,       \* the slots
  used, wasted

vars == <<hash, HASH_SIZE, data, used, wasted>>

Entry(k, v) == [key |-> k, value |-> v]
Entries == [key : Keys, value : Values]
Slots(t) == DOMAIN t
IsFull(e) == e \notin {Free, Skip}

HtTypeOK ==
  /\ hash \in [Keys -> Hashes]
  /\ HASH_SIZE \in Nat
  /\ data \in [0 .. HASH_SIZE - 1 -> Entries \cup {Free, Skip}]
  /\ used \in Nat /\ wasted \in Nat

Fresh(n) == [i \in 0 .. n - 1 |-> Free]

Init ==
  /\ hash \in [Keys -> Hashes]
  /\ HASH_SIZE = InitialSize
  /\ data = Fresh(InitialSize)
  /\ used = 0 /\ wasted = 0

-----------------------------------------------------------------------------
(* findu *)

\* The slot that a probe for k looks at after d others.
Probe(t, k, d) == (hash[k] + d) % Cardinality(Slots(t))

Stops(t, k, d) ==
  LET e == t[Probe(t, k, d)] IN e = Free \/ (IsFull(e) /\ e.key = k)

\* How far it goes.  The code asserts that it does not come round.
Distance(t, k) ==
  CHOOSE d \in Slots(t) : Stops(t, k, d) /\ \A c \in 0 .. d - 1 : ~Stops(t, k, c)

Found(t, k) == t[Probe(t, k, Distance(t, k))] # Free

\* With for_insert: the first erased slot on the way, if the key is not found.
SlotFor(t, k) ==
  LET passed == {d \in 0 .. Distance(t, k) - 1 : t[Probe(t, k, d)] = Skip}
  IN  Probe(t, k, IF passed # {} /\ ~Found(t, k)
                  THEN CHOOSE d \in passed : \A c \in passed : d <= c
                  ELSE Distance(t, k))

-----------------------------------------------------------------------------
(* inc_used *)

Crowded_Used(u, w, n) == u * 4 > n
Crowded(u, w, n) == (u + w) * 4 > n

\* The entries of t are inserted into a table of n slots from the first on.
Rehashed(t, n) ==
  LET moved[i \in 0 .. Cardinality(Slots(t))] ==
        IF i = 0 THEN Fresh(n)
        ELSE IF ~IsFull(t[i - 1]) THEN moved[i - 1]
        ELSE [moved[i - 1] EXCEPT ![SlotFor(moved[i - 1], t[i - 1].key)] = t[i - 1]]
  IN  moved[Cardinality(Slots(t))]

\* The table t has one entry more, and w erased slots.
IncUsed(t, w) ==
  IF Crowded(used + 1, w, HASH_SIZE)
  THEN /\ HASH_SIZE' = 2 * HASH_SIZE
       /\ data' = Rehashed(t, 2 * HASH_SIZE)
       /\ used' = Cardinality({i \in Slots(t) : IsFull(t[i])})
       /\ wasted' = 0
  ELSE /\ data' = t
       /\ used' = used + 1
       /\ wasted' = w
       /\ UNCHANGED HASH_SIZE

-----------------------------------------------------------------------------
(* The operations. *)

PutNew_KeepsWasted(k, v) ==
  /\ ~Found(data, k)
  /\ LET s == SlotFor(data, k)
     IN  IncUsed([data EXCEPT ![s] = Entry(k, v)], wasted)
PutNew(k, v) ==
  /\ ~Found(data, k)
  /\ LET s == SlotFor(data, k)
     IN  IncUsed([data EXCEPT ![s] = Entry(k, v)],
                 IF data[s] = Skip THEN wasted - 1 ELSE wasted)

\* insert; it does nothing if the key is there.
Insert(k, v) == PutNew(k, v) /\ UNCHANGED hash

\* insert_or_assign
InsertOrAssign(k, v) ==
  /\ \/ PutNew(k, v)
     \/ /\ Found(data, k)
        /\ data' = [data EXCEPT ![SlotFor(data, k)] = Entry(k, v)]
        /\ UNCHANGED <<HASH_SIZE, used, wasted>>
  /\ UNCHANGED hash

Erase_Free(k) ==
  /\ Found(data, k)
  /\ data' = [data EXCEPT ![Probe(data, k, Distance(data, k))] = Free]
  /\ used' = used - 1
  /\ UNCHANGED <<hash, HASH_SIZE, wasted>>
Erase(k) ==
  /\ Found(data, k)
  /\ data' = [data EXCEPT ![Probe(data, k, Distance(data, k))] = Skip]
  /\ used' = used - 1
  /\ wasted' = wasted + 1
  /\ UNCHANGED <<hash, HASH_SIZE>>

Clear ==
  /\ used > 0
  /\ data' = Fresh(HASH_SIZE)
  /\ used' = 0 /\ wasted' = 0
  /\ UNCHANGED <<hash, HASH_SIZE>>

\* operator[]: the value of a key, or the table's empty value.
At(k) == IF Found(data, k) THEN data[Probe(data, k, Distance(data, k))].value ELSE Absent

Next ==
  \/ \E k \in Keys, v \in Values : Insert(k, v) \/ InsertOrAssign(k, v)
  \/ \E k \in Keys : Erase(k)
  \/ Clear

Spec == Init /\ [][Next]_vars

-----------------------------------------------------------------------------
(* What the table promises. *)

\* The table is well formed, size() is the number of keys, and wasted that of erased slots:
\* inc_used decides by them whether a probe can still end (CollectableHash.h 483, 511, 598).
CountsExact ==
  /\ HtTypeOK
  /\ used = Cardinality({k \in Keys : At(k) # Absent})
  /\ used = Cardinality({i \in Slots(data) : IsFull(data[i])})
  /\ wasted = Cardinality({i \in Slots(data) : data[i] = Skip})

\* Erased slots included, a quarter of the table at most has been used (the table "stays
\* at least 4 times as big as the number of elements", CollectableHash.h 12), so a probe
\* meets a free slot before it comes round (the assert of findu, 529).
ProbesEnd ==
  /\ (used + wasted) * 4 <= HASH_SIZE
  /\ \A k \in Keys : \E d \in Slots(data) : Stops(data, k, d)

\* Whatever collides, is erased and grows: the table is a dictionary.
D == INSTANCE Dictionary WITH dict <- [k \in Keys |-> At(k)]
ImplementsDictionary == D!DcSpec
=============================================================================
