----------------------------- MODULE HashProofs -----------------------------
(***************************************************************************)
(* Proofs about HashTable, for any keys and values, any hash function and  *)
(* any first size from 4: the counters are exact, every probe ends, and    *)
(* the table is a dictionary whatever collides, is erased and grows.       *)
(***************************************************************************)
EXTENDS HashTable, DataInduction

-----------------------------------------------------------------------------
(* Arithmetic of the probes *)

LEMMA Multiples ==
  ASSUME NEW n \in Nat, NEW p \in Int, NEW q \in Int, p > q
  PROVE  n * p >= n * q + n
<1>1. PICK k \in Nat : p = q + 1 + k
  <2>1. p - q - 1 \in Nat /\ p = q + 1 + (p - q - 1)
    OBVIOUS
  <2> QED
    BY <2>1
<1>2. n * p = n * q + n + n * k
  BY <1>1
<1>3. n * k >= 0
  OBVIOUS
<1>4. n * p \in Int /\ n * q \in Int /\ n * k \in Int
  OBVIOUS
<1> QED
  BY <1>2, <1>3, <1>4

LEMMA Division ==
  ASSUME NEW a \in Nat, NEW n \in Nat, n > 0
  PROVE  a = n * (a \div n) + (a % n) /\ a \div n \in Int /\ a % n \in 0 .. n - 1
OBVIOUS

LEMMA Remainder ==
  ASSUME NEW a \in Nat, NEW n \in Nat, n > 0, NEW q \in Int, NEW r \in 0 .. n - 1, a = n * q + r
  PROVE  a % n = r
<1>1. PICK p \in Int, s \in 0 .. n - 1 : a = n * p + s /\ s = a % n
  BY Division
<1>2. n * p \in Int /\ n * q \in Int
  OBVIOUS
<1>3. ~(p > q)
  <2>1. p > q => n * p >= n * q + n
    BY Multiples
  <2> QED
    BY <1>1, <1>2, <2>1
<1>4. ~(q > p)
  <2>1. q > p => n * q >= n * p + n
    BY Multiples
  <2> QED
    BY <1>1, <1>2, <2>1
<1>5. p = q
  BY <1>3, <1>4
<1>6. \A x \in Int : a = x + s /\ a = x + r => s = r
  OBVIOUS
<1> QED
  BY <1>1, <1>2, <1>5, <1>6

\* Going on from a slot stays in the table or wraps round once.
LEMMA WrapsOnce ==
  ASSUME NEW h \in Nat, NEW n \in Nat, n > 0, NEW d \in 0 .. n - 1
  PROVE  /\ h % n \in 0 .. n - 1
         /\ (h + d) % n = IF (h % n) + d < n THEN (h % n) + d ELSE (h % n) + d - n
<1>1. PICK q \in Int, r \in 0 .. n - 1 : h = n * q + r /\ r = h % n
  BY Division
<1>2. n * q \in Int /\ h + d \in Nat /\ n * (q + 1) = n * q + n
  OBVIOUS
<1>3. CASE r + d < n
  <2>1. h + d = n * q + (r + d) /\ r + d \in 0 .. n - 1
    BY <1>1, <1>2, <1>3
  <2>2. (h + d) % n = r + d
    BY <1>2, <2>1, Remainder
  <2> QED
    BY <1>1, <1>3, <2>2
<1>4. CASE ~(r + d < n)
  <2>1. h + d = n * (q + 1) + (r + d - n) /\ r + d - n \in 0 .. n - 1 /\ q + 1 \in Int
    BY <1>1, <1>2, <1>4
  <2>2. (h + d) % n = r + d - n
    BY <1>2, <2>1, Remainder
  <2> QED
    BY <1>1, <1>4, <2>2
<1> QED
  BY <1>3, <1>4

\* So a probe of n slots looks at each of them once.
LEMMA ProbesAll ==
  ASSUME NEW h \in Nat, NEW n \in Nat, n > 0
  PROVE  /\ \A d \in 0 .. n - 1 : (h + d) % n \in 0 .. n - 1
         /\ \A c, d \in 0 .. n - 1 : (h + c) % n = (h + d) % n => c = d
         /\ \A i \in 0 .. n - 1 : \E d \in 0 .. n - 1 : (h + d) % n = i
<1>1. PICK r \in 0 .. n - 1 : r = h % n
  BY Division
<1>2. \A d \in 0 .. n - 1 : (h + d) % n = IF r + d < n THEN r + d ELSE r + d - n
  BY <1>1, WrapsOnce
<1>3. \A d \in 0 .. n - 1 : (h + d) % n \in 0 .. n - 1
  BY <1>2
<1>4. ASSUME NEW c \in 0 .. n - 1, NEW d \in 0 .. n - 1, (h + c) % n = (h + d) % n
      PROVE  c = d
  BY <1>2, <1>4
<1>5. ASSUME NEW i \in 0 .. n - 1
      PROVE  \E d \in 0 .. n - 1 : (h + d) % n = i
  <2>1. CASE i >= r
    <3>1. PICK d \in 0 .. n - 1 : r + d = i
      <4>1. i - r \in 0 .. n - 1 /\ r + (i - r) = i
        BY <2>1
      <4> QED
        BY <4>1
    <3>2. r + d < n
      BY <3>1
    <3>3. (h + d) % n = i
      BY <3>1, <3>2, <1>2
    <3> QED
      BY <3>3
  <2>2. CASE i < r
    <3>1. PICK d \in 0 .. n - 1 : r + d = i + n
      <4>1. i - r + n \in 0 .. n - 1 /\ r + (i - r + n) = i + n
        BY <2>2
      <4> QED
        BY <4>1
    <3>2. ~(r + d < n) /\ r + d - n = i
      BY <3>1
    <3> QED
      BY <3>2, <1>2
  <2> QED
    BY <2>1, <2>2
<1> QED
  BY <1>3, <1>4, <1>5

-----------------------------------------------------------------------------
(* Tables *)

Tables(n) == [0 .. n - 1 -> Entries \cup {Free, Skip}]
Full(t) == {i \in Slots(t) : IsFull(t[i])}
Erased(t) == {i \in Slots(t) : t[i] = Skip}
Content(t) == {t[i] : i \in Full(t)}

LEMMA TableFacts ==
  ASSUME NEW n \in Nat, n > 0, NEW t \in Tables(n)
  PROVE  /\ Slots(t) = 0 .. n - 1 /\ Cardinality(Slots(t)) = n
         /\ IsFiniteSet(Full(t)) /\ IsFiniteSet(Erased(t))
         /\ Full(t) \subseteq 0 .. n - 1 /\ Erased(t) \subseteq 0 .. n - 1
         /\ Cardinality(Full(t)) \in Nat /\ Cardinality(Erased(t)) \in Nat
         /\ \A i \in 0 .. n - 1 : \/ t[i] = Free /\ i \notin Full(t)
                                  \/ t[i] = Skip /\ i \notin Full(t) /\ i \in Erased(t)
                                  \/ i \in Full(t) /\ t[i] \in Entries /\ t[i] # Free /\ t[i] # Skip
         /\ \A i \in Full(t) : t[i] \in Entries /\ t[i].key \in Keys /\ t[i].value \in Values
                               /\ t[i] # Free /\ t[i] # Skip /\ IsFull(t[i])
<1>1. Slots(t) = 0 .. n - 1
  BY DEF Tables, Slots
<1>2. IsFiniteSet(0 .. n - 1) /\ Cardinality(0 .. n - 1) = n
  BY FS_Interval
<1>3. Full(t) \subseteq 0 .. n - 1 /\ Erased(t) \subseteq 0 .. n - 1
  BY <1>1 DEF Full, Erased
<1>4. /\ IsFiniteSet(Full(t)) /\ IsFiniteSet(Erased(t))
      /\ Cardinality(Full(t)) \in Nat /\ Cardinality(Erased(t)) \in Nat
  BY <1>2, <1>3, FS_Subset, FS_CardinalityType
<1>5. \A i \in 0 .. n - 1 : t[i] \in Entries \cup {Free, Skip}
  BY DEF Tables
<1>6. Free # Skip /\ Free \notin Entries /\ Skip \notin Entries
  BY MarkerAssumption DEF Entries
<1>7. \A i \in 0 .. n - 1 : \/ t[i] = Free /\ i \notin Full(t)
                            \/ t[i] = Skip /\ i \notin Full(t) /\ i \in Erased(t)
                            \/ i \in Full(t) /\ t[i] \in Entries /\ t[i] # Free /\ t[i] # Skip
  BY <1>1, <1>5, <1>6 DEF Full, Erased, IsFull
<1>8. \A i \in Full(t) : t[i] \in Entries /\ t[i] # Free /\ t[i] # Skip /\ IsFull(t[i])
  BY <1>3, <1>7 DEF Full
<1>9. \A e \in Entries : e.key \in Keys /\ e.value \in Values
  BY DEF Entries
<1> QED
  BY <1>1, <1>2, <1>3, <1>4, <1>7, <1>8, <1>9

HashOK == hash \in [Keys -> Hashes]

LEMMA ProbeFacts ==
  ASSUME HashOK, NEW n \in Nat, n > 0, NEW t \in Tables(n), NEW k \in Keys
  PROVE  /\ \A d \in 0 .. n - 1 : Probe(t, k, d) \in 0 .. n - 1
         /\ \A c, d \in 0 .. n - 1 : Probe(t, k, c) = Probe(t, k, d) => c = d
         /\ \A i \in 0 .. n - 1 : \E d \in 0 .. n - 1 : Probe(t, k, d) = i
<1>1. PICK h \in Nat : h = hash[k]
  BY HashAssumption DEF HashOK
<1>2. \A d : Probe(t, k, d) = (h + d) % n
  BY <1>1, TableFacts DEF Probe
<1>3. /\ \A d \in 0 .. n - 1 : (h + d) % n \in 0 .. n - 1
      /\ \A c, d \in 0 .. n - 1 : (h + c) % n = (h + d) % n => c = d
      /\ \A i \in 0 .. n - 1 : \E d \in 0 .. n - 1 : (h + d) % n = i
  BY ProbesAll
<1> HIDE DEF Probe
<1>4. ASSUME NEW d \in 0 .. n - 1 PROVE Probe(t, k, d) \in 0 .. n - 1
  <2>1. (h + d) % n \in 0 .. n - 1
    BY <1>3
  <2>2. Probe(t, k, d) = (h + d) % n
    BY <1>2
  <2> QED
    BY <2>1, <2>2, Zenon
<1>5. \A c, d \in 0 .. n - 1 : Probe(t, k, c) = Probe(t, k, d) => c = d
  BY <1>2, <1>3, Zenon
<1>6. \A i \in 0 .. n - 1 : \E d \in 0 .. n - 1 : Probe(t, k, d) = i
  BY <1>2, <1>3, Zenon
<1> QED
  BY <1>4, <1>5, <1>6

\* The first d slots that a probe looks at are not free.
NoneFree(t, k, d) == \A c \in 0 .. d - 1 : t[Probe(t, k, c)] # Free

\* Every key has one slot at most, where a probe for it comes by, and there is a free slot.
Sound(t, n) ==
  /\ t \in Tables(n)
  /\ \A i, j \in Full(t) : t[i].key = t[j].key => i = j
  /\ \A i \in Full(t) : \E d \in 0 .. n - 1 : Probe(t, t[i].key, d) = i /\ NoneFree(t, t[i].key, d)
  /\ \E i \in 0 .. n - 1 : t[i] = Free

-----------------------------------------------------------------------------
(* findu *)

LEMMA DistanceFacts ==
  ASSUME HashOK, NEW n \in Nat, n > 0, NEW t, Sound(t, n), NEW k \in Keys
  PROVE  /\ Distance(t, k) \in 0 .. n - 1 /\ Stops(t, k, Distance(t, k))
         /\ \A c \in 0 .. Distance(t, k) - 1 : ~Stops(t, k, c)
<1>0. t \in Tables(n) /\ Slots(t) = 0 .. n - 1
  BY TableFacts DEF Sound
<1> DEFINE E == {d \in 0 .. n - 1 : Stops(t, k, d)}
<1>1. E # {}
  <2>1. PICK i \in 0 .. n - 1 : t[i] = Free
    BY DEF Sound
  <2>2. PICK d \in 0 .. n - 1 : Probe(t, k, d) = i
    BY <1>0, ProbeFacts
  <2>3. Stops(t, k, d)
    BY <2>1, <2>2 DEF Stops
  <2> QED
    BY <2>3
<1>2. E \in SUBSET Nat
  OBVIOUS
<1>3. PICK d \in E : \A m \in E : d <= m
  BY <1>1, <1>2, LeastNumber
<1>4. d \in Slots(t) /\ Stops(t, k, d) /\ \A c \in 0 .. d - 1 : ~Stops(t, k, c)
  BY <1>0, <1>3
<1>5. /\ Distance(t, k) \in Slots(t) /\ Stops(t, k, Distance(t, k))
      /\ \A c \in 0 .. Distance(t, k) - 1 : ~Stops(t, k, c)
  BY <1>4 DEF Distance
<1> QED
  BY <1>0, <1>5

\* A key is found if and only if it is in the table, and then where it is; otherwise the probe has
\* come to a free slot.
LEMMA FoundFacts ==
  ASSUME HashOK, NEW n \in Nat, n > 0, NEW t, Sound(t, n), NEW k \in Keys
  PROVE  LET s == Probe(t, k, Distance(t, k)) IN
         /\ s \in 0 .. n - 1
         /\ Found(t, k) <=> s \in Full(t)
         /\ Found(t, k) <=> \E i \in Full(t) : t[i].key = k
         /\ Found(t, k) => t[s].key = k
         /\ ~Found(t, k) => t[s] = Free
         /\ NoneFree(t, k, Distance(t, k))
<1> DEFINE d == Distance(t, k)
           s == Probe(t, k, d)
<1>0. t \in Tables(n)
  BY DEF Sound
<1>1. d \in 0 .. n - 1 /\ Stops(t, k, d) /\ \A c \in 0 .. d - 1 : ~Stops(t, k, c)
  BY DistanceFacts
<1>2. s \in 0 .. n - 1
  BY <1>0, <1>1, ProbeFacts
<1>3. t[s] = Free \/ (IsFull(t[s]) /\ t[s].key = k)
  BY <1>1 DEF Stops
<1>4. Found(t, k) <=> t[s] # Free
  BY DEF Found
<1>5. NoneFree(t, k, d)
  BY <1>1 DEF NoneFree, Stops
<1> HIDE DEF s, d
<1>6. Found(t, k) <=> s \in Full(t)
  BY <1>0, <1>2, <1>3, <1>4, TableFacts DEF Full
<1>7. Found(t, k) => t[s].key = k
  BY <1>3, <1>4
<1>8. ASSUME NEW i \in Full(t), t[i].key = k
      PROVE  Found(t, k)
  <2>1. PICK e \in 0 .. n - 1 : Probe(t, k, e) = i /\ NoneFree(t, k, e)
    BY <1>8 DEF Sound
  <2>2. Stops(t, k, e) /\ t[i] # Free
    <3>1. IsFull(t[i]) /\ t[i] # Free
      BY <1>0, TableFacts
    <3> QED
      BY <2>1, <3>1, <1>8 DEF Stops
  <2>3. ~(e < d)
    BY <1>1, <2>2
  <2>4. CASE e = d
    BY <2>1, <2>2, <2>4, <1>4 DEF s
  <2>5. CASE d < e
    <3>1. d \in 0 .. e - 1
      BY <2>5, <1>1
    <3> QED
      BY <2>1, <3>1, <1>4 DEF NoneFree, s
  <2> QED
    BY <2>3, <2>4, <2>5, <1>1
<1> QED
  BY <1>2, <1>4, <1>5, <1>6, <1>7, <1>8 DEF s, d

\* What SlotFor gives an insertion: the key's own slot, or one that holds no entry and that a
\* probe for the key comes to before any free slot.
LEMMA SlotForFacts ==
  ASSUME HashOK, NEW n \in Nat, n > 0, NEW t, Sound(t, n), NEW k \in Keys
  PROVE  LET s == SlotFor(t, k) IN
         /\ Found(t, k) => s = Probe(t, k, Distance(t, k))
         /\ ~Found(t, k) => /\ s \in 0 .. n - 1 /\ s \notin Full(t)
                            /\ \E d \in 0 .. n - 1 : Probe(t, k, d) = s /\ NoneFree(t, k, d)
<1> DEFINE d == Distance(t, k)
           passed == {c \in 0 .. d - 1 : t[Probe(t, k, c)] = Skip}
<1>0. t \in Tables(n)
  BY DEF Sound
<1>1. d \in 0 .. n - 1 /\ NoneFree(t, k, d) /\ Probe(t, k, d) \in 0 .. n - 1
  BY DistanceFacts, FoundFacts
<1>2. SlotFor(t, k) = Probe(t, k, IF passed # {} /\ ~Found(t, k)
                                  THEN CHOOSE c \in passed : \A e \in passed : c <= e ELSE d)
  BY DEF SlotFor
<1>3. CASE Found(t, k)
  BY <1>2, <1>3
<1>4. CASE ~Found(t, k) /\ passed = {}
  <2>1. SlotFor(t, k) = Probe(t, k, d)
    BY <1>2, <1>4
  <2>2. Probe(t, k, d) \notin Full(t)
    BY <1>4, FoundFacts
  <2> QED
    BY <1>1, <1>4, <2>1, <2>2
<1>5. CASE ~Found(t, k) /\ passed # {}
  <2>1. passed \in SUBSET Nat
    BY <1>1
  <2>2. PICK c \in passed : \A e \in passed : c <= e
    BY <2>1, <1>5, LeastNumber
  <2>3. PICK c2 \in passed : c2 = CHOOSE c0 \in passed : \A e \in passed : c0 <= e
    BY <2>2
  <2>4. SlotFor(t, k) = Probe(t, k, c2)
    BY <1>2, <1>5, <2>3
  <2>5. c2 \in 0 .. d - 1 /\ c2 \in 0 .. n - 1 /\ t[Probe(t, k, c2)] = Skip
    BY <1>1
  <2>6. Probe(t, k, c2) \in 0 .. n - 1
    BY <1>0, <2>5, ProbeFacts
  <2>7. NoneFree(t, k, c2)
    BY <1>1, <2>5 DEF NoneFree
  <2>8. Probe(t, k, c2) \notin Full(t)
    BY <1>0, <2>5, <2>6, TableFacts
  <2> QED
    BY <1>5, <2>4, <2>5, <2>6, <2>7, <2>8
<1> QED
  BY <1>3, <1>4, <1>5

-----------------------------------------------------------------------------
(* What an operation makes of the table *)

Put(t, s, e) == [t EXCEPT ![s] = e]

LEMMA PutEntry ==
  ASSUME NEW n \in Nat, n > 0, NEW t \in Tables(n), NEW s \in 0 .. n - 1, NEW e \in Entries
  PROVE  /\ Put(t, s, e) \in Tables(n)
         /\ Put(t, s, e)[s] = e
         /\ \A i \in 0 .. n - 1 : i # s => Put(t, s, e)[i] = t[i]
         /\ Full(Put(t, s, e)) = Full(t) \cup {s}
         /\ Erased(Put(t, s, e)) = Erased(t) \ {s}
<1> DEFINE u == Put(t, s, e)
<1>1. DOMAIN t = 0 .. n - 1 /\ e \in Entries \cup {Free, Skip} /\ t \in [0 .. n - 1 -> Entries \cup {Free, Skip}]
  BY DEF Tables
<1>2. u \in Tables(n) /\ u[s] = e /\ \A i \in 0 .. n - 1 : i # s => u[i] = t[i]
  BY <1>1 DEF Put, Tables
<1>3. e # Free /\ e # Skip
  BY MarkerAssumption DEF Entries
<1>4. Slots(u) = 0 .. n - 1 /\ Slots(t) = 0 .. n - 1
  BY <1>2, TableFacts
<1> HIDE DEF u
<1>5. Full(u) = Full(t) \cup {s}
  BY <1>2, <1>3, <1>4 DEF Full, IsFull
<1>6. Erased(u) = Erased(t) \ {s}
  BY <1>2, <1>3, <1>4 DEF Erased
<1> QED
  BY <1>2, <1>5, <1>6 DEF u

LEMMA PutSkip ==
  ASSUME NEW n \in Nat, n > 0, NEW t \in Tables(n), NEW s \in 0 .. n - 1
  PROVE  /\ Put(t, s, Skip) \in Tables(n)
         /\ Put(t, s, Skip)[s] = Skip
         /\ \A i \in 0 .. n - 1 : i # s => Put(t, s, Skip)[i] = t[i]
         /\ Full(Put(t, s, Skip)) = Full(t) \ {s}
         /\ Erased(Put(t, s, Skip)) = Erased(t) \cup {s}
<1> DEFINE u == Put(t, s, Skip)
<1>1. DOMAIN t = 0 .. n - 1 /\ Skip \in Entries \cup {Free, Skip} /\ t \in [0 .. n - 1 -> Entries \cup {Free, Skip}]
  BY DEF Tables
<1>2. u \in Tables(n) /\ u[s] = Skip /\ \A i \in 0 .. n - 1 : i # s => u[i] = t[i]
  BY <1>1 DEF Put, Tables
<1>3. Free # Skip
  BY MarkerAssumption
<1>4. Slots(u) = 0 .. n - 1 /\ Slots(t) = 0 .. n - 1
  BY <1>2, TableFacts
<1> HIDE DEF u
<1>5. Full(u) = Full(t) \ {s}
  BY <1>2, <1>3, <1>4 DEF Full, IsFull
<1>6. Erased(u) = Erased(t) \cup {s}
  BY <1>2, <1>3, <1>4 DEF Erased
<1> QED
  BY <1>2, <1>5, <1>6 DEF u

\* A table whose entries and erased slots are fewer than its slots has a free one.
LEMMA Room ==
  ASSUME NEW n \in Nat, n > 0, NEW t \in Tables(n),
         Cardinality(Full(t)) + Cardinality(Erased(t)) < n
  PROVE  \E i \in 0 .. n - 1 : t[i] = Free
<1> SUFFICES ASSUME \A i \in 0 .. n - 1 : t[i] # Free PROVE FALSE
  OBVIOUS
<1>1. Full(t) \cup Erased(t) = 0 .. n - 1
  BY TableFacts
<1>2. Full(t) \cap Erased(t) = {}
  BY TableFacts DEF Erased
<1>3. IsFiniteSet(Full(t)) /\ IsFiniteSet(Erased(t))
      /\ Cardinality(Full(t)) \in Nat /\ Cardinality(Erased(t)) \in Nat
  BY TableFacts
<1>4. Cardinality(0 .. n - 1) = Cardinality(Full(t)) + Cardinality(Erased(t)) - Cardinality({})
  BY <1>1, <1>2, <1>3, FS_Union
<1>5. Cardinality({}) = 0 /\ Cardinality(0 .. n - 1) = n
  BY FS_EmptySet, FS_Interval
<1> QED
  BY <1>3, <1>4, <1>5

\* The entries of other keys than k.
Without(C, k) == {e \in C : e.key # k}

\* A table with the same or fewer slots free holds what a probe has to pass.
LEMMA StillPassed ==
  ASSUME HashOK, NEW n \in Nat, n > 0, NEW t \in Tables(n), NEW u \in Tables(n),
         \A i \in 0 .. n - 1 : u[i] = Free => t[i] = Free,
         NEW k \in Keys, NEW d \in 0 .. n - 1, NoneFree(t, k, d)
  PROVE  Probe(u, k, d) = Probe(t, k, d) /\ NoneFree(u, k, d)
<1>1. Cardinality(Slots(t)) = Cardinality(Slots(u))
  BY TableFacts
<1>2. \A c : Probe(u, k, c) = Probe(t, k, c)
  BY <1>1 DEF Probe
<1>3. ASSUME NEW c \in 0 .. d - 1 PROVE u[Probe(u, k, c)] # Free
  <2>1. c \in 0 .. n - 1 /\ t[Probe(t, k, c)] # Free
    BY DEF NoneFree
  <2>2. Probe(t, k, c) \in 0 .. n - 1
    BY <2>1, ProbeFacts
  <2> QED
    BY <1>2, <2>1, <2>2
<1> QED
  BY <1>2, <1>3 DEF NoneFree

\* A new entry in the slot of its key.
LEMMA PutSound ==
  ASSUME HashOK, NEW n \in Nat, n > 0, NEW t, Sound(t, n), NEW k \in Keys, NEW v \in Values,
         ~Found(t, k), Cardinality(Full(t)) + Cardinality(Erased(t)) + 1 < n
  PROVE  LET s == SlotFor(t, k)
             u == Put(t, s, Entry(k, v))
         IN  /\ Sound(u, n)
             /\ Content(u) = Without(Content(t), k) \cup {Entry(k, v)}
             /\ Cardinality(Full(u)) = Cardinality(Full(t)) + 1
             /\ t[s] = Skip => Cardinality(Erased(u)) = Cardinality(Erased(t)) - 1
             /\ t[s] # Skip => Cardinality(Erased(u)) = Cardinality(Erased(t))
<1> DEFINE s == SlotFor(t, k)
           e == Entry(k, v)
           u == Put(t, s, e)
<1>0. t \in Tables(n)
  BY DEF Sound
<1>1. /\ s \in 0 .. n - 1 /\ s \notin Full(t)
      /\ \E d \in 0 .. n - 1 : Probe(t, k, d) = s /\ NoneFree(t, k, d)
  BY SlotForFacts
<1>2. \A i \in Full(t) : t[i].key # k
  BY FoundFacts
<1>3. e \in Entries /\ e.key = k
  BY DEF Entry, Entries
<1> HIDE DEF s, e
<1>4. /\ u \in Tables(n) /\ u[s] = e
      /\ \A i \in 0 .. n - 1 : i # s => u[i] = t[i]
      /\ Full(u) = Full(t) \cup {s} /\ Erased(u) = Erased(t) \ {s}
  BY <1>0, <1>1, <1>3, PutEntry
<1> HIDE DEF u
<1>5. /\ Full(t) \subseteq 0 .. n - 1
      /\ IsFiniteSet(Full(t)) /\ IsFiniteSet(Erased(t))
      /\ Cardinality(Full(t)) \in Nat /\ Cardinality(Erased(t)) \in Nat
  BY <1>0, TableFacts
<1>6. \A i \in Full(t) : i # s /\ u[i] = t[i] /\ i \in 0 .. n - 1
  BY <1>1, <1>4, <1>5
<1>7. Cardinality(Full(u)) = Cardinality(Full(t)) + 1
  BY <1>1, <1>4, <1>5, FS_AddElement
<1>8. s \in Erased(t) <=> t[s] = Skip
  BY <1>0, <1>1, TableFacts DEF Erased
<1>9. /\ t[s] = Skip => Cardinality(Erased(u)) = Cardinality(Erased(t)) - 1
      /\ t[s] # Skip => Cardinality(Erased(u)) = Cardinality(Erased(t))
  BY <1>4, <1>5, <1>8, FS_RemoveElement
<1>10. \E i \in 0 .. n - 1 : u[i] = Free
  <2>1. Cardinality(Full(u)) + Cardinality(Erased(u)) < n
    BY <1>5, <1>7, <1>9
  <2> QED
    BY <1>4, <2>1, Room
<1>11. ASSUME NEW i \in Full(u), NEW j \in Full(u), u[i].key = u[j].key
       PROVE  i = j
  <2>1. \A x, y \in Full(t) : t[x].key = t[y].key => x = y
    BY DEF Sound
  <2> QED
    BY <1>2, <1>3, <1>4, <1>6, <1>11, <2>1
<1>12. ASSUME NEW i \in Full(u)
       PROVE  \E d \in 0 .. n - 1 : Probe(u, u[i].key, d) = i /\ NoneFree(u, u[i].key, d)
  <2>1. \A j \in 0 .. n - 1 : u[j] = Free => t[j] = Free
    BY <1>3, <1>4, MarkerAssumption DEF Entries
  <2>2. PICK x \in Keys, d \in 0 .. n - 1 : x = u[i].key /\ Probe(t, x, d) = i /\ NoneFree(t, x, d)
    <3>1. CASE i = s
      BY <1>1, <1>3, <1>4, <3>1
    <3>2. CASE i \in Full(t)
      <4>1. u[i].key = t[i].key /\ t[i].key \in Keys
        BY <1>0, <1>6, <3>2, TableFacts
      <4>2. \E d \in 0 .. n - 1 : Probe(t, t[i].key, d) = i /\ NoneFree(t, t[i].key, d)
        BY <3>2 DEF Sound
      <4> QED
        BY <4>1, <4>2
    <3> QED
      BY <1>4, <3>1, <3>2
  <2>3. Probe(u, x, d) = Probe(t, x, d) /\ NoneFree(u, x, d)
    BY <1>0, <1>4, <2>1, <2>2, StillPassed
  <2> QED
    BY <2>2, <2>3
<1>13. Sound(u, n)
  BY <1>4, <1>10, <1>11, <1>12 DEF Sound
<1>14. Content(u) = Without(Content(t), k) \cup {e}
  <2>1. ASSUME NEW i \in Full(u) PROVE u[i] \in Without(Content(t), k) \cup {e}
    BY <1>2, <1>4, <1>6 DEF Content, Without
  <2>2. ASSUME NEW i \in Full(t) PROVE t[i] \in Content(u)
    BY <1>4, <1>6 DEF Content
  <2>3. e \in Content(u)
    BY <1>4 DEF Content
  <2> QED
    BY <2>1, <2>2, <2>3 DEF Content, Without
<1> QED
  BY <1>7, <1>9, <1>13, <1>14 DEF s, u, e

\* Another value for a key that is there.
LEMMA AssignSound ==
  ASSUME HashOK, NEW n \in Nat, n > 0, NEW t, Sound(t, n), NEW k \in Keys, NEW v \in Values,
         Found(t, k)
  PROVE  LET u == Put(t, SlotFor(t, k), Entry(k, v))
         IN  /\ Sound(u, n)
             /\ Content(u) = Without(Content(t), k) \cup {Entry(k, v)}
             /\ Full(u) = Full(t) /\ Erased(u) = Erased(t)
<1> DEFINE s == SlotFor(t, k)
           e == Entry(k, v)
           u == Put(t, s, e)
<1>0. t \in Tables(n)
  BY DEF Sound
<1>1. s \in 0 .. n - 1 /\ s \in Full(t) /\ t[s].key = k
  BY SlotForFacts, FoundFacts
<1>2. \A x, y \in Full(t) : t[x].key = t[y].key => x = y
  BY DEF Sound
<1>3. e \in Entries /\ e.key = k
  BY DEF Entry, Entries
<1> HIDE DEF s, e
<1>4. /\ u \in Tables(n) /\ u[s] = e
      /\ \A i \in 0 .. n - 1 : i # s => u[i] = t[i]
      /\ Full(u) = Full(t) \cup {s} /\ Erased(u) = Erased(t) \ {s}
  BY <1>0, <1>1, <1>3, PutEntry
<1> HIDE DEF u
<1>5. Full(t) \subseteq 0 .. n - 1 /\ s \notin Erased(t)
  BY <1>0, <1>1, TableFacts DEF Erased
<1>6. Full(u) = Full(t) /\ Erased(u) = Erased(t)
  BY <1>1, <1>4, <1>5
<1>7. \A i \in Full(t) : u[i].key = t[i].key /\ (i # s => u[i] = t[i] /\ t[i].key # k)
  BY <1>1, <1>2, <1>3, <1>4, <1>5
<1>8. \A i \in 0 .. n - 1 : (u[i] = Free) = (t[i] = Free)
  <2>1. e # Free /\ t[s] # Free
    BY <1>0, <1>1, <1>3, MarkerAssumption, TableFacts DEF Entries
  <2> QED
    BY <1>4, <2>1
<1>9. ASSUME NEW i \in Full(u)
      PROVE  \E d \in 0 .. n - 1 : Probe(u, u[i].key, d) = i /\ NoneFree(u, u[i].key, d)
  <2>1. PICK x \in Keys, d \in 0 .. n - 1 : x = u[i].key /\ Probe(t, x, d) = i /\ NoneFree(t, x, d)
    <3>1. u[i].key = t[i].key /\ t[i].key \in Keys
      BY <1>0, <1>6, <1>7, TableFacts
    <3>2. \E d \in 0 .. n - 1 : Probe(t, t[i].key, d) = i /\ NoneFree(t, t[i].key, d)
      BY <1>6 DEF Sound
    <3> QED
      BY <3>1, <3>2
  <2>2. Probe(u, x, d) = Probe(t, x, d) /\ NoneFree(u, x, d)
    BY <1>0, <1>4, <1>8, <2>1, StillPassed
  <2> QED
    BY <2>1, <2>2
<1>10. \A i, j \in Full(u) : u[i].key = u[j].key => i = j
  BY <1>2, <1>6, <1>7
<1>11. \E i \in 0 .. n - 1 : u[i] = Free
  BY <1>8 DEF Sound
<1>12. Sound(u, n)
  BY <1>4, <1>9, <1>10, <1>11 DEF Sound
<1>13. Content(u) = Without(Content(t), k) \cup {e}
  <2>1. ASSUME NEW i \in Full(u) PROVE u[i] \in Without(Content(t), k) \cup {e}
    BY <1>4, <1>6, <1>7 DEF Content, Without
  <2>2. ASSUME NEW i \in Full(t), t[i].key # k PROVE t[i] \in Content(u)
    BY <1>1, <1>6, <1>7, <2>2 DEF Content
  <2>3. e \in Content(u)
    BY <1>1, <1>4, <1>6 DEF Content
  <2> QED
    BY <2>1, <2>2, <2>3 DEF Content, Without
<1> QED
  BY <1>6, <1>12, <1>13 DEF s, u, e

\* A mark in the slot of a key that is there.
LEMMA EraseSound ==
  ASSUME HashOK, NEW n \in Nat, n > 0, NEW t, Sound(t, n), NEW k \in Keys, Found(t, k)
  PROVE  LET u == Put(t, Probe(t, k, Distance(t, k)), Skip)
         IN  /\ Sound(u, n)
             /\ Content(u) = Without(Content(t), k)
             /\ Cardinality(Full(u)) = Cardinality(Full(t)) - 1
             /\ Cardinality(Erased(u)) = Cardinality(Erased(t)) + 1
<1> DEFINE s == Probe(t, k, Distance(t, k))
           u == Put(t, s, Skip)
<1>0. t \in Tables(n)
  BY DEF Sound
<1>1. s \in 0 .. n - 1 /\ s \in Full(t) /\ t[s].key = k
  BY FoundFacts
<1>2. \A x, y \in Full(t) : t[x].key = t[y].key => x = y
  BY DEF Sound
<1> HIDE DEF s
<1>3. /\ u \in Tables(n) /\ u[s] = Skip
      /\ \A i \in 0 .. n - 1 : i # s => u[i] = t[i]
      /\ Full(u) = Full(t) \ {s} /\ Erased(u) = Erased(t) \cup {s}
  BY <1>0, <1>1, PutSkip
<1> HIDE DEF u
<1>4. /\ Full(t) \subseteq 0 .. n - 1
      /\ IsFiniteSet(Full(t)) /\ IsFiniteSet(Erased(t))
      /\ s \notin Erased(t) /\ t[s] # Free
  BY <1>0, <1>1, TableFacts DEF Erased
<1>5. Cardinality(Full(u)) = Cardinality(Full(t)) - 1
  BY <1>1, <1>3, <1>4, FS_RemoveElement
<1>6. Cardinality(Erased(u)) = Cardinality(Erased(t)) + 1
  BY <1>3, <1>4, FS_AddElement
<1>7. \A i \in Full(u) : i \in Full(t) /\ u[i] = t[i] /\ t[i].key # k
  BY <1>1, <1>2, <1>3, <1>4
<1>8. \A i \in 0 .. n - 1 : (u[i] = Free) = (t[i] = Free)
  BY <1>3, <1>4, MarkerAssumption
<1>9. ASSUME NEW i \in Full(u)
      PROVE  \E d \in 0 .. n - 1 : Probe(u, u[i].key, d) = i /\ NoneFree(u, u[i].key, d)
  <2>1. PICK x \in Keys, d \in 0 .. n - 1 : x = u[i].key /\ Probe(t, x, d) = i /\ NoneFree(t, x, d)
    <3>1. u[i].key = t[i].key /\ t[i].key \in Keys
      BY <1>0, <1>7, TableFacts
    <3>2. \E d \in 0 .. n - 1 : Probe(t, t[i].key, d) = i /\ NoneFree(t, t[i].key, d)
      BY <1>7 DEF Sound
    <3> QED
      BY <3>1, <3>2
  <2>2. Probe(u, x, d) = Probe(t, x, d) /\ NoneFree(u, x, d)
    BY <1>0, <1>3, <1>8, <2>1, StillPassed
  <2> QED
    BY <2>1, <2>2
<1>10. \A i, j \in Full(u) : u[i].key = u[j].key => i = j
  BY <1>2, <1>7
<1>11. \E i \in 0 .. n - 1 : u[i] = Free
  BY <1>8 DEF Sound
<1>12. Sound(u, n)
  BY <1>3, <1>9, <1>10, <1>11 DEF Sound
<1>13. Content(u) = Without(Content(t), k)
  <2>1. ASSUME NEW i \in Full(u) PROVE u[i] \in Without(Content(t), k)
    BY <1>7 DEF Content, Without
  <2>2. ASSUME NEW i \in Full(t), t[i].key # k PROVE t[i] \in Content(u)
    BY <1>1, <1>3, <1>7, <2>2 DEF Content
  <2> QED
    BY <2>1, <2>2 DEF Content, Without
<1> QED
  BY <1>5, <1>6, <1>12, <1>13 DEF s, u

LEMMA FreshSound ==
  ASSUME NEW n \in Nat, n > 0
  PROVE  /\ Sound(Fresh(n), n) /\ Full(Fresh(n)) = {} /\ Erased(Fresh(n)) = {}
         /\ Content(Fresh(n)) = {}
<1>1. Fresh(n) \in Tables(n) /\ \A i \in 0 .. n - 1 : Fresh(n)[i] = Free
  BY DEF Fresh, Tables
<1>2. Full(Fresh(n)) = {} /\ Erased(Fresh(n)) = {}
  <2>1. Slots(Fresh(n)) = 0 .. n - 1
    BY <1>1, TableFacts
  <2> QED
    BY <1>1, <2>1, MarkerAssumption DEF Full, Erased, IsFull
<1>3. 0 \in 0 .. n - 1
  OBVIOUS
<1> QED
  BY <1>1, <1>2, <1>3 DEF Sound, Content

-----------------------------------------------------------------------------
(* inc_used: a table twice as big *)

\* The table after the first i slots of t, from the table f[i - 1] before the last of them.
Moved(f, t, n, i) ==
  IF i = 0 THEN Fresh(n)
  ELSE IF ~IsFull(t[i - 1]) THEN f[i - 1]
  ELSE [f[i - 1] EXCEPT ![SlotFor(f[i - 1], t[i - 1].key)] = t[i - 1]]

\* f gives these tables up to the first m slots.
MovesTo(f, t, n, m) == f = [i \in 0 .. m |-> Moved(f, t, n, i)]

LEMMA MovesExist ==
  ASSUME NEW t, NEW n, NEW m \in Nat
  PROVE  \E f : MovesTo(f, t, n, m)
<1> DEFINE T == {l \in Nat : \E f : MovesTo(f, t, n, l)}
<1>1. 0 \in T
  <2> DEFINE f == [i \in 0 .. 0 |-> Fresh(n)]
  <2>1. MovesTo(f, t, n, 0)
    BY DEF MovesTo, Moved
  <2> QED
    BY <2>1
<1>2. ASSUME NEW l \in Nat, l \in T PROVE l + 1 \in T
  <2>1. PICK f : MovesTo(f, t, n, l)
    BY <1>2
  <2> DEFINE g == [i \in 0 .. l + 1 |-> Moved(f, t, n, i)]
  <2>2. ASSUME NEW i \in 0 .. l PROVE g[i] = f[i]
    <3>1. i \in 0 .. l + 1
      OBVIOUS
    <3>2. g[i] = Moved(f, t, n, i)
      BY <3>1
    <3>3. f[i] = Moved(f, t, n, i)
      BY <2>1 DEF MovesTo
    <3> QED
      BY <3>2, <3>3
  <2>3. ASSUME NEW i \in 0 .. l + 1 PROVE g[i] = Moved(g, t, n, i)
    <3>1. g[i] = Moved(f, t, n, i)
      OBVIOUS
    <3>2. Moved(f, t, n, i) = Moved(g, t, n, i)
      <4>1. CASE i = 0
        BY <4>1 DEF Moved
      <4>2. CASE i # 0
        <5>1. i - 1 \in 0 .. l
          BY <4>2
        <5>2. g[i - 1] = f[i - 1]
          BY <2>2, <5>1
        <5> HIDE DEF g
        <5> QED
          BY <5>2 DEF Moved
      <4> QED
        BY <4>1, <4>2
    <3> QED
      BY <3>1, <3>2
  <2>4. g = [i \in 0 .. l + 1 |-> Moved(g, t, n, i)]
    BY <2>3
  <2>5. MovesTo(g, t, n, l + 1)
    BY <2>4 DEF MovesTo
  <2> QED
    BY <2>5
<1> HIDE DEF T
<1>3. m \in T
  BY <1>1, <1>2, CountUp
<1> QED
  BY <1>3 DEF T

LEMMA RehashedIs ==
  ASSUME NEW t, NEW n, Cardinality(Slots(t)) \in Nat
  PROVE  \E f : /\ MovesTo(f, t, n, Cardinality(Slots(t)))
                /\ Rehashed(t, n) = f[Cardinality(Slots(t))]
<1> DEFINE f == CHOOSE f : MovesTo(f, t, n, Cardinality(Slots(t)))
<1>1. MovesTo(f, t, n, Cardinality(Slots(t)))
  BY MovesExist
<1>2. Rehashed(t, n) = f[Cardinality(Slots(t))]
  BY DEF Rehashed, MovesTo, Moved
<1> QED
  BY <1>1, <1>2

\* The entries of the first i slots.
Before(t, i) == {j \in Full(t) : j < i}

\* What the bigger table is after the first i slots.
MovedWell(u, t, n, i) ==
  /\ Sound(u, n) /\ Erased(u) = {}
  /\ Content(u) = {t[j] : j \in Before(t, i)}
  /\ Cardinality(Full(u)) = Cardinality(Before(t, i))

LEMMA OneMoreMoved ==
  ASSUME HashOK, NEW n \in Nat, n > 0, NEW t \in Tables(n),
         \A i, j \in Full(t) : t[i].key = t[j].key => i = j,
         NEW N \in Nat, N > n, NEW f, MovesTo(f, t, N, n),
         NEW i \in 0 .. n - 1, MovedWell(f[i], t, N, i)
  PROVE  MovedWell(f[i + 1], t, N, i + 1)
<1>1. i + 1 \in 0 .. n /\ i + 1 # 0 /\ (i + 1) - 1 = i
  OBVIOUS
<1>2. f[i + 1] = Moved(f, t, N, i + 1)
  <2>1. f = [j \in 0 .. n |-> Moved(f, t, N, j)]
    BY DEF MovesTo
  <2> QED
    BY <1>1, <2>1
<1>3. CASE ~IsFull(t[i])
  <2>1. f[i + 1] = f[i]
    BY <1>1, <1>2, <1>3 DEF Moved
  <2>2. Before(t, i + 1) = Before(t, i)
    <3>1. i \notin Full(t) /\ Full(t) \subseteq 0 .. n - 1
      BY <1>3, TableFacts DEF Full
    <3> QED
      BY <3>1 DEF Before
  <2> QED
    BY <2>1, <2>2 DEF MovedWell
<1>4. CASE IsFull(t[i])
  <2> DEFINE u == f[i]
             k == t[i].key
             v == t[i].value
  <2>1. i \in Full(t) /\ Full(t) \subseteq 0 .. n - 1 /\ IsFiniteSet(Full(t))
    BY <1>4, TableFacts DEF Full
  <2>2. k \in Keys /\ v \in Values /\ t[i] = Entry(k, v)
    <3>1. t[i] \in Entries
      BY <2>1, TableFacts
    <3> QED
      BY <3>1 DEF Entries, Entry
  <2>3. f[i + 1] = Put(u, SlotFor(u, k), Entry(k, v))
    BY <1>1, <1>2, <1>4, <2>2 DEF Moved, Put
  <2>4. /\ Sound(u, N) /\ Erased(u) = {}
        /\ Content(u) = {t[j] : j \in Before(t, i)}
        /\ Cardinality(Full(u)) = Cardinality(Before(t, i))
    BY DEF MovedWell
  <2> HIDE DEF u, v
  <2>5. \A e \in Content(u) : e.key # k
    BY <2>1, <2>4 DEF Before
  <2>6. ~Found(u, k)
    BY <2>2, <2>4, <2>5, FoundFacts DEF Content
  <2>7. /\ IsFiniteSet(Before(t, i)) /\ Cardinality(Before(t, i)) \in Nat
        /\ Cardinality(Before(t, i)) + 1 < N
    <3>1. Before(t, i) \subseteq 0 .. i - 1
      BY <2>1 DEF Before
    <3>2. IsFiniteSet(0 .. i - 1) /\ Cardinality(0 .. i - 1) = i
      <4>1. 0 \in Int /\ i - 1 \in Int /\ (IF 0 > i - 1 THEN 0 ELSE (i - 1) - 0 + 1) = i
        OBVIOUS
      <4> QED
        BY <4>1, FS_Interval
    <3>3. IsFiniteSet(Before(t, i)) /\ Cardinality(Before(t, i)) <= i
      BY <3>1, <3>2, FS_Subset
    <3>4. Cardinality(Before(t, i)) \in Nat
      BY <3>3, FS_CardinalityType
    <3> QED
      BY <3>3, <3>4
  <2>8. Cardinality(Erased(u)) = 0
    BY <2>4, FS_EmptySet
  <2> DEFINE w == Put(u, SlotFor(u, k), Entry(k, v))
             s == SlotFor(u, k)
  <2>9. /\ Sound(w, N) /\ Content(w) = Without(Content(u), k) \cup {Entry(k, v)}
        /\ Cardinality(Full(w)) = Cardinality(Full(u)) + 1
    <3>1. N \in Nat /\ N > 0 /\ Cardinality(Full(u)) + Cardinality(Erased(u)) + 1 < N
      BY <2>4, <2>7, <2>8
    <3>2. k \in Keys /\ v \in Values /\ Sound(u, N)
      BY <2>2, <2>4
    <3> HIDE DEF k
    <3> QED
      BY <2>6, <3>1, <3>2, PutSound
  <2>10. Erased(w) = {}
    <3>1. s \in 0 .. N - 1 /\ u \in Tables(N) /\ Entry(k, v) \in Entries
      BY <2>2, <2>4, <2>6, SlotForFacts DEF Sound, Entry, Entries
    <3>2. Erased(w) = Erased(u) \ {s}
      BY <3>1, PutEntry
    <3> QED
      BY <2>4, <3>2
  <2>11. Before(t, i + 1) = Before(t, i) \cup {i} /\ i \notin Before(t, i)
    BY <2>1 DEF Before
  <2>12. Cardinality(Before(t, i + 1)) = Cardinality(Before(t, i)) + 1
    BY <2>7, <2>11, FS_AddElement
  <2>13. Without(Content(u), k) = Content(u)
    BY <2>5 DEF Without
  <2>14. Content(w) = {t[j] : j \in Before(t, i + 1)}
    BY <2>2, <2>4, <2>9, <2>11, <2>13
  <2> HIDE DEF w
  <2>15. f[i + 1] = w
    BY <2>3 DEF w
  <2> QED
    BY <2>4, <2>9, <2>10, <2>12, <2>14, <2>15 DEF MovedWell
<1> QED
  BY <1>3, <1>4

\* All entries come to the bigger table, and nothing else.
LEMMA RehashSound ==
  ASSUME HashOK, NEW n \in Nat, n > 0, NEW t \in Tables(n),
         \A i, j \in Full(t) : t[i].key = t[j].key => i = j,
         NEW N \in Nat, N > n
  PROVE  /\ Sound(Rehashed(t, N), N) /\ Erased(Rehashed(t, N)) = {}
         /\ Content(Rehashed(t, N)) = Content(t)
         /\ Cardinality(Full(Rehashed(t, N))) = Cardinality(Full(t))
<1>1. Cardinality(Slots(t)) = n
  BY TableFacts
<1>2. PICK f : MovesTo(f, t, N, n) /\ Rehashed(t, N) = f[n]
  BY <1>1, RehashedIs
<1> DEFINE T == {i \in Nat : i <= n => MovedWell(f[i], t, N, i)}
<1>3. Full(t) \subseteq 0 .. n - 1
  BY TableFacts
<1>4. 0 \in T
  <2>1. f[0] = Fresh(N)
    BY <1>2 DEF MovesTo, Moved
  <2>2. Before(t, 0) = {}
    BY <1>3 DEF Before
  <2>3. MovedWell(Fresh(N), t, N, 0)
    BY <2>2, FreshSound DEF MovedWell
  <2> QED
    BY <2>1, <2>3
<1>5. ASSUME NEW i \in Nat, i \in T PROVE i + 1 \in T
  <2>1. CASE i + 1 <= n
    <3>1. i \in 0 .. n - 1 /\ MovedWell(f[i], t, N, i)
      BY <1>5, <2>1
    <3>2. MovedWell(f[i + 1], t, N, i + 1)
      BY <1>2, <3>1, OneMoreMoved
    <3> QED
      BY <3>2
  <2>2. CASE ~(i + 1 <= n)
    BY <2>2
  <2> QED
    BY <2>1, <2>2
<1> HIDE DEF T
<1>6. n \in T
  BY <1>4, <1>5, CountUp
<1>7. MovedWell(f[n], t, N, n)
  BY <1>6 DEF T
<1>8. Before(t, n) = Full(t)
  BY <1>3 DEF Before
<1> QED
  BY <1>2, <1>7, <1>8 DEF MovedWell, Content

-----------------------------------------------------------------------------
(* The invariant *)

\* A table t of n slots with u entries and w erased slots, a quarter of it used at most.
Well(t, n, u, w) ==
  /\ n \in Nat /\ n >= 4
  /\ Sound(t, n)
  /\ u = Cardinality(Full(t)) /\ w = Cardinality(Erased(t))
  /\ (u + w) * 4 <= n

TableInv == HashOK /\ Well(data, HASH_SIZE, used, wasted)

LEMMA WellFacts ==
  ASSUME NEW n, NEW t, NEW u, NEW w, Well(t, n, u, w)
  PROVE  /\ n \in Nat /\ n > 0 /\ n >= 4 /\ t \in Tables(n) /\ Sound(t, n)
         /\ u \in Nat /\ w \in Nat /\ (u + w) * 4 <= n
         /\ u = Cardinality(Full(t)) /\ w = Cardinality(Erased(t))
<1>1. n \in Nat /\ n > 0 /\ n >= 4 /\ t \in Tables(n) /\ Sound(t, n)
  BY DEF Well, Sound
<1>2. Cardinality(Full(t)) \in Nat /\ Cardinality(Erased(t)) \in Nat
  BY <1>1, TableFacts
<1> QED
  BY <1>1, <1>2 DEF Well

\* What the step makes of the table, and of the entries in it.
StepsTo(C) == Well(data', HASH_SIZE', used', wasted') /\ Content(data') = C

\* An insertion, with or without a bigger table.
LEMMA PutNewStep ==
  ASSUME TableInv, NEW k \in Keys, NEW v \in Values, PutNew(k, v)
  PROVE  StepsTo(Without(Content(data), k) \cup {Entry(k, v)})
<1> DEFINE s == SlotFor(data, k)
           t == Put(data, s, Entry(k, v))
           w == IF data[s] = Skip THEN wasted - 1 ELSE wasted
           n == HASH_SIZE
<1>1. HashOK /\ Well(data, n, used, wasted) /\ ~Found(data, k)
  BY DEF TableInv, PutNew
<1>2. /\ n \in Nat /\ n > 0 /\ n >= 4 /\ data \in Tables(n) /\ Sound(data, n)
      /\ used \in Nat /\ wasted \in Nat /\ (used + wasted) * 4 <= n
      /\ used = Cardinality(Full(data)) /\ wasted = Cardinality(Erased(data))
  BY <1>1, WellFacts
<1>3. IncUsed(t, w)
  BY DEF PutNew, Put
<1> HIDE DEF n, s, t
<1>4. Cardinality(Full(data)) + Cardinality(Erased(data)) + 1 < n
  BY <1>2
<1>5. /\ Sound(t, n) /\ Content(t) = Without(Content(data), k) \cup {Entry(k, v)}
      /\ Cardinality(Full(t)) = used + 1
      /\ Cardinality(Erased(t)) = w
  BY <1>1, <1>2, <1>4, PutSound DEF s, t
<1>6. t \in Tables(n) /\ \A i, j \in Full(t) : t[i].key = t[j].key => i = j
  BY <1>5 DEF Sound
<1>7. w \in Nat /\ (used + 1 + w) * 4 <= n + 4
  <2>1. w \in Nat
    BY <1>2, <1>5, <1>6, TableFacts
  <2> QED
    BY <1>2, <2>1
<1> HIDE DEF w
<1>8. CASE Crowded(used + 1, w, n)
  <2>1. /\ HASH_SIZE' = 2 * n /\ data' = Rehashed(t, 2 * n)
        /\ used' = Cardinality({i \in Slots(t) : IsFull(t[i])})
        /\ wasted' = 0
    BY <1>3, <1>8 DEF IncUsed, n
  <2>2. 2 * n \in Nat /\ 2 * n > n /\ 2 * n >= 4
    BY <1>2
  <2> DEFINE m == 2 * n
  <2> HIDE DEF m
  <2>3. m \in Nat /\ m > n
    BY <2>2 DEF m
  <2>4. /\ Sound(Rehashed(t, m), m) /\ Erased(Rehashed(t, m)) = {}
        /\ Content(Rehashed(t, m)) = Content(t)
        /\ Cardinality(Full(Rehashed(t, m))) = Cardinality(Full(t))
    BY <1>1, <1>2, <1>6, <2>3, RehashSound
  <2>5. used' = Cardinality(Full(t)) /\ data' = Rehashed(t, m)
    BY <2>1 DEF Full, m
  <2>6. /\ Sound(data', m) /\ Content(data') = Content(t)
        /\ Cardinality(Full(data')) = used' /\ Cardinality(Erased(data')) = 0
    BY <2>4, <2>5, FS_EmptySet
  <2>7. used' = used + 1 /\ (used' + wasted') * 4 <= m
    <3>1. used' = used + 1
      BY <1>5, <2>5
    <3>2. (used + 1) * 4 <= 2 * n
      BY <1>2
    <3> QED
      BY <1>2, <2>1, <3>1, <3>2 DEF m
  <2>8. HASH_SIZE' = m /\ m \in Nat /\ m >= 4
    BY <2>1, <2>2 DEF m
  <2>9. Well(data', HASH_SIZE', used', wasted')
    BY <2>1, <2>6, <2>7, <2>8 DEF Well
  <2> QED
    BY <1>5, <2>6, <2>9 DEF StepsTo
<1>9. CASE ~Crowded(used + 1, w, n)
  <2>1. HASH_SIZE' = n /\ data' = t /\ used' = used + 1 /\ wasted' = w
    BY <1>3, <1>9 DEF IncUsed, n
  <2>2. (used + 1 + w) * 4 <= n
    BY <1>2, <1>7, <1>9 DEF Crowded
  <2>3. Well(data', HASH_SIZE', used', wasted')
    BY <1>2, <1>5, <2>1, <2>2 DEF Well
  <2> QED
    BY <1>5, <2>1, <2>3 DEF StepsTo
<1> QED
  BY <1>8, <1>9

LEMMA AssignStep ==
  ASSUME TableInv, NEW k \in Keys, NEW v \in Values, Found(data, k),
         data' = [data EXCEPT ![SlotFor(data, k)] = Entry(k, v)],
         UNCHANGED <<HASH_SIZE, used, wasted>>
  PROVE  StepsTo(Without(Content(data), k) \cup {Entry(k, v)})
<1>1. HashOK /\ Well(data, HASH_SIZE, used, wasted)
  BY DEF TableInv
<1>2. HASH_SIZE \in Nat /\ HASH_SIZE > 0 /\ Sound(data, HASH_SIZE)
  BY <1>1, WellFacts
<1>3. data' = Put(data, SlotFor(data, k), Entry(k, v))
  BY DEF Put
<1>4. /\ Sound(data', HASH_SIZE)
      /\ Content(data') = Without(Content(data), k) \cup {Entry(k, v)}
      /\ Full(data') = Full(data) /\ Erased(data') = Erased(data)
  <2> DEFINE t == data
             u == Put(t, SlotFor(t, k), Entry(k, v))
  <2>1. Found(t, k) /\ Sound(t, HASH_SIZE)
    BY <1>2
  <2> HIDE DEF t
  <2>2. /\ Sound(u, HASH_SIZE)
        /\ Content(u) = Without(Content(t), k) \cup {Entry(k, v)}
        /\ Full(u) = Full(t) /\ Erased(u) = Erased(t)
    BY <1>1, <1>2, <2>1, AssignSound
  <2> HIDE DEF u
  <2>3. data' = u
    BY <1>3 DEF t, u
  <2> QED
    BY <2>2, <2>3 DEF t
<1> QED
  BY <1>1, <1>4 DEF StepsTo, Well

LEMMA EraseStep ==
  ASSUME TableInv, NEW k \in Keys, Erase(k)
  PROVE  StepsTo(Without(Content(data), k))
<1>1. HashOK /\ Well(data, HASH_SIZE, used, wasted) /\ Found(data, k)
  BY DEF TableInv, Erase
<1>2. /\ HASH_SIZE \in Nat /\ HASH_SIZE > 0 /\ HASH_SIZE >= 4 /\ Sound(data, HASH_SIZE)
      /\ used \in Nat /\ wasted \in Nat /\ (used + wasted) * 4 <= HASH_SIZE
      /\ used = Cardinality(Full(data)) /\ wasted = Cardinality(Erased(data))
  BY <1>1, WellFacts
<1>3. data' = Put(data, Probe(data, k, Distance(data, k)), Skip)
      /\ used' = used - 1 /\ wasted' = wasted + 1 /\ HASH_SIZE' = HASH_SIZE
  BY DEF Put, Erase
<1>4. /\ Sound(data', HASH_SIZE) /\ Content(data') = Without(Content(data), k)
      /\ Cardinality(Full(data')) = used - 1 /\ Cardinality(Erased(data')) = wasted + 1
  BY <1>1, <1>2, <1>3, EraseSound
<1>5. (used' + wasted') * 4 <= HASH_SIZE
  BY <1>2, <1>3
<1>6. Well(data', HASH_SIZE', used', wasted')
  BY <1>2, <1>3, <1>4, <1>5 DEF Well
<1> QED
  BY <1>4, <1>6 DEF StepsTo

LEMMA FreshWell ==
  ASSUME NEW n \in Nat, n >= 4
  PROVE  Well(Fresh(n), n, 0, 0) /\ Content(Fresh(n)) = {}
BY FreshSound, FS_EmptySet DEF Well

LEMMA ClearStep ==
  ASSUME TableInv, Clear
  PROVE  StepsTo({})
<1>1. HASH_SIZE \in Nat /\ HASH_SIZE >= 4
  BY WellFacts DEF TableInv
<1>2. data' = Fresh(HASH_SIZE) /\ used' = 0 /\ wasted' = 0 /\ HASH_SIZE' = HASH_SIZE
  BY DEF Clear
<1> QED
  BY <1>1, <1>2, FreshWell DEF StepsTo

\* The hash function stays, so a sound table is one after the step.
LEMMA HashStays ==
  ASSUME TableInv, hash' = hash, NEW C, StepsTo(C)
  PROVE  TableInv'
<1>1. HashOK'
  BY DEF TableInv, HashOK
<1>2. Well(data, HASH_SIZE, used, wasted)'
  BY DEF StepsTo, Well, Sound, NoneFree, Probe, Tables, Full, Erased, Slots, IsFull
<1> QED
  BY <1>1, <1>2 DEF TableInv

-----------------------------------------------------------------------------
(* What a look-up gives *)

AtIs ==
  \A k \in Keys : /\ \A e \in Content(data) : e.key = k => At(k) = e.value
                  /\ (\A e \in Content(data) : e.key # k) => At(k) = Absent

LEMMA AtFacts == TableInv => AtIs
<1> SUFFICES ASSUME TableInv, NEW k \in Keys
             PROVE  /\ \A e \in Content(data) : e.key = k => At(k) = e.value
                    /\ (\A e \in Content(data) : e.key # k) => At(k) = Absent
  BY DEF AtIs
<1> DEFINE n == HASH_SIZE
           s == Probe(data, k, Distance(data, k))
<1>1. HashOK /\ n \in Nat /\ n > 0 /\ data \in Tables(n) /\ Sound(data, n)
  BY WellFacts DEF TableInv
<1>2. At(k) = IF Found(data, k) THEN data[s].value ELSE Absent
  BY DEF At
<1>3. /\ Found(data, k) <=> s \in Full(data)
      /\ Found(data, k) <=> \E i \in Full(data) : data[i].key = k
      /\ Found(data, k) => data[s].key = k
  BY <1>1, FoundFacts
<1>4. \A i, j \in Full(data) : data[i].key = data[j].key => i = j
  BY <1>1 DEF Sound
<1> HIDE DEF n, s
<1>5. ASSUME NEW i \in Full(data), data[i].key = k PROVE At(k) = data[i].value
  <2>1. i = s
    BY <1>3, <1>4, <1>5
  <2> QED
    BY <1>2, <1>3, <1>5, <2>1
<1>6. ASSUME \A e \in Content(data) : e.key # k PROVE At(k) = Absent
  BY <1>2, <1>3, <1>6 DEF Content
<1> QED
  BY <1>5, <1>6 DEF Content

LEMMA AtFactsNext == TableInv' => AtIs'
BY AtFacts, PTL

\* The entries of other keys stay and k has v: so it is in the dictionary.
LEMMA OneKeyChanges ==
  ASSUME TableInv, TableInv', NEW k \in Keys, NEW v \in Values,
         Content(data') = Without(Content(data), k) \cup {Entry(k, v)}
  PROVE  [x \in Keys |-> At(x)'] = [[x \in Keys |-> At(x)] EXCEPT ![k] = v]
<1>1. \A x \in Keys : /\ \A e \in Content(data) : e.key = x => At(x) = e.value
                      /\ (\A e \in Content(data) : e.key # x) => At(x) = Absent
  BY AtFacts DEF AtIs
<1>2. \A x \in Keys : /\ \A e \in Content(data') : e.key = x => At(x)' = e.value
                      /\ (\A e \in Content(data') : e.key # x) => At(x)' = Absent
  BY AtFactsNext DEF AtIs, Content, Full, Slots, IsFull
<1>3. Entry(k, v).key = k /\ Entry(k, v).value = v /\ Entry(k, v) \in Content(data')
  BY DEF Entry
<1>4. At(k)' = v
  BY <1>2, <1>3
<1>5. ASSUME NEW x \in Keys, x # k PROVE At(x)' = At(x)
  <2>1. \A e : e.key = x => (e \in Content(data') <=> e \in Content(data))
    BY <1>3, <1>5 DEF Without
  <2>2. CASE \E e \in Content(data) : e.key = x
    BY <1>1, <1>2, <2>1, <2>2
  <2>3. CASE ~ \E e \in Content(data) : e.key = x
    BY <1>1, <1>2, <2>1, <2>3
  <2> QED
    BY <2>2, <2>3
<1> QED
  BY <1>4, <1>5

LEMMA OneKeyGoes ==
  ASSUME TableInv, TableInv', NEW k \in Keys, Content(data') = Without(Content(data), k)
  PROVE  [x \in Keys |-> At(x)'] = [[x \in Keys |-> At(x)] EXCEPT ![k] = Absent]
<1>1. \A x \in Keys : /\ \A e \in Content(data) : e.key = x => At(x) = e.value
                      /\ (\A e \in Content(data) : e.key # x) => At(x) = Absent
  BY AtFacts DEF AtIs
<1>2. \A x \in Keys : /\ \A e \in Content(data') : e.key = x => At(x)' = e.value
                      /\ (\A e \in Content(data') : e.key # x) => At(x)' = Absent
  BY AtFactsNext DEF AtIs, Content, Full, Slots, IsFull
<1>3. At(k)' = Absent
  BY <1>2 DEF Without
<1>4. ASSUME NEW x \in Keys, x # k PROVE At(x)' = At(x)
  <2>1. \A e : e.key = x => (e \in Content(data') <=> e \in Content(data))
    BY <1>4 DEF Without
  <2>2. CASE \E e \in Content(data) : e.key = x
    BY <1>1, <1>2, <2>1, <2>2
  <2>3. CASE ~ \E e \in Content(data) : e.key = x
    BY <1>1, <1>2, <2>1, <2>3
  <2> QED
    BY <2>2, <2>3
<1> QED
  BY <1>3, <1>4

LEMMA AllKeysGo ==
  ASSUME TableInv', Content(data') = {}
  PROVE  [x \in Keys |-> At(x)'] = [x \in Keys |-> Absent]
<1>1. \A x \in Keys : (\A e \in Content(data') : e.key # x) => At(x)' = Absent
  BY AtFactsNext DEF AtIs, Content, Full, Slots, IsFull
<1> QED
  BY <1>1

-----------------------------------------------------------------------------
(* The theorems *)

LEMMA TableInit == ASSUME Init PROVE TableInv
<1>1. HashOK /\ HASH_SIZE \in Nat /\ HASH_SIZE >= 4
  BY SizeAssumption DEF Init, HashOK
<1>2. data = Fresh(HASH_SIZE) /\ used = 0 /\ wasted = 0
  BY DEF Init
<1> QED
  BY <1>1, <1>2, FreshWell DEF TableInv

LEMMA TableStep == ASSUME TableInv, Next PROVE TableInv'
<1>1. CASE \E k \in Keys, v \in Values : Insert(k, v)
  <2>1. PICK k \in Keys, v \in Values : PutNew(k, v) /\ hash' = hash
    BY <1>1 DEF Insert
  <2> QED
    BY <2>1, PutNewStep, HashStays
<1>2. CASE \E k \in Keys, v \in Values : InsertOrAssign(k, v)
  <2>1. PICK k \in Keys, v \in Values : InsertOrAssign(k, v)
    BY <1>2
  <2>2. hash' = hash
    BY <2>1 DEF InsertOrAssign
  <2>3. CASE PutNew(k, v)
    BY <2>2, <2>3, PutNewStep, HashStays
  <2>4. CASE /\ Found(data, k)
             /\ data' = [data EXCEPT ![SlotFor(data, k)] = Entry(k, v)]
             /\ UNCHANGED <<HASH_SIZE, used, wasted>>
    BY <2>2, <2>4, AssignStep, HashStays
  <2> QED
    BY <2>1, <2>3, <2>4 DEF InsertOrAssign
<1>3. CASE \E k \in Keys : Erase(k)
  <2>1. PICK k \in Keys : Erase(k)
    BY <1>3
  <2>2. hash' = hash
    BY <2>1 DEF Erase
  <2> QED
    BY <2>1, <2>2, EraseStep, HashStays
<1>4. CASE Clear
  <2>1. hash' = hash
    BY <1>4 DEF Clear
  <2> QED
    BY <1>4, <2>1, ClearStep, HashStays
<1> QED
  BY <1>1, <1>2, <1>3, <1>4 DEF Next

LEMMA TableStutter == ASSUME TableInv, UNCHANGED vars PROVE TableInv'
BY DEF TableInv, HashOK, Well, Sound, NoneFree, Probe, Tables, Full, Erased, Slots, IsFull, vars

LEMMA TableCorrect == Spec => []TableInv
<1>1. Init => TableInv
  BY TableInit
<1>2. TableInv /\ [Next]_vars => TableInv'
  BY TableStep, TableStutter
<1> QED
  BY <1>1, <1>2, PTL DEF Spec

\* There are as many keys with a value as slots with an entry.
LEMMA KeysAreCounted ==
  ASSUME TableInv
  PROVE  Cardinality({k \in Keys : At(k) # Absent}) = Cardinality(Full(data))
<1> DEFINE T == {k \in Keys : At(k) # Absent}
           f == [i \in Full(data) |-> data[i].key]
<1>1. HashOK /\ HASH_SIZE \in Nat /\ HASH_SIZE > 0 /\ data \in Tables(HASH_SIZE) /\ Sound(data, HASH_SIZE)
  BY WellFacts DEF TableInv
<1>2. /\ IsFiniteSet(Full(data))
      /\ \A i \in Full(data) : data[i].key \in Keys /\ data[i].value \in Values
  BY <1>1, TableFacts
<1>3. \A x \in Keys : /\ \A e \in Content(data) : e.key = x => At(x) = e.value
                      /\ (\A e \in Content(data) : e.key # x) => At(x) = Absent
  BY AtFacts DEF AtIs
<1>4. ASSUME NEW i \in Full(data) PROVE data[i].key \in T
  <2>1. At(data[i].key) = data[i].value
    BY <1>2, <1>3 DEF Content
  <2> QED
    BY <1>2, <2>1, AbsentAssumption
<1>5. ASSUME NEW k \in T PROVE \E i \in Full(data) : f[i] = k
  <2>1. PICK e \in Content(data) : e.key = k
    BY <1>3
  <2> QED
    BY <2>1 DEF Content
<1>6. \A i, j \in Full(data) : data[i].key = data[j].key => i = j
  BY <1>1 DEF Sound
<1> HIDE DEF T
<1>7. f \in Surjection(Full(data), T)
  BY <1>4, <1>5 DEF Surjection
<1>8. f \in Injection(Full(data), T)
  BY <1>4, <1>6 DEF Injection, IsInjective
<1> HIDE DEF f
<1> QED
  BY <1>2, <1>7, <1>8, FS_Surjection DEF T

\* The table is well formed and its two counters, by which inc_used decides when to grow, are
\* exact after every insertion, assignment, erasure and growth (CollectableHash.h 480-497).
THEOREM CountsAreExact == Spec => []CountsExact
<1>1. TableInv => CountsExact
  <2> SUFFICES ASSUME TableInv PROVE CountsExact
    OBVIOUS
  <2>1. /\ HashOK /\ HASH_SIZE \in Nat /\ data \in Tables(HASH_SIZE)
        /\ used \in Nat /\ wasted \in Nat
        /\ used = Cardinality(Full(data)) /\ wasted = Cardinality(Erased(data))
    BY WellFacts DEF TableInv
  <2>2. HtTypeOK
    BY <2>1 DEF HtTypeOK, HashOK, Tables
  <2>3. used = Cardinality({k \in Keys : At(k) # Absent})
    BY <2>1, KeysAreCounted
  <2> QED
    BY <2>1, <2>2, <2>3 DEF CountsExact, Full, Erased
<1> QED
  BY <1>1, TableCorrect, PTL

\* A quarter of the table at most has been used, so the loop of findu ends at the key or at a
\* free slot whatever the hash function is (CollectableHash.h 498-531, the assert of 529).
THEOREM EveryProbeEnds == Spec => []ProbesEnd
<1>1. TableInv => ProbesEnd
  <2> SUFFICES ASSUME TableInv PROVE ProbesEnd
    OBVIOUS
  <2>1. /\ HashOK /\ HASH_SIZE \in Nat /\ HASH_SIZE > 0 /\ data \in Tables(HASH_SIZE)
        /\ Sound(data, HASH_SIZE) /\ (used + wasted) * 4 <= HASH_SIZE
    BY WellFacts DEF TableInv
  <2>2. Slots(data) = 0 .. HASH_SIZE - 1
    BY <2>1, TableFacts
  <2>3. ASSUME NEW k \in Keys PROVE \E d \in Slots(data) : Stops(data, k, d)
    <3>1. Distance(data, k) \in 0 .. HASH_SIZE - 1 /\ Stops(data, k, Distance(data, k))
      BY <2>1, DistanceFacts
    <3> QED
      BY <2>2, <3>1
  <2> QED
    BY <2>1, <2>3 DEF ProbesEnd
<1> QED
  BY <1>1, TableCorrect, PTL

\* Whatever collides, is erased, put again and makes the table grow, insert, insert_or_assign,
\* erase, clear and operator[] are those of a dictionary (CollectableHash.h 537-602).
THEOREM TableIsDictionary == Spec => ImplementsDictionary
<1> DEFINE dict == [k \in Keys |-> At(k)]
<1>1. Init => D!DcInit
  <2> SUFFICES ASSUME Init PROVE dict = [k \in Keys |-> Absent]
    BY DEF D!DcInit
  <2>1. TableInv
    BY TableInit
  <2>2. Content(data) = {}
    BY FreshWell, SizeAssumption DEF Init
  <2> QED
    BY <2>1, <2>2, AtFacts DEF AtIs
<1>2. TableInv /\ TableInv' /\ [Next]_vars => [D!DcNext]_dict
  <2> SUFFICES ASSUME TableInv, TableInv', [Next]_vars PROVE [D!DcNext]_dict
    OBVIOUS
  <2>1. ASSUME NEW k \in Keys, NEW v \in Values, PutNew(k, v)
        PROVE  D!DcInsert(k, v) /\ D!DcAssign(k, v)
    <3>1. Content(data') = Without(Content(data), k) \cup {Entry(k, v)}
      BY <2>1, PutNewStep DEF StepsTo
    <3>2. [x \in Keys |-> At(x)'] = [dict EXCEPT ![k] = v]
      BY <3>1, OneKeyChanges
    <3>3. At(k) = Absent
      BY <2>1 DEF PutNew, At
    <3> QED
      BY <3>2, <3>3 DEF D!DcInsert, D!DcAssign
  <2>2. CASE \E k \in Keys, v \in Values : Insert(k, v)
    BY <2>1, <2>2 DEF Insert, D!DcNext
  <2>3. CASE \E k \in Keys, v \in Values : InsertOrAssign(k, v)
    <3>1. PICK k \in Keys, v \in Values : InsertOrAssign(k, v)
      BY <2>3
    <3>2. CASE PutNew(k, v)
      BY <2>1, <3>2 DEF D!DcNext
    <3>3. CASE /\ Found(data, k)
               /\ data' = [data EXCEPT ![SlotFor(data, k)] = Entry(k, v)]
               /\ UNCHANGED <<HASH_SIZE, used, wasted>>
      <4>1. Content(data') = Without(Content(data), k) \cup {Entry(k, v)}
        BY <3>3, AssignStep DEF StepsTo
      <4>2. [x \in Keys |-> At(x)'] = [dict EXCEPT ![k] = v]
        BY <4>1, OneKeyChanges
      <4> QED
        BY <4>2 DEF D!DcNext, D!DcAssign
    <3> QED
      BY <3>1, <3>2, <3>3 DEF InsertOrAssign
  <2>4. CASE \E k \in Keys : Erase(k)
    <3>1. PICK k \in Keys : Erase(k)
      BY <2>4
    <3>2. Content(data') = Without(Content(data), k)
      BY <3>1, EraseStep DEF StepsTo
    <3>3. [x \in Keys |-> At(x)'] = [dict EXCEPT ![k] = Absent]
      BY <3>2, OneKeyGoes
    <3> QED
      BY <3>3 DEF D!DcNext, D!DcErase
  <2>5. CASE Clear
    <3>1. Content(data') = {}
      BY <2>5, ClearStep DEF StepsTo
    <3>2. [x \in Keys |-> At(x)'] = [k \in Keys |-> Absent]
      BY <3>1, AllKeysGo
    <3> QED
      BY <3>2 DEF D!DcNext, D!DcClear
  <2>6. CASE UNCHANGED vars
    <3>1. Content(data') = Content(data)
      BY <2>6 DEF vars
    <3>2. ASSUME NEW k \in Keys PROVE At(k)' = At(k)
      <4>1. \A x \in Keys : /\ \A e \in Content(data) : e.key = x => At(x) = e.value
                            /\ (\A e \in Content(data) : e.key # x) => At(x) = Absent
        BY AtFacts DEF AtIs
      <4>2. \A x \in Keys : /\ \A e \in Content(data') : e.key = x => At(x)' = e.value
                            /\ (\A e \in Content(data') : e.key # x) => At(x)' = Absent
        BY AtFactsNext DEF AtIs, Content, Full, Slots, IsFull
      <4> QED
        BY <3>1, <4>1, <4>2
    <3> QED
      BY <3>2
  <2> QED
    BY <2>2, <2>3, <2>4, <2>5, <2>6 DEF Next
<1> QED
  BY <1>1, <1>2, TableCorrect, PTL DEF Spec, ImplementsDictionary, D!DcSpec
=============================================================================
