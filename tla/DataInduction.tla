---------------------------- MODULE DataInduction ----------------------------
(***************************************************************************)
(* Induction over natural numbers and finite sets, as statements about     *)
(* sets rather than about formulas, and with them what a sum over a finite *)
(* set is.  The proofs about Mark, HandlePool, LockFreeLIFO, HashTable,    *)
(* ScanLists and CollectionTrigger use them; nothing here is about this    *)
(* program.                                                                *)
(***************************************************************************)
EXTENDS FiniteSetsExt, FiniteSetTheorems, WellFoundedInduction, NaturalsInduction, TLAPS

\* A set of natural numbers that is not empty has a least element.
LEMMA LeastNumber ==
  ASSUME NEW T \in SUBSET Nat, T # {}
  PROVE  \E n \in T : \A m \in T : n <= m
<1>1. PICK n \in T : \A m \in T : <<m, n>> \notin OpToRel(<, Nat)
  BY WFMin, NatLessThanWellFounded, Zenon
<1>2. \A m \in T : ~(m < n)
  BY <1>1, Zenon DEF OpToRel
<1> QED
  BY <1>2

\* A set that holds 0 and with every number the next one holds all of them.
LEMMA CountUp ==
  ASSUME NEW T, 0 \in T, \A n \in Nat : n \in T => n + 1 \in T
  PROVE  Nat \subseteq T
<1> SUFFICES ASSUME Nat \ T # {} PROVE FALSE
  OBVIOUS
<1>1. PICK n \in Nat \ T : \A m \in Nat \ T : n <= m
  BY LeastNumber
<1>2. n - 1 \in Nat \ T /\ n - 1 < n
  BY <1>1
<1> QED
  BY <1>1, <1>2

\* A set of finite sets that is not empty has a smallest one.
LEMMA SmallestSet ==
  ASSUME NEW F, F # {}, \A s \in F : IsFiniteSet(s)
  PROVE  \E s \in F : \A u \in F : Cardinality(s) <= Cardinality(u)
<1> DEFINE N == {Cardinality(s) : s \in F}
<1>1. N \in SUBSET Nat /\ N # {}
  BY FS_CardinalityType
<1>2. PICK n \in N : \A m \in N : n <= m
  BY <1>1, LeastNumber
<1> QED
  BY <1>2

-----------------------------------------------------------------------------
(* Sums *)

Member(s) == CHOOSE x \in s : TRUE
\* it gives the sum of f over every subset of S.
IsFold(it, f, S) ==
  it = [s \in SUBSET S |-> IF s = {} THEN 0 ELSE f[Member(s)] + it[s \ {Member(s)}]]

LEMMA MemberIn == ASSUME NEW s, s # {} PROVE Member(s) \in s
BY DEF Member

\* Taking one element out of a finite set.
LEMMA OneLess ==
  ASSUME NEW s, IsFiniteSet(s), NEW x \in s
  PROVE  /\ IsFiniteSet(s \ {x})
         /\ Cardinality(s) \in Nat /\ Cardinality(s \ {x}) \in Nat
         /\ Cardinality(s \ {x}) = Cardinality(s) - 1
         /\ ~(Cardinality(s) <= Cardinality(s \ {x}))
<1>1. /\ IsFiniteSet(s \ {x})
      /\ Cardinality(s \ {x}) = Cardinality(s) - 1
  BY FS_RemoveElement
<1>2. Cardinality(s) \in Nat /\ Cardinality(s \ {x}) \in Nat
  BY <1>1, FS_CardinalityType
<1> QED
  BY <1>1, <1>2

\* There is such a function: it is built up from the smaller sets to the larger.
LEMMA FoldExists ==
  ASSUME NEW S, IsFiniteSet(S), NEW f, \A x \in S : f[x] \in Int
  PROVE  \E it : IsFold(it, f, S)
<1> DEFINE Small(n) == {s \in SUBSET S : Cardinality(s) <= n}
           Sums(it, D) == \A s \in D : it[s] = IF s = {} THEN 0 ELSE f[Member(s)] + it[s \ {Member(s)}]
           T == {n \in Nat : \E it \in [Small(n) -> Int] : Sums(it, Small(n))}
<1>0. \A s \in SUBSET S : IsFiniteSet(s) /\ Cardinality(s) \in Nat
  BY FS_Subset, FS_CardinalityType
<1>1. 0 \in T
  <2>1. Small(0) = {{}}
    BY <1>0, FS_EmptySet
  <2>2. [s \in {{}} |-> 0] \in [Small(0) -> Int] /\ Sums([s \in {{}} |-> 0], Small(0))
    BY <2>1
  <2> QED
    BY <2>2
<1>2. ASSUME NEW n \in Nat, n \in T PROVE n + 1 \in T
  <2>1. PICK it \in [Small(n) -> Int] : Sums(it, Small(n))
    BY <1>2
  <2> DEFINE next == [s \in Small(n + 1) |->
                        IF s \in Small(n) THEN it[s] ELSE f[Member(s)] + it[s \ {Member(s)}]]
  <2>2. ASSUME NEW s \in Small(n + 1), s # {}
        PROVE  Member(s) \in S /\ s \ {Member(s)} \in Small(n)
    <3>1. Member(s) \in s /\ s \in SUBSET S /\ IsFiniteSet(s)
      BY <1>0, <2>2, MemberIn
    <3>2. Cardinality(s) \in Nat /\ Cardinality(s \ {Member(s)}) = Cardinality(s) - 1
      BY <3>1, OneLess
    <3> QED
      BY <3>1, <3>2
  <2>3. {} \in Small(n)
    BY FS_EmptySet
  <2>4. next \in [Small(n + 1) -> Int]
    <3>1. ASSUME NEW s \in Small(n + 1), s \notin Small(n)
          PROVE  f[Member(s)] + it[s \ {Member(s)}] \in Int
      <4>1. Member(s) \in S /\ s \ {Member(s)} \in Small(n)
        BY <2>2, <2>3, <3>1
      <4>2. f[Member(s)] \in Int /\ it[s \ {Member(s)}] \in Int
        BY <2>1, <4>1
      <4> QED
        BY <4>2
    <3> HIDE DEF Small
    <3> QED
      BY <2>1, <3>1
  <2>5. \A s \in Small(n) : s \in Small(n + 1) /\ next[s] = it[s]
    BY <1>0
  <2>6. Sums(next, Small(n + 1))
    <3> SUFFICES ASSUME NEW s \in Small(n + 1)
                 PROVE  next[s] = IF s = {} THEN 0 ELSE f[Member(s)] + next[s \ {Member(s)}]
      OBVIOUS
    <3> HIDE DEF next, Small
    <3>1. CASE s = {}
      BY <2>1, <2>3, <2>5, <3>1
    <3>2. CASE s # {} /\ s \in Small(n)
      BY <2>1, <2>2, <2>5, <3>2
    <3>3. CASE s # {} /\ s \notin Small(n)
      <4>1. next[s] = f[Member(s)] + it[s \ {Member(s)}]
        BY <3>3 DEF next
      <4> QED
        BY <2>2, <2>5, <3>3, <4>1
    <3> QED
      BY <3>1, <3>2, <3>3
  <2> HIDE DEF next, Small, Sums
  <2>7. \E jt \in [Small(n + 1) -> Int] : Sums(jt, Small(n + 1))
    BY <2>4, <2>6
  <2> QED
    BY <2>7
<1>3. Cardinality(S) \in T
  <2> HIDE DEF T
  <2>1. Nat \subseteq T
    BY <1>1, <1>2, CountUp
  <2> QED
    BY <1>0, <2>1
<1>4. PICK it \in [Small(Cardinality(S)) -> Int] : Sums(it, Small(Cardinality(S)))
  BY <1>3
<1>5. Small(Cardinality(S)) = SUBSET S
  BY FS_Subset
<1>6. it = [s \in SUBSET S |-> IF s = {} THEN 0 ELSE f[Member(s)] + it[s \ {Member(s)}]]
  BY <1>4, <1>5
<1> QED
  BY <1>6 DEF IsFold

\* The sum of f over S.
SumOf(f, S) == MapThenSumSet(LAMBDA x : f[x], S)

\* What MapThenSumSet computes is such a function's value.
LEMMA SumIsFold ==
  ASSUME NEW S, IsFiniteSet(S), NEW f, \A x \in S : f[x] \in Int
  PROVE  \E it : IsFold(it, f, S) /\ SumOf(f, S) = it[S]
<1> DEFINE Q(it) == it = [s \in SUBSET S |->
                            IF s = {} THEN 0 ELSE f[Member(s)] + it[s \ {Member(s)}]]
           sum == CHOOSE it : Q(it)
<1>1. Q(sum)
  <2>1. \E it : Q(it)
    <3>1. PICK it : IsFold(it, f, S)
      BY FoldExists
    <3>2. Q(it)
      BY <3>1 DEF IsFold
    <3> QED
      BY <3>2
  <2> HIDE DEF Q
  <2> QED
    BY <2>1
<1>2. SumOf(f, S) = sum[S]
  BY DEF SumOf, MapThenSumSet, MapThenFoldSet, Member
<1> QED
  BY <1>1, <1>2 DEF IsFold

\* A sum is a number, and any element may be the one that is added last.
LEMMA FoldTakesAny ==
  ASSUME NEW S, IsFiniteSet(S), NEW f, \A x \in S : f[x] \in Int, NEW it, IsFold(it, f, S)
  PROVE  /\ \A s \in SUBSET S : it[s] \in Int /\ \A x \in s : it[s] = f[x] + it[s \ {x}]
         /\ it[S] \in Int /\ \A x \in S : it[S] = f[x] + it[S \ {x}]
<1> DEFINE Good(s) == it[s] \in Int /\ \A x \in s : it[s] = f[x] + it[s \ {x}]
           Bad == {s \in SUBSET S : ~Good(s)}
<1>0. \A s \in SUBSET S : it[s] = IF s = {} THEN 0 ELSE f[Member(s)] + it[s \ {Member(s)}]
  BY DEF IsFold
<1> SUFFICES ASSUME Bad # {} PROVE FALSE
  <2>1. ASSUME Bad = {} PROVE \A s \in SUBSET S : Good(s)
    BY <2>1
  <2>2. S \in SUBSET S
    OBVIOUS
  <2> QED
    BY <2>1, <2>2
<1>1. PICK s \in Bad : \A u \in Bad : Cardinality(s) <= Cardinality(u)
  <2>1. \A u \in Bad : IsFiniteSet(u)
    BY FS_Subset
  <2> HIDE DEF Bad
  <2> QED
    BY <2>1, SmallestSet
<1>2. ASSUME NEW x \in s PROVE s \ {x} \in SUBSET S /\ Good(s \ {x})
  <2>1. s \in SUBSET S /\ IsFiniteSet(s)
    BY FS_Subset
  <2>2. ~(Cardinality(s) <= Cardinality(s \ {x}))
    BY <2>1, OneLess
  <2>3. s \ {x} \notin Bad
    <3> HIDE DEF Bad
    <3> QED
      BY <1>1, <2>2
  <2> QED
    BY <2>1, <2>3
<1>3. s # {}
  <2>1. s \in SUBSET S /\ ~Good(s)
    BY <1>1
  <2>2. ASSUME s = {} PROVE Good(s)
    <3>1. it[s] = 0
      BY <1>0, <2>1, <2>2
    <3> QED
      BY <2>2, <3>1
  <2> QED
    BY <2>1, <2>2
<1> DEFINE y == Member(s)
<1>4. y \in s /\ it[s] = f[y] + it[s \ {y}]
  BY <1>0, <1>3, MemberIn
<1>5. s \subseteq S
  OBVIOUS
<1> HIDE DEF y
<1>6. it[s] \in Int
  <2>1. f[y] \in Int /\ it[s \ {y}] \in Int
    BY <1>2, <1>4, <1>5
  <2> QED
    BY <1>4, <2>1
<1>7. ASSUME NEW x \in s PROVE it[s] = f[x] + it[s \ {x}]
  <2>1. CASE x = y
    BY <1>4, <2>1
  <2>2. CASE x # y
    <3> DEFINE u == (s \ {x}) \ {y}
    <3>1. u = (s \ {y}) \ {x} /\ x \in s \ {y} /\ y \in s \ {x}
      BY <1>4, <2>2
    <3>2. it[s \ {y}] = f[x] + it[u] /\ it[s \ {x}] = f[y] + it[u]
      BY <1>2, <1>4, <3>1
    <3>3. u \in SUBSET S /\ it[u] \in Int
      <4>1. IsFiniteSet(s) /\ u \in SUBSET S
        BY <1>5, FS_Subset
      <4>2. IsFiniteSet(s \ {x}) /\ Cardinality(s \ {x}) = Cardinality(s) - 1
            /\ Cardinality(s) \in Nat
        BY <4>1, OneLess
      <4>3. ~(Cardinality(s) <= Cardinality(u))
        <5>1. Cardinality(u) = Cardinality(s \ {x}) - 1
          BY <3>1, <4>2, OneLess
        <5> HIDE DEF u
        <5> QED
          BY <4>2, <5>1
      <4>4. u \notin Bad
        <5> HIDE DEF u, Bad
        <5> QED
          BY <1>1, <4>3
      <4> QED
        BY <4>1, <4>4
    <3>4. f[x] \in Int /\ f[y] \in Int
      BY <1>4, <1>5
    <3> HIDE DEF u
    <3> QED
      BY <1>4, <3>2, <3>3, <3>4
  <2> QED
    BY <2>1, <2>2
<1> QED
  BY <1>6, <1>7

\* Two such functions agree on the sets they both know, if what they add up agrees there.
LEMMA FoldsAgree ==
  ASSUME NEW S, IsFiniteSet(S), NEW f, NEW it, IsFold(it, f, S),
         NEW T \in SUBSET S, NEW g, NEW jt, IsFold(jt, g, T),
         \A x \in T : f[x] = g[x]
  PROVE  \A s \in SUBSET T : it[s] = jt[s]
<1> DEFINE Bad == {s \in SUBSET T : it[s] # jt[s]}
<1>0. /\ \A s \in SUBSET S : it[s] = IF s = {} THEN 0 ELSE f[Member(s)] + it[s \ {Member(s)}]
      /\ \A s \in SUBSET T : jt[s] = IF s = {} THEN 0 ELSE g[Member(s)] + jt[s \ {Member(s)}]
  BY DEF IsFold
<1> SUFFICES ASSUME Bad # {} PROVE FALSE
  OBVIOUS
<1>1. IsFiniteSet(T)
  BY FS_Subset
<1>2. PICK s \in Bad : \A u \in Bad : Cardinality(s) <= Cardinality(u)
  <2>1. \A u \in Bad : IsFiniteSet(u)
    BY <1>1, FS_Subset
  <2> HIDE DEF Bad
  <2> QED
    BY <2>1, SmallestSet
<1>3. s \in SUBSET T /\ s \in SUBSET S /\ it[s] # jt[s]
  BY <1>2
<1>4. s # {}
  BY <1>0, <1>3
<1> DEFINE y == Member(s)
<1>5. y \in s /\ f[y] = g[y] /\ it[s] = f[y] + it[s \ {y}] /\ jt[s] = g[y] + jt[s \ {y}]
  BY <1>0, <1>3, <1>4, MemberIn
<1>6. s \ {y} \in SUBSET T /\ s \ {y} \notin Bad
  <2> HIDE DEF y, Bad
  <2>1. IsFiniteSet(s) /\ s \ {y} \in SUBSET T
    BY <1>1, <1>3, FS_Subset
  <2>2. ~(Cardinality(s) <= Cardinality(s \ {y}))
    BY <1>5, <2>1, OneLess
  <2> QED
    BY <1>2, <2>1, <2>2
<1> QED
  BY <1>3, <1>5, <1>6

LEMMA SumEmpty == ASSUME NEW f PROVE SumOf(f, {}) = 0
<1>1. IsFiniteSet({}) /\ \A x \in {} : f[x] \in Int
  BY FS_EmptySet
<1>2. PICK it : IsFold(it, f, {}) /\ SumOf(f, {}) = it[{}]
  BY <1>1, SumIsFold
<1> QED
  BY <1>2 DEF IsFold

LEMMA SumTakesAny ==
  ASSUME NEW S, IsFiniteSet(S), NEW f, \A x \in S : f[x] \in Int
  PROVE  /\ SumOf(f, S) \in Int
         /\ \A x \in S : SumOf(f, S \ {x}) \in Int /\ SumOf(f, S) = f[x] + SumOf(f, S \ {x})
<1>1. ASSUME NEW T \in SUBSET S PROVE SumOf(f, T) \in Int
  <2>1. IsFiniteSet(T) /\ \A x \in T : f[x] \in Int
    BY FS_Subset
  <2>2. PICK it : IsFold(it, f, T) /\ SumOf(f, T) = it[T]
    BY <2>1, SumIsFold
  <2> QED
    BY <2>1, <2>2, FoldTakesAny
<1>2. ASSUME NEW x \in S PROVE SumOf(f, S) = f[x] + SumOf(f, S \ {x})
  <2>1. PICK it : IsFold(it, f, S) /\ SumOf(f, S) = it[S]
    BY SumIsFold
  <2>2. IsFiniteSet(S \ {x}) /\ (\A y \in S \ {x} : f[y] \in Int) /\ S \ {x} \in SUBSET S
    BY FS_RemoveElement
  <2>3. PICK jt : IsFold(jt, f, S \ {x}) /\ SumOf(f, S \ {x}) = jt[S \ {x}]
    BY <2>2, SumIsFold
  <2>4. it[S \ {x}] = jt[S \ {x}]
    BY <2>1, <2>2, <2>3, FoldsAgree
  <2>5. it[S] = f[x] + it[S \ {x}]
    <3>1. ASSUME NEW y \in S PROVE it[S] = f[y] + it[S \ {y}]
      BY <2>1, FoldTakesAny
    <3> QED
      BY <3>1
  <2> QED
    BY <2>1, <2>3, <2>4, <2>5
<1>3. S \in SUBSET S /\ \A x \in S : S \ {x} \in SUBSET S
  OBVIOUS
<1> QED
  BY <1>1, <1>2, <1>3

LEMMA SumOfEqual ==
  ASSUME NEW S, IsFiniteSet(S), NEW f, NEW g,
         \A x \in S : f[x] \in Int /\ g[x] = f[x]
  PROVE  SumOf(g, S) = SumOf(f, S)
<1>0. (\A x \in S : f[x] \in Int) /\ (\A x \in S : g[x] \in Int) /\ S \in SUBSET S
  OBVIOUS
<1>1. PICK it : IsFold(it, f, S) /\ SumOf(f, S) = it[S]
  BY <1>0, SumIsFold
<1>2. PICK jt : IsFold(jt, g, S) /\ SumOf(g, S) = jt[S]
  BY <1>0, SumIsFold
<1>3. it[S] = jt[S]
  BY <1>0, <1>1, <1>2, FoldsAgree
<1> QED
  BY <1>1, <1>2, <1>3

\* What a change of one summand makes of the sum.
LEMMA SumChanges ==
  ASSUME NEW S, IsFiniteSet(S), NEW f, NEW g, NEW x \in S,
         \A y \in S : f[y] \in Int /\ g[y] \in Int,
         \A y \in S \ {x} : g[y] = f[y]
  PROVE  /\ SumOf(f, S) \in Int /\ SumOf(g, S) \in Int
         /\ SumOf(g, S) = SumOf(f, S) + g[x] - f[x]
<1>1. IsFiniteSet(S \ {x})
  BY FS_RemoveElement
<1>2. SumOf(g, S \ {x}) = SumOf(f, S \ {x})
  BY <1>1, SumOfEqual
<1>3. /\ SumOf(f, S) \in Int /\ SumOf(f, S \ {x}) \in Int
      /\ SumOf(f, S) = f[x] + SumOf(f, S \ {x})
  BY SumTakesAny
<1>4. SumOf(g, S) \in Int /\ SumOf(g, S) = g[x] + SumOf(g, S \ {x})
  BY SumTakesAny
<1> QED
  BY <1>2, <1>3, <1>4

\* A sum of natural numbers is one.
LEMMA SumOfNat ==
  ASSUME NEW S, IsFiniteSet(S), NEW f, \A x \in S : f[x] \in Nat
  PROVE  SumOf(f, S) \in Nat
<1> DEFINE Bad == {s \in SUBSET S : SumOf(f, s) \notin Nat}
<1> SUFFICES ASSUME Bad # {} PROVE FALSE
  OBVIOUS
<1>1. PICK s \in Bad : \A u \in Bad : Cardinality(s) <= Cardinality(u)
  <2>1. \A u \in Bad : IsFiniteSet(u)
    BY FS_Subset
  <2> HIDE DEF Bad
  <2> QED
    BY <2>1, SmallestSet
<1>2. s \in SUBSET S /\ SumOf(f, s) \notin Nat /\ IsFiniteSet(s)
  BY <1>1, FS_Subset
<1>3. PICK x : x \in s
  BY <1>2, SumEmpty
<1>4. s \ {x} \in SUBSET S /\ s \ {x} \notin Bad
  <2>1. ~(Cardinality(s) <= Cardinality(s \ {x}))
    BY <1>2, <1>3, OneLess
  <2> HIDE DEF Bad
  <2> QED
    BY <1>1, <1>2, <2>1
<1>5. SumOf(f, s \ {x}) \in Nat /\ f[x] \in Nat
  BY <1>2, <1>3, <1>4
<1>6. SumOf(f, s) = f[x] + SumOf(f, s \ {x})
  BY <1>2, <1>3, SumTakesAny
<1> QED
  BY <1>2, <1>5, <1>6

\* The sum over S of one more than the value of b.
NextSum(b, S) == MapThenSumSet(LAMBDA x : b[x] + 1, S)

LEMMA SumOfNext ==
  ASSUME NEW S, IsFiniteSet(S), NEW b, \A x \in S : b[x] \in Int
  PROVE  NextSum(b, S) = SumOf([x \in S |-> b[x] + 1], S)
<1> DEFINE f == [x \in S |-> b[x] + 1]
           Q(it) == it = [s \in SUBSET S |->
                            IF s = {} THEN 0 ELSE (b[Member(s)] + 1) + it[s \ {Member(s)}]]
           sum == CHOOSE it : Q(it)
<1>1. \A s \in SUBSET S : s # {} => f[Member(s)] = b[Member(s)] + 1
  BY MemberIn
<1>2. S \in SUBSET S /\ \A x \in S : f[x] \in Int
  OBVIOUS
<1> HIDE DEF f
<1>3. PICK jt : IsFold(jt, f, S) /\ SumOf(f, S) = jt[S]
  BY <1>2, SumIsFold
<1>4. Q(sum)
  <2>1. Q(jt)
    <3>1. jt = [s \in SUBSET S |-> IF s = {} THEN 0 ELSE f[Member(s)] + jt[s \ {Member(s)}]]
      BY <1>3 DEF IsFold
    <3>2. \A s \in SUBSET S : (IF s = {} THEN 0 ELSE f[Member(s)] + jt[s \ {Member(s)}])
                            = (IF s = {} THEN 0 ELSE (b[Member(s)] + 1) + jt[s \ {Member(s)}])
      BY <1>1
    <3> QED
      BY <3>1, <3>2
  <2> HIDE DEF Q
  <2> QED
    BY <2>1
<1>5. IsFold(sum, f, S)
  <2>1. \A s \in SUBSET S : (IF s = {} THEN 0 ELSE f[Member(s)] + sum[s \ {Member(s)}])
                          = (IF s = {} THEN 0 ELSE (b[Member(s)] + 1) + sum[s \ {Member(s)}])
    BY <1>1
  <2>2. sum = [s \in SUBSET S |-> IF s = {} THEN 0 ELSE (b[Member(s)] + 1) + sum[s \ {Member(s)}]]
    BY <1>4
  <2> HIDE DEF sum
  <2> QED
    BY <2>1, <2>2 DEF IsFold
<1>6. NextSum(b, S) = sum[S]
  BY DEF NextSum, MapThenSumSet, MapThenFoldSet, Member
<1> HIDE DEF sum
<1>7. sum[S] = jt[S]
  BY <1>2, <1>3, <1>5, FoldsAgree
<1> QED
  BY <1>3, <1>6, <1>7 DEF f

LEMMA NextSumTakesAny ==
  ASSUME NEW S, IsFiniteSet(S), NEW b, \A x \in S : b[x] \in Nat
  PROVE  /\ NextSum(b, S) \in Nat
         /\ \A x \in S : /\ NextSum(b, S \ {x}) \in Nat
                         /\ NextSum(b, S) = b[x] + 1 + NextSum(b, S \ {x})
<1> DEFINE f == [x \in S |-> b[x] + 1]
<1>1. \A x \in S : f[x] = b[x] + 1 /\ f[x] \in Nat
  OBVIOUS
<1>2. NextSum(b, S) = SumOf(f, S)
  BY SumOfNext
<1> HIDE DEF f
<1>3. SumOf(f, S) \in Nat
  BY <1>1, SumOfNat
<1>4. ASSUME NEW x \in S
      PROVE  /\ NextSum(b, S \ {x}) \in Nat
             /\ NextSum(b, S) = b[x] + 1 + NextSum(b, S \ {x})
  <2> DEFINE g == [y \in S \ {x} |-> b[y] + 1]
  <2>1. IsFiniteSet(S \ {x})
    BY FS_RemoveElement
  <2>2. \A y \in S \ {x} : g[y] = f[y] /\ f[y] \in Nat /\ g[y] \in Nat
    BY <1>1
  <2>3. NextSum(b, S \ {x}) = SumOf(g, S \ {x})
    BY <2>1, SumOfNext
  <2> HIDE DEF g
  <2>4. SumOf(g, S \ {x}) = SumOf(f, S \ {x}) /\ SumOf(g, S \ {x}) \in Nat
    BY <2>1, <2>2, SumOfEqual, SumOfNat
  <2>5. SumOf(f, S) = f[x] + SumOf(f, S \ {x})
    BY <1>1, SumTakesAny
  <2> QED
    BY <1>1, <1>2, <2>3, <2>4, <2>5
<1> QED
  BY <1>2, <1>3, <1>4

LEMMA NextSumOfEqual ==
  ASSUME NEW S, IsFiniteSet(S), NEW b, NEW d, \A x \in S : b[x] \in Nat /\ d[x] = b[x]
  PROVE  NextSum(d, S) = NextSum(b, S)
<1> DEFINE f == [x \in S |-> b[x] + 1]
           g == [x \in S |-> d[x] + 1]
<1>1. f = g
  OBVIOUS
<1>2. NextSum(b, S) = SumOf(f, S) /\ NextSum(d, S) = SumOf(g, S)
  BY SumOfNext
<1> QED
  BY <1>1, <1>2

\* The sum over S of the values of a and b together.
PairSum(a, b, S) == MapThenSumSet(LAMBDA x : a[x] + b[x], S)

LEMMA SumOfPairs ==
  ASSUME NEW S, IsFiniteSet(S), NEW a, NEW b, \A x \in S : a[x] \in Int /\ b[x] \in Int
  PROVE  PairSum(a, b, S) = SumOf([x \in S |-> a[x] + b[x]], S)
<1> DEFINE f == [x \in S |-> a[x] + b[x]]
           Q(it) == it = [s \in SUBSET S |->
                            IF s = {} THEN 0
                            ELSE (a[Member(s)] + b[Member(s)]) + it[s \ {Member(s)}]]
           sum == CHOOSE it : Q(it)
<1>1. \A s \in SUBSET S : s # {} => f[Member(s)] = a[Member(s)] + b[Member(s)]
  BY MemberIn
<1>2. S \in SUBSET S /\ \A x \in S : f[x] \in Int
  OBVIOUS
<1> HIDE DEF f
<1>3. PICK jt : IsFold(jt, f, S) /\ SumOf(f, S) = jt[S]
  BY <1>2, SumIsFold
<1>4. Q(sum)
  <2>1. Q(jt)
    <3>1. jt = [s \in SUBSET S |-> IF s = {} THEN 0 ELSE f[Member(s)] + jt[s \ {Member(s)}]]
      BY <1>3 DEF IsFold
    <3>2. \A s \in SUBSET S :
             (IF s = {} THEN 0 ELSE f[Member(s)] + jt[s \ {Member(s)}])
             = (IF s = {} THEN 0 ELSE (a[Member(s)] + b[Member(s)]) + jt[s \ {Member(s)}])
      BY <1>1
    <3> QED
      BY <3>1, <3>2
  <2> HIDE DEF Q
  <2> QED
    BY <2>1
<1>5. IsFold(sum, f, S)
  <2>1. \A s \in SUBSET S :
           (IF s = {} THEN 0 ELSE f[Member(s)] + sum[s \ {Member(s)}])
           = (IF s = {} THEN 0 ELSE (a[Member(s)] + b[Member(s)]) + sum[s \ {Member(s)}])
    BY <1>1
  <2>2. sum = [s \in SUBSET S |->
                 IF s = {} THEN 0 ELSE (a[Member(s)] + b[Member(s)]) + sum[s \ {Member(s)}]]
    BY <1>4
  <2> HIDE DEF sum
  <2> QED
    BY <2>1, <2>2 DEF IsFold
<1>6. PairSum(a, b, S) = sum[S]
  BY DEF PairSum, MapThenSumSet, MapThenFoldSet, Member
<1> HIDE DEF sum
<1>7. sum[S] = jt[S]
  BY <1>2, <1>3, <1>5, FoldsAgree
<1> QED
  BY <1>3, <1>6, <1>7 DEF f

\* The values of a and b and those of d and e are numbers, and differ at x only.
DifferAt(S, a, b, d, e, x) ==
  /\ IsFiniteSet(S) /\ x \in S
  /\ \A y \in S : a[y] \in Int /\ b[y] \in Int /\ d[y] \in Int /\ e[y] \in Int
  /\ \A y \in S \ {x} : d[y] = a[y] /\ e[y] = b[y]

LEMMA PairSumChanges ==
  ASSUME NEW S, NEW a, NEW b, NEW d, NEW e, NEW x, DifferAt(S, a, b, d, e, x)
  PROVE  /\ PairSum(a, b, S) \in Int /\ PairSum(d, e, S) \in Int
         /\ PairSum(d, e, S) = PairSum(a, b, S) + (d[x] - a[x]) + (e[x] - b[x])
<1> DEFINE f == [y \in S |-> a[y] + b[y]]
           g == [y \in S |-> d[y] + e[y]]
<1>0. /\ IsFiniteSet(S) /\ x \in S
      /\ \A y \in S : a[y] \in Int /\ b[y] \in Int /\ d[y] \in Int /\ e[y] \in Int
      /\ \A y \in S \ {x} : d[y] = a[y] /\ e[y] = b[y]
  BY DEF DifferAt
<1>1. /\ \A y \in S : f[y] = a[y] + b[y] /\ g[y] = d[y] + e[y] /\ f[y] \in Int /\ g[y] \in Int
      /\ \A y \in S \ {x} : g[y] = f[y]
  BY <1>0
<1>2. PairSum(a, b, S) = SumOf(f, S) /\ PairSum(d, e, S) = SumOf(g, S)
  BY <1>0, SumOfPairs
<1> HIDE DEF f, g
<1>3. /\ SumOf(f, S) \in Int /\ SumOf(g, S) \in Int
      /\ SumOf(g, S) = SumOf(f, S) + g[x] - f[x]
  <2>0. IsFiniteSet(S) /\ x \in S
    BY <1>0
  <2>1. \A y \in S : f[y] \in Int /\ g[y] \in Int
    BY <1>1
  <2>2. \A y \in S \ {x} : g[y] = f[y]
    BY <1>1
  <2> QED
    BY ONLY <2>0, <2>1, <2>2, SumChanges
<1> QED
  BY <1>0, <1>1, <1>2, <1>3

\* A sum of nothing but zeros.
LEMMA PairSumOfZeros ==
  ASSUME NEW S, IsFiniteSet(S), NEW a, NEW b, \A x \in S : a[x] = 0 /\ b[x] = 0
  PROVE  PairSum(a, b, S) = 0
<1> DEFINE f == [x \in S |-> a[x] + b[x]]
<1>1. \A x \in S : f[x] = 0
  OBVIOUS
<1>2. PairSum(a, b, S) = SumOf(f, S)
  BY SumOfPairs
<1> HIDE DEF f
<1> DEFINE Bad == {s \in SUBSET S : SumOf(f, s) # 0}
<1> SUFFICES ASSUME Bad # {} PROVE FALSE
  BY <1>2
<1>3. PICK s \in Bad : \A u \in Bad : Cardinality(s) <= Cardinality(u)
  <2>1. \A u \in Bad : IsFiniteSet(u)
    BY FS_Subset
  <2> HIDE DEF Bad
  <2> QED
    BY <2>1, SmallestSet
<1>4. s \in SUBSET S /\ SumOf(f, s) # 0 /\ IsFiniteSet(s)
  BY <1>3, FS_Subset
<1>5. PICK x : x \in s
  BY <1>4, SumEmpty
<1>6. s \ {x} \in SUBSET S /\ s \ {x} \notin Bad
  <2>1. ~(Cardinality(s) <= Cardinality(s \ {x}))
    BY <1>4, <1>5, OneLess
  <2> HIDE DEF Bad
  <2> QED
    BY <1>3, <1>4, <2>1
<1>7. SumOf(f, s) = f[x] + SumOf(f, s \ {x})
  BY <1>1, <1>4, <1>5, SumTakesAny
<1> QED
  BY <1>1, <1>4, <1>5, <1>6, <1>7
==============================================================================
