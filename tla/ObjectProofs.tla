---------------------------- MODULE ObjectProofs ----------------------------
(***************************************************************************)
(* Proofs about what becomes of objects and their handles.                 *)
(*                                                                         *)
(* Mark, for any finite set of objects with any number of pointers and any *)
(* graph they make: the walk with back pointers marks exactly what the     *)
(* roots reach, and comes home.                                            *)
(*                                                                         *)
(* HandlePool, for any number of threads, blocks and handles in a block:   *)
(* a handle is with one object or in one list.                             *)
(***************************************************************************)
EXTENDS Mark, HandlePool, DataInduction

-----------------------------------------------------------------------------
(* Mark: the inductive invariant *)

\* The way back from c as a list of objects: p[0] is c, p[m] the object the walk began with,
\* each one's back pointer is the next, which refers to it by the pointer it has noted. It
\* visits no object twice, and a mark is on each.
IsWay(p, m) ==
  /\ p[0] = c /\ p[m] = this
  /\ \A i, j \in 0 .. m : p[i] = p[j] => i = j
  /\ \A i \in 0 .. m : p[i] \in marked
  /\ \A i \in 0 .. m - 1 : /\ backPtr[p[i]] = p[i + 1]
                           /\ ptr[p[i + 1]][backCtr[p[i]]] = p[i]

\* What a marked object refers to is marked, unless its pointers are still to be looked at:
\* by the walk where it is, or when it comes back to the object.
Seen(p, m) ==
  \A o \in marked : \A i \in 0 .. vars[o] - 1 :
    \/ ptr[o][i] \in marked \cup {Null}
    \/ o = c /\ i <= t
    \/ \E k \in 0 .. m - 1 : p[k + 1] = o /\ i < backCtr[p[k]]

WayOK == pc = "walk" => \E m \in Nat : \E p \in [0 .. m -> Objects] : IsWay(p, m) /\ Seen(p, m)

\* Beyond its last pointer an object has none; marks are made for the roots done so far only,
\* and between two roots everything marked has been seen to the end.
GraphOK == \A o \in Objects, i \in Pointers : i >= vars[o] => ptr[o][i] = Null
MarksOK ==
  /\ pc = "mutate" => marked = {}
  /\ pc # "mutate" => done \subseteq marked /\ marked \subseteq Reachable(done)
  /\ pc = "roots" => Closed(marked)

MarkInv == MkTypeOK /\ GraphOK /\ MarksOK /\ WayOK

-----------------------------------------------------------------------------
(* Lemmas on the operators *)

\* Reachable holds what it starts from, is closed, and is the least such set; more roots
\* reach no less.
LEMMA ReachableIsLeast ==
  ASSUME NEW R \in SUBSET Objects, MkTypeOK
  PROVE  /\ Reachable(R) \subseteq Objects /\ R \subseteq Reachable(R)
         /\ Closed(Reachable(R))
         /\ \A S \in SUBSET Objects : R \subseteq S /\ Closed(S) => Reachable(R) \subseteq S
         /\ \A Q \in SUBSET Objects : R \subseteq Q => Reachable(R) \subseteq Reachable(Q)
<1>1. \A S \in SUBSET Objects : R \subseteq S /\ Closed(S) => Reachable(R) \subseteq S
  BY DEF Reachable
<1>2. Reachable(R) \subseteq Objects /\ R \subseteq Reachable(R)
  BY DEF Reachable
<1>3. ASSUME NEW o \in Reachable(R), NEW d \in Children(o)
      PROVE  d \in Reachable(R)
  <2>1. d \in Objects
    <3>1. o \in Objects /\ vars[o] \in 0 .. MaxVars
      BY <1>2 DEF MkTypeOK
    <3>2. PICK i \in 0 .. vars[o] - 1 : d = ptr[o][i] /\ d # Null
      BY DEF Children
    <3>3. i \in Pointers
      BY <3>1, MarkAssumption DEF Pointers
    <3> QED
      BY <3>1, <3>2, <3>3 DEF MkTypeOK, Targets
  <2>2. ASSUME NEW S \in SUBSET Objects, R \subseteq S, Closed(S)
        PROVE  d \in S
    <3>1. o \in S
      BY <1>1, <2>2
    <3> QED
      BY <2>2, <3>1 DEF Closed
  <2> QED
    BY <2>1, <2>2 DEF Reachable
<1>4. Closed(Reachable(R))
  BY <1>3 DEF Closed
<1>5. \A Q \in SUBSET Objects : R \subseteq Q => Reachable(R) \subseteq Reachable(Q)
  BY DEF Reachable
<1> QED
  BY <1>1, <1>2, <1>4, <1>5

\* The graph stays as it is while the collector marks, and with it what is reached.
LEMMA SameGraph ==
  ASSUME UNCHANGED <<vars, ptr>>
  PROVE  /\ Closed(marked)' <=> Closed(marked')
         /\ Reachable(done)' = Reachable(done')
         /\ GraphOK => GraphOK'
<1>1. Closed(marked)' <=> Closed(marked')
  BY DEF Closed, Children
<1>2. Reachable(done)' = Reachable(done')
  BY DEF Reachable, Closed, Children
<1>3. GraphOK => GraphOK'
  BY DEF GraphOK
<1> QED
  BY <1>1, <1>2, <1>3

\* Nothing but marked objects and null behind the pointers of marked objects: closed.
LEMMA ClosedWhenSeen ==
  ASSUME MkTypeOK, NEW S \in SUBSET Objects
  PROVE  Closed(S) <=> \A o \in S : \A i \in 0 .. vars[o] - 1 : ptr[o][i] \in S \cup {Null}
BY MarkAssumption DEF Closed, Children, MkTypeOK

-----------------------------------------------------------------------------
(* The steps *)

LEMMA MarkInit == Init => MarkInv
<1> SUFFICES ASSUME Init PROVE MarkInv
  OBVIOUS
<1>1. MkTypeOK
  BY MarkAssumption DEF Init, MkTypeOK, Pointers, Targets
<1>2. GraphOK /\ MarksOK /\ WayOK
  BY DEF Init, GraphOK, MarksOK, WayOK
<1> QED
  BY <1>1, <1>2 DEF MarkInv

LEMMA InvStartMarking ==
  ASSUME MarkInv, NEW roots \in SUBSET Objects, StartMarking(roots)
  PROVE  MarkInv'
<1>0. /\ UNCHANGED <<vars, ptr, live, marked, backPtr, backCtr, this, c, t>>
      /\ todo' = roots /\ done' = {} /\ pc' = "roots" /\ pc = "mutate"
  BY DEF StartMarking, graph, walk
<1>1. MkTypeOK'
  BY <1>0 DEF MarkInv, MkTypeOK
<1>2. GraphOK'
  BY <1>0, SameGraph DEF MarkInv
<1>3. marked = {}
  BY <1>0 DEF MarkInv, MarksOK
<1>4. MarksOK'
  BY <1>0, <1>3, SameGraph DEF MarksOK, Closed
<1>5. WayOK'
  BY <1>0 DEF WayOK
<1> QED
  BY <1>1, <1>2, <1>4, <1>5 DEF MarkInv

LEMMA InvMarkRoot ==
  ASSUME MarkInv, NEW o \in Objects, MarkRoot(o)
  PROVE  MarkInv'
<1>0. /\ UNCHANGED <<vars, ptr, live, backPtr, backCtr>>
      /\ pc = "roots" /\ o \in todo /\ todo' = todo \ {o} /\ done' = done \cup {o}
      /\ IF o \in marked THEN UNCHANGED <<marked, walk, pc>>
         ELSE /\ marked' = marked \cup {o}
              /\ this' = o /\ c' = o /\ t' = vars[o] - 1
              /\ pc' = "walk"
  BY DEF MarkRoot, graph
<1>1. MkTypeOK /\ done \subseteq marked /\ marked \subseteq Reachable(done) /\ Closed(marked)
  BY <1>0 DEF MarkInv, MarksOK
<1>2. GraphOK'
  BY <1>0, SameGraph DEF MarkInv
<1>4. marked \subseteq Reachable(done') /\ o \in Reachable(done')
  <2>1. done \in SUBSET Objects /\ done' \in SUBSET Objects /\ done \subseteq done'
    BY <1>0, <1>1 DEF MkTypeOK
  <2>2. Reachable(done) \subseteq Reachable(done') /\ done' \subseteq Reachable(done')
    BY <1>1, <2>1, ReachableIsLeast
  <2> QED
    BY <1>0, <1>1, <2>2
<1>5. o \in Objects /\ vars[o] \in 0 .. MaxVars
  BY <1>1 DEF MkTypeOK
<1>6. CASE o \in marked
  <2>1. MkTypeOK'
    BY <1>0, <1>1, <1>6 DEF MkTypeOK, walk
  <2>2. MarksOK'
    <3>1. marked' = marked /\ pc' = pc /\ done' \subseteq marked'
      BY <1>0, <1>1, <1>6
    <3>2. Closed(marked')
      BY <1>1, <3>1
    <3>3. marked' \subseteq Reachable(done')
      BY <1>4, <3>1
    <3> QED
      BY <1>0, <3>1, <3>2, <3>3, SameGraph DEF MarksOK
  <2>3. WayOK'
    BY <1>0, <1>6 DEF WayOK
  <2> QED
    BY <1>2, <2>1, <2>2, <2>3 DEF MarkInv
<1>7. CASE o \notin marked
  <2>1. MkTypeOK'
    BY <1>0, <1>1, <1>5, <1>7, MarkAssumption DEF MkTypeOK, Targets
  <2>2. MarksOK'
    BY <1>0, <1>1, <1>4, <1>7, SameGraph DEF MarksOK
  <2> DEFINE p == [k \in 0 .. 0 |-> o]
  <2>3. p \in [0 .. 0 -> Objects] /\ IsWay(p, 0)'
    BY <1>0, <1>7 DEF IsWay
  <2>4. \A x \in marked : \A i \in 0 .. vars[x] - 1 : ptr[x][i] \in marked \cup {Null}
    BY <1>1, ClosedWhenSeen DEF MkTypeOK
  <2>5. Seen(p, 0)'
    BY <1>0, <1>5, <1>7, <2>4 DEF Seen
  <2>6. WayOK'
    <3> HIDE DEF p
    <3> QED
      BY <2>3, <2>5 DEF WayOK
  <2> QED
    BY <1>2, <2>1, <2>2, <2>6 DEF MarkInv
<1> QED
  BY <1>6, <1>7

\* On its way the walk is at a marked object, and it has a way home.
LEMMA OnTheWay ==
  ASSUME MarkInv, pc = "walk"
  PROVE  /\ MkTypeOK /\ c \in marked /\ this \in marked /\ marked \subseteq Objects
         /\ done \subseteq marked /\ marked \subseteq Reachable(done)
         /\ \E m \in Nat : \E p \in [0 .. m -> Objects] : IsWay(p, m) /\ Seen(p, m)
<1>1. PICK m \in Nat : \E p \in [0 .. m -> Objects] : IsWay(p, m) /\ Seen(p, m)
  BY DEF MarkInv, WayOK
<1>2. PICK p \in [0 .. m -> Objects] : IsWay(p, m) /\ Seen(p, m)
  BY <1>1
<1>3. c \in marked /\ this \in marked
  BY <1>2 DEF IsWay
<1> QED
  BY <1>1, <1>3 DEF MarkInv, MkTypeOK, MarksOK

LEMMA InvSkip ==
  ASSUME MarkInv, Skip
  PROVE  MarkInv'
<1>0. /\ UNCHANGED <<vars, ptr, live, todo, done, marked, backPtr, backCtr, this, c, pc>>
      /\ pc = "walk" /\ t >= 0 /\ ptr[c][t] \in marked \cup {Null} /\ t' = t - 1
  BY DEF Skip, graph
<1>1. MkTypeOK'
  BY <1>0, MarkAssumption DEF MarkInv, MkTypeOK
<1>2. GraphOK' /\ MarksOK'
  <2>1. Reachable(done') = Reachable(done)
    BY <1>0
  <2> QED
    BY <1>0, <2>1, SameGraph DEF MarkInv, MarksOK
<1>3. PICK m \in Nat : \E p \in [0 .. m -> Objects] : IsWay(p, m) /\ Seen(p, m)
  BY <1>0, OnTheWay
<1>4. PICK p \in [0 .. m -> Objects] : IsWay(p, m) /\ Seen(p, m)
  BY <1>3
<1>5. IsWay(p, m)'
  BY <1>0, <1>4 DEF IsWay
<1>6. Seen(p, m)'
  <2>1. t \in Int /\ \A o \in marked : vars[o] \in Nat
    BY DEF MarkInv, MkTypeOK
  <2>2. ASSUME NEW o \in marked, NEW i \in 0 .. vars[o] - 1, o = c, i <= t
        PROVE  ptr[o][i] \in marked \cup {Null} \/ i <= t - 1
    BY <1>0, <2>1, <2>2
  <2> QED
    BY <1>0, <1>4, <2>2 DEF Seen
<1> QED
  BY <1>1, <1>2, <1>5, <1>6 DEF MarkInv, WayOK

\* A step down: one more object at the head of the way back.
LEMMA WayDown ==
  ASSUME MarkInv, Descend, NEW m \in Nat, NEW p \in [0 .. m -> Objects], IsWay(p, m)
  PROVE  \E q \in [0 .. m + 1 -> Objects] :
           /\ q[0] = ptr[c][t] /\ \A k \in 0 .. m : q[k + 1] = p[k]
           /\ IsWay(q, m + 1)'
<1> DEFINE n == ptr[c][t]
<1>0. /\ UNCHANGED <<vars, ptr, this>>
      /\ pc = "walk" /\ t >= 0 /\ n \notin marked \cup {Null}
      /\ marked' = marked \cup {n}
      /\ backCtr' = [backCtr EXCEPT ![n] = t] /\ backPtr' = [backPtr EXCEPT ![n] = c]
      /\ c' = n
  BY DEF Descend, graph
<1>1. MkTypeOK /\ c \in marked /\ c \in Objects /\ marked \subseteq Objects
  BY <1>0, OnTheWay
<1>2. t \in Pointers /\ t \in Int
  BY <1>0, <1>1, MarkAssumption DEF MkTypeOK, Pointers
<1>3. n \in Objects
  BY <1>0, <1>1, <1>2 DEF MkTypeOK, Targets
<1>4. PICK q \in [0 .. m + 1 -> Objects] :
        /\ q[0] = n
        /\ \A k \in 0 .. m : q[k + 1] = p[k] /\ k + 1 \in 0 .. m + 1
        /\ \A k \in 0 .. m + 1 : k # 0 => q[k] = p[k - 1] /\ k - 1 \in 0 .. m
  <2> DEFINE r == [k \in 0 .. m + 1 |-> IF k = 0 THEN n ELSE p[k - 1]]
  <2>1. /\ r \in [0 .. m + 1 -> Objects] /\ r[0] = n
        /\ \A k \in 0 .. m : r[k + 1] = p[k] /\ k + 1 \in 0 .. m + 1
        /\ \A k \in 0 .. m + 1 : k # 0 => r[k] = p[k - 1] /\ k - 1 \in 0 .. m
    BY <1>3
  <2> HIDE DEF r
  <2> QED
    BY <2>1
<1> HIDE DEF n
<1>5. \A k \in 0 .. m : p[k] \in marked /\ p[k] \in Objects /\ p[k] # n
  BY <1>0 DEF IsWay
<1>6. /\ \A k \in 0 .. m : backPtr'[p[k]] = backPtr[p[k]] /\ backCtr'[p[k]] = backCtr[p[k]]
       /\ backPtr'[n] = c /\ backCtr'[n] = t
  BY <1>0, <1>1, <1>3, <1>5 DEF MkTypeOK
<1>7. IsWay(q, m + 1)'
  <2>1. q[0] = c' /\ q[m + 1] = this'
    BY <1>0, <1>4 DEF IsWay
  <2>2. ASSUME NEW i \in 0 .. m + 1, NEW j \in 0 .. m + 1, q[i] = q[j]
        PROVE  i = j
    <3>1. CASE i = 0 \/ j = 0
      BY <1>4, <1>5, <2>2, <3>1
    <3>2. CASE i # 0 /\ j # 0
      <4>1. p[i - 1] = p[j - 1] /\ i - 1 \in 0 .. m /\ j - 1 \in 0 .. m
        BY <1>4, <2>2, <3>2
      <4> QED
        BY <4>1 DEF IsWay
    <3> QED
      BY <3>1, <3>2
  <2>3. \A i \in 0 .. m + 1 : q[i] \in marked'
    BY <1>0, <1>4, <1>5
  <2>4. ASSUME NEW i \in 0 .. (m + 1) - 1
        PROVE  backPtr'[q[i]] = q[i + 1] /\ ptr'[q[i + 1]][backCtr'[q[i]]] = q[i]
    <3>1. CASE i = 0
      <4>1. q[0] = n /\ q[1] = p[0] /\ p[0] = c
        BY <1>4 DEF IsWay
      <4> QED
        BY <1>0, <1>6, <3>1, <4>1 DEF n
    <3>2. CASE i # 0
      <4>1. q[i] = p[i - 1] /\ q[i + 1] = p[(i - 1) + 1] /\ i - 1 \in 0 .. m - 1 /\ i - 1 \in 0 .. m
        BY <1>4, <3>2
      <4> QED
        BY <1>0, <1>6, <4>1 DEF IsWay
    <3> QED
      BY <3>1, <3>2
  <2> QED
    BY <2>1, <2>2, <2>3, <2>4 DEF IsWay
<1> QED
  BY <1>4, <1>7 DEF n

\* The step marks what it goes down to.
LEMMA InvDescend ==
  ASSUME MarkInv, Descend
  PROVE  MarkInv'
<1> DEFINE n == ptr[c][t]
<1>0. /\ UNCHANGED <<vars, ptr, live, todo, done, this, pc>>
      /\ pc = "walk" /\ t >= 0 /\ n \notin marked \cup {Null}
      /\ marked' = marked \cup {n}
      /\ backCtr' = [backCtr EXCEPT ![n] = t] /\ backPtr' = [backPtr EXCEPT ![n] = c]
      /\ c' = n /\ t' = vars[n] - 1
  BY DEF Descend, graph
<1>1. MkTypeOK /\ c \in marked /\ c \in Objects /\ marked \subseteq Objects
  BY <1>0, OnTheWay
<1>2. t \in Pointers /\ t \in Int
  BY <1>0, <1>1, MarkAssumption DEF MkTypeOK, Pointers
<1>3. n \in Objects /\ vars[n] \in 0 .. MaxVars
  BY <1>0, <1>1, <1>2 DEF MkTypeOK, Targets
<1>4. t \in 0 .. vars[c] - 1
  <2>1. ~(t >= vars[c])
    BY <1>0, <1>1, <1>2 DEF MarkInv, GraphOK
  <2> QED
    BY <1>0, <1>1, <1>2, <2>1 DEF MkTypeOK
<1>5. MkTypeOK'
  <2>1. backCtr' \in [Objects -> Pointers] /\ backPtr' \in [Objects -> Targets]
    BY <1>0, <1>1, <1>2, <1>3 DEF MkTypeOK, Targets
  <2>2. marked' \subseteq Objects /\ c' \in Targets /\ t' \in -1 .. MaxVars - 1
    BY <1>0, <1>1, <1>3, MarkAssumption DEF Targets
  <2> QED
    BY <1>0, <1>1, <2>1, <2>2 DEF MkTypeOK
<1>6. GraphOK' /\ MarksOK'
  <2>1. done \in SUBSET Objects /\ done \subseteq marked /\ marked \subseteq Reachable(done)
    BY <1>0, OnTheWay DEF MkTypeOK
  <2>2. n \in Children(c)
    BY <1>0, <1>4 DEF Children
  <2>3. n \in Reachable(done)
    BY <1>1, <2>1, <2>2, ReachableIsLeast DEF Closed
  <2>4. marked' \subseteq Reachable(done')
    <3> HIDE DEF n
    <3>1. Reachable(done') = Reachable(done)
      BY <1>0
    <3> QED
      BY <1>0, <2>1, <2>3, <3>1
  <2>5. done' \subseteq marked' /\ pc' = "walk"
    BY <1>0, <2>1
  <2> QED
    BY <1>0, <2>4, <2>5, SameGraph DEF MarkInv, MarksOK
<1>7. PICK m \in Nat : \E p \in [0 .. m -> Objects] : IsWay(p, m) /\ Seen(p, m)
  BY <1>0, OnTheWay
<1>8. PICK p \in [0 .. m -> Objects] : IsWay(p, m) /\ Seen(p, m)
  BY <1>7
<1>9. PICK q \in [0 .. m + 1 -> Objects] :
        /\ q[0] = n /\ \A k \in 0 .. m : q[k + 1] = p[k]
        /\ IsWay(q, m + 1)'
  BY <1>8, WayDown
<1> HIDE DEF n
<1>10. \A k \in 0 .. m : p[k] \in marked /\ p[k] \in Objects /\ p[k] # n
  BY <1>0, <1>8 DEF IsWay
<1>11. /\ \A k \in 0 .. m : backCtr'[p[k]] = backCtr[p[k]]
       /\ backCtr'[n] = t
  BY <1>0, <1>1, <1>3, <1>10 DEF MkTypeOK
<1>12. Seen(q, m + 1)'
  <2> SUFFICES ASSUME NEW o \in marked', NEW i \in 0 .. vars[o] - 1
               PROVE  \/ ptr[o][i] \in marked' \cup {Null}
                      \/ o = c' /\ i <= t'
                      \/ \E k \in 0 .. (m + 1) - 1 : q[k + 1] = o /\ i < backCtr'[q[k]]
    BY <1>0 DEF Seen
  <2>1. CASE o = n
    BY <1>0, <1>3, <2>1
  <2>2. CASE o \in marked /\ ptr[o][i] \in marked \cup {Null}
    BY <1>0, <2>2
  <2>3. CASE o = c /\ i <= t
    <3>1. CASE i = t
      BY <1>0, <2>3, <3>1 DEF n
    <3>2. CASE i # t
      <4>1. 0 \in 0 .. (m + 1) - 1 /\ q[0 + 1] = c /\ i < backCtr'[q[0]]
        BY <1>1, <1>2, <1>8, <1>9, <1>11, <2>3, <3>2 DEF IsWay, MkTypeOK
      <4> QED
        BY <2>3, <4>1
    <3> QED
      BY <3>1, <3>2
  <2>4. CASE \E k \in 0 .. m - 1 : p[k + 1] = o /\ i < backCtr[p[k]]
    <3>1. PICK k \in 0 .. m - 1 : p[k + 1] = o /\ i < backCtr[p[k]]
      BY <2>4
    <3>2. /\ k + 1 \in 0 .. (m + 1) - 1 /\ q[(k + 1) + 1] = p[k + 1] /\ q[k + 1] = p[k]
          /\ k \in 0 .. m
      BY <1>9
    <3>3. backCtr'[q[k + 1]] = backCtr[p[k]]
      BY <1>11, <3>2
    <3> QED
      BY <3>1, <3>2, <3>3
  <2> QED
    BY <1>0, <1>8, <2>1, <2>2, <2>3, <2>4 DEF Seen
<1>13. WayOK'
  <2>1. m + 1 \in Nat
    OBVIOUS
  <2> QED
    BY <2>1, <1>9, <1>12 DEF WayOK
<1> QED
  BY <1>5, <1>6, <1>13 DEF MarkInv

\* A step back: the head of the way home is left behind.
LEMMA WayUp ==
  ASSUME MarkInv, Return, NEW m \in Nat, NEW p \in [0 .. m -> Objects], IsWay(p, m)
  PROVE  /\ m - 1 \in Nat
         /\ \E q \in [0 .. m - 1 -> Objects] :
              /\ \A k \in 0 .. m - 1 : q[k] = p[k + 1]
              /\ IsWay(q, m - 1)'
<1>0. /\ UNCHANGED <<ptr, marked, backPtr, backCtr, this>>
      /\ pc = "walk" /\ c # this /\ c' = backPtr[c]
  BY DEF Return, graph
<1>1. m # 0 /\ m - 1 \in Nat
  BY <1>0 DEF IsWay
<1>2. c' = p[1]
  <2>1. p[0] = c /\ 0 \in 0 .. m - 1 /\ backPtr[p[0]] = p[0 + 1] /\ 1 \in 0 .. m
    BY <1>1 DEF IsWay
  <2> QED
    BY <1>0, <2>1
<1>3. PICK q \in [0 .. m - 1 -> Objects] :
        \A k \in 0 .. m - 1 : q[k] = p[k + 1] /\ k + 1 \in 0 .. m
  <2> DEFINE r == [k \in 0 .. m - 1 |-> p[k + 1]]
  <2>1. r \in [0 .. m - 1 -> Objects] /\ \A k \in 0 .. m - 1 : r[k] = p[k + 1] /\ k + 1 \in 0 .. m
    BY <1>1
  <2> HIDE DEF r
  <2> QED
    BY <2>1
<1>4. IsWay(q, m - 1)'
  <2>1. q[0] = c' /\ q[m - 1] = this'
    BY <1>0, <1>1, <1>2, <1>3 DEF IsWay
  <2>2. ASSUME NEW i \in 0 .. m - 1, NEW j \in 0 .. m - 1, q[i] = q[j]
        PROVE  i = j
    <3>1. p[i + 1] = p[j + 1] /\ i + 1 \in 0 .. m /\ j + 1 \in 0 .. m
      BY <1>3, <2>2
    <3>2. i + 1 = j + 1
      BY <3>1 DEF IsWay
    <3> QED
      BY <3>2
  <2>3. \A i \in 0 .. m - 1 : q[i] \in marked'
    BY <1>0, <1>3 DEF IsWay
  <2>4. ASSUME NEW i \in 0 .. (m - 1) - 1
        PROVE  backPtr'[q[i]] = q[i + 1] /\ ptr'[q[i + 1]][backCtr'[q[i]]] = q[i]
    <3>1. /\ q[i] = p[i + 1] /\ q[i + 1] = p[(i + 1) + 1] /\ i + 1 \in 0 .. m - 1
      BY <1>3
    <3> QED
      BY <1>0, <3>1 DEF IsWay
  <2> QED
    BY <2>1, <2>2, <2>3, <2>4 DEF IsWay
<1> QED
  BY <1>1, <1>3, <1>4

LEMMA InvReturn ==
  ASSUME MarkInv, Return
  PROVE  MarkInv'
<1>0. /\ UNCHANGED <<vars, ptr, live, todo, done, marked, backPtr, backCtr, this, pc>>
      /\ pc = "walk" /\ t < 0 /\ c # this
      /\ c' = backPtr[c] /\ t' = backCtr[c] - 1
  BY DEF Return, graph
<1>1. MkTypeOK /\ c \in Objects /\ marked \subseteq Objects
  BY <1>0, OnTheWay
<1>2. PICK m \in Nat : \E p \in [0 .. m -> Objects] : IsWay(p, m) /\ Seen(p, m)
  BY <1>0, OnTheWay
<1>3. PICK p \in [0 .. m -> Objects] : IsWay(p, m) /\ Seen(p, m)
  BY <1>2
<1>4. m # 0 /\ m - 1 \in Nat
  BY <1>0, <1>3 DEF IsWay
<1>5. c' = p[1] /\ c' \in Objects
  <2>1. p[0] = c /\ 0 \in 0 .. m - 1 /\ backPtr[p[0]] = p[0 + 1] /\ 1 \in 0 .. m
    BY <1>3, <1>4 DEF IsWay
  <2> QED
    BY <1>0, <2>1
<1>6. MkTypeOK'
  <2>1. t' \in -1 .. MaxVars - 1
    BY <1>0, <1>1, MarkAssumption DEF MkTypeOK, Pointers
  <2> QED
    BY <1>0, <1>1, <1>5, <2>1 DEF MkTypeOK, Targets
<1>7. GraphOK' /\ MarksOK'
  <2>1. Reachable(done') = Reachable(done)
    BY <1>0
  <2> QED
    BY <1>0, <2>1, SameGraph DEF MarkInv, MarksOK
<1>8. PICK q \in [0 .. m - 1 -> Objects] :
        /\ \A k \in 0 .. m - 1 : q[k] = p[k + 1]
        /\ IsWay(q, m - 1)'
  BY <1>3, WayUp
<1>9. Seen(q, m - 1)'
  <2> SUFFICES ASSUME NEW o \in marked, NEW i \in 0 .. vars[o] - 1
               PROVE  \/ ptr[o][i] \in marked \cup {Null}
                      \/ o = c' /\ i <= t'
                      \/ \E k \in 0 .. (m - 1) - 1 : q[k + 1] = o /\ i < backCtr[q[k]]
    BY <1>0 DEF Seen
  <2>1. CASE ptr[o][i] \in marked \cup {Null}
    BY <2>1
  <2>2. CASE o = c /\ i <= t
    BY <1>0, <1>1, <2>2 DEF MkTypeOK
  <2>3. CASE \E k \in 0 .. m - 1 : p[k + 1] = o /\ i < backCtr[p[k]]
    <3>1. PICK k \in 0 .. m - 1 : p[k + 1] = o /\ i < backCtr[p[k]]
      BY <2>3
    <3>2. CASE k = 0
      <4>1. o = c' /\ i < backCtr[c]
        BY <1>3, <1>5, <3>1, <3>2 DEF IsWay
      <4>2. backCtr[c] \in Int
        BY <1>1 DEF MkTypeOK, Pointers
      <4> QED
        BY <1>0, <4>1, <4>2
    <3>3. CASE k # 0
      <4>1. k - 1 \in 0 .. (m - 1) - 1 /\ q[(k - 1) + 1] = p[k + 1] /\ q[k - 1] = p[k]
        BY <1>8, <3>3
      <4> QED
        BY <3>1, <4>1
    <3> QED
      BY <3>2, <3>3
  <2> QED
    BY <1>3, <2>1, <2>2, <2>3 DEF Seen
<1>10. WayOK'
  BY <1>4, <1>8, <1>9 DEF WayOK
<1> QED
  BY <1>6, <1>7, <1>10 DEF MarkInv

\* Home, and nothing left to look at: the way back is the object alone.
LEMMA InvFinish ==
  ASSUME MarkInv, Finish
  PROVE  MarkInv'
<1>0. /\ UNCHANGED <<vars, ptr, live, todo, done, marked, backPtr, backCtr, this, c, t>>
      /\ pc = "walk" /\ t < 0 /\ c = this /\ pc' = "roots"
  BY DEF Finish, graph, walk
<1>1. MkTypeOK /\ marked \in SUBSET Objects
  BY <1>0, OnTheWay
<1>2. PICK m \in Nat : \E p \in [0 .. m -> Objects] : IsWay(p, m) /\ Seen(p, m)
  BY <1>0, OnTheWay
<1>3. PICK p \in [0 .. m -> Objects] : IsWay(p, m) /\ Seen(p, m)
  BY <1>2
<1>4. m = 0
  <2>1. p[0] = p[m] /\ 0 \in 0 .. m /\ m \in 0 .. m
    BY <1>0, <1>3 DEF IsWay
  <2> QED
    BY <1>3, <2>1 DEF IsWay
<1>5. Closed(marked)
  <2>1. ASSUME NEW o \in marked, NEW i \in 0 .. vars[o] - 1
        PROVE  ptr[o][i] \in marked \cup {Null}
    <3>1. ~(i <= t)
      BY <1>0, <1>1 DEF MkTypeOK
    <3>2. ~\E k \in 0 .. m - 1 : TRUE
      BY <1>4
    <3> QED
      BY <1>3, <3>1, <3>2 DEF Seen
  <2> QED
    BY <1>1, <2>1, ClosedWhenSeen
<1>6. MkTypeOK'
  BY <1>0, <1>1 DEF MkTypeOK
<1>7. GraphOK' /\ MarksOK'
  <2>1. Reachable(done') = Reachable(done) /\ (Closed(marked)' <=> Closed(marked))
    BY <1>0 DEF Reachable, Closed, Children
  <2> QED
    BY <1>0, <1>5, <2>1, SameGraph DEF MarkInv, MarksOK
<1>8. WayOK'
  BY <1>0 DEF WayOK
<1> QED
  BY <1>6, <1>7, <1>8 DEF MarkInv

LEMMA InvSweep ==
  ASSUME MarkInv, Sweep
  PROVE  MarkInv'
<1>0. /\ UNCHANGED <<vars, ptr, todo, done, backPtr, backCtr, this, c, t>>
      /\ live' = marked /\ marked' = {} /\ pc' = "mutate"
  BY DEF Sweep, walk
<1>1. MkTypeOK'
  BY <1>0 DEF MarkInv, MkTypeOK
<1>2. GraphOK'
  BY <1>0, SameGraph DEF MarkInv
<1>3. MarksOK' /\ WayOK'
  BY <1>0 DEF MarksOK, WayOK
<1> QED
  BY <1>1, <1>2, <1>3 DEF MarkInv

LEMMA InvStutter ==
  ASSUME MarkInv, UNCHANGED mkVars
  PROVE  MarkInv'
<1>0. UNCHANGED <<vars, ptr, live, todo, done, marked, backPtr, backCtr, this, c, t, pc>>
  BY DEF mkVars, graph, walk
<1>1. MkTypeOK' /\ GraphOK'
  BY <1>0, SameGraph DEF MarkInv, MkTypeOK
<1>2. MarksOK'
  <2>1. Reachable(done') = Reachable(done)
    BY <1>0
  <2> QED
    BY <1>0, <2>1, SameGraph DEF MarkInv, MarksOK
<1>3. WayOK'
  BY <1>0 DEF MarkInv, WayOK, IsWay, Seen
<1> QED
  BY <1>1, <1>2, <1>3 DEF MarkInv

LEMMA MarkStep == MarkInv /\ [Next]_mkVars => MarkInv'
<1> SUFFICES ASSUME MarkInv, [Next]_mkVars PROVE MarkInv'
  OBVIOUS
<1>1. ASSUME NEW roots \in SUBSET Objects, StartMarking(roots) PROVE MarkInv'
  BY <1>1, InvStartMarking
<1>2. ASSUME NEW o \in Objects, MarkRoot(o) PROVE MarkInv'
  BY <1>2, InvMarkRoot
<1>3. CASE Skip
  BY <1>3, InvSkip
<1>4. CASE Descend
  BY <1>4, InvDescend
<1>5. CASE Return
  BY <1>5, InvReturn
<1>6. CASE Finish
  BY <1>6, InvFinish
<1>7. CASE Sweep
  BY <1>7, InvSweep
<1>8. CASE UNCHANGED mkVars
  BY <1>8, InvStutter
<1> QED
  BY <1>1, <1>2, <1>3, <1>4, <1>5, <1>6, <1>7, <1>8 DEF Next

-----------------------------------------------------------------------------
(* The way back of the run's properties is the one of the invariant *)

\* What OnPath says of the list it counts along.
IsBack(b) ==
  b = [k \in Nat |-> IF k = 0 THEN c
                     ELSE LET o == b[k - 1] IN IF o \in {this, Null} THEN o ELSE backPtr[o]]

\* A way back has no more steps than there are objects.
LEMMA WayIsShort ==
  ASSUME MkTypeOK, NEW m \in Nat, NEW p \in [0 .. m -> Objects], IsWay(p, m)
  PROVE  Cardinality(Objects) \in Nat /\ m <= Cardinality(Objects)
<1>1. p \in Injection(0 .. m, Objects)
  BY DEF IsWay, Injection, IsInjective
<1>2. Cardinality(0 .. m) <= Cardinality(Objects)
  BY <1>1, MarkAssumption, FS_Injection
<1>3. Cardinality(0 .. m) = m + 1
  BY FS_Interval
<1>4. Cardinality(Objects) \in Nat
  BY MarkAssumption, FS_CardinalityType
<1> QED
  BY <1>2, <1>3, <1>4

\* OnPath is a choice among the lists it describes: there is one, and it is the way back,
\* staying at its end.
LEMMA BackIsWay ==
  ASSUME MkTypeOK, NEW m \in Nat, NEW p \in [0 .. m -> Objects], IsWay(p, m)
  PROVE  /\ \E b : IsBack(b)
         /\ \A b : IsBack(b) => \A k \in Nat : b[k] = (IF k <= m THEN p[k] ELSE this)
<1> DEFINE g == [k \in Nat |-> IF k <= m THEN p[k] ELSE this]
           \* what a back pointer leads to, and where it ends
           next(o) == IF o \in {this, Null} THEN o ELSE backPtr[o]
<1>1. g[0] = c
  BY DEF IsWay
<1>2. ASSUME NEW k \in Nat, k # 0 PROVE g[k] = next(g[k - 1])
  <2>1. k - 1 \in Nat
    BY <1>2
  <2>2. CASE k <= m
    <3>1. g[k] = p[k] /\ g[k - 1] = p[k - 1] /\ k - 1 \in 0 .. m - 1 /\ k - 1 \in 0 .. m /\ m \in 0 .. m
      BY <1>2, <2>1, <2>2
    <3>2. p[k - 1] # this
      BY <3>1 DEF IsWay
    <3>3. p[k - 1] # Null
      BY <3>1, MarkAssumption
    <3>4. backPtr[p[k - 1]] = p[(k - 1) + 1] /\ (k - 1) + 1 = k
      BY <3>1 DEF IsWay
    <3> QED
      BY <3>1, <3>2, <3>3, <3>4
  <2>3. CASE ~(k <= m)
    <3>1. g[k] = this
      BY <2>3
    <3>2. g[k - 1] = this
      <4>1. CASE k - 1 = m
        BY <2>1, <4>1 DEF IsWay
      <4>2. CASE k - 1 # m
        BY <2>1, <2>3, <4>2
      <4> QED
        BY <4>1, <4>2
    <3> QED
      BY <3>1, <3>2
  <2> QED
    BY <2>2, <2>3
<1>3. IsBack(g)
  <2>1. \A k \in Nat : g[k] = IF k = 0 THEN c ELSE next(g[k - 1])
    BY <1>1, <1>2
  <2> QED
    BY <2>1, Zenon DEF IsBack
<1>4. ASSUME NEW b, IsBack(b)
      PROVE  \A k \in Nat : b[k] = g[k]
  <2>1. b[0] = c /\ \A k \in Nat : k # 0 => b[k] = next(b[k - 1])
    BY <1>4 DEF IsBack
  <2> DEFINE T == {k \in Nat : b[k] = g[k]}
  <2> HIDE DEF g
  <2>2. 0 \in T
    BY <1>1, <2>1
  <2>3. \A k \in Nat : k \in T => k + 1 \in T
    <3> SUFFICES ASSUME NEW k \in Nat, b[k] = g[k]
                 PROVE  b[k + 1] = g[k + 1]
      OBVIOUS
    <3>1. k + 1 \in Nat /\ k + 1 # 0 /\ (k + 1) - 1 = k
      OBVIOUS
    <3>2. b[k + 1] = next(b[k]) /\ g[k + 1] = next(g[k])
      BY <1>2, <2>1, <3>1
    <3> QED
      BY <3>2
  <2> QED
    <3> HIDE DEF T
    <3>1. Nat \subseteq T
      BY <2>2, <2>3, CountUp
    <3> QED
      BY <3>1 DEF T
<1> QED
  BY <1>3, <1>4

LEMMA PathIsWay ==
  ASSUME MkTypeOK, NEW m \in Nat, NEW p \in [0 .. m -> Objects], IsWay(p, m)
  PROVE  OnPath = {p[k] : k \in 0 .. m}
<1> DEFINE back == CHOOSE b : IsBack(b)
<1>1. IsBack(back)
  BY BackIsWay
<1>2. OnPath = {back[k] : k \in 0 .. Cardinality(Objects)}
  BY DEF OnPath, IsBack
<1> HIDE DEF back
<1>3. \A k \in Nat : back[k] = IF k <= m THEN p[k] ELSE this
  BY <1>1, BackIsWay
<1>4. Cardinality(Objects) \in Nat /\ m <= Cardinality(Objects)
  BY WayIsShort
<1>5. p[m] = this /\ m \in 0 .. m
  BY DEF IsWay
<1>6. {back[k] : k \in 0 .. Cardinality(Objects)} \subseteq {p[k] : k \in 0 .. m}
  <2>1. ASSUME NEW k \in 0 .. Cardinality(Objects)
        PROVE  back[k] \in {p[j] : j \in 0 .. m}
    <3>1. CASE k <= m
      BY <1>3, <1>4, <3>1
    <3>2. CASE ~(k <= m)
      BY <1>3, <1>4, <1>5, <3>2
    <3> QED
      BY <3>1, <3>2
  <2> QED
    BY <2>1
<1>7. {p[k] : k \in 0 .. m} \subseteq {back[k] : k \in 0 .. Cardinality(Objects)}
  <2>1. \A k \in 0 .. m : p[k] = back[k] /\ k \in 0 .. Cardinality(Objects)
    BY <1>3, <1>4
  <2> QED
    BY <2>1
<1> QED
  BY <1>2, <1>6, <1>7

\* The part of MarkInv that speaks of the walk says what the run's property does.
LEMMA OnCourse == MarkInv => WalkIsOnCourse
<1> SUFFICES ASSUME MarkInv, pc = "walk"
             PROVE  /\ this \in OnPath /\ OnPath \subseteq marked
                    /\ \A o \in OnPath \ {this} : ptr[backPtr[o]][backCtr[o]] = o
                    /\ \A o \in marked : \A i \in 0 .. vars[o] - 1 :
                         \/ ptr[o][i] \in marked \cup {Null}
                         \/ o = c /\ i <= t
                         \/ \E p \in OnPath \ {this} : backPtr[p] = o /\ i < backCtr[p]
  BY Zenon DEF WalkIsOnCourse
<1>1. MkTypeOK
  BY OnTheWay
<1>2. PICK m \in Nat : \E p \in [0 .. m -> Objects] : IsWay(p, m) /\ Seen(p, m)
  BY OnTheWay
<1>3. PICK p \in [0 .. m -> Objects] : IsWay(p, m) /\ Seen(p, m)
  BY <1>2
<1>4. OnPath = {p[k] : k \in 0 .. m}
  BY <1>1, <1>3, PathIsWay
<1>5. this \in OnPath /\ OnPath \subseteq marked
  BY <1>3, <1>4 DEF IsWay
<1>6. ASSUME NEW o \in OnPath \ {this}
      PROVE  ptr[backPtr[o]][backCtr[o]] = o
  <2>1. PICK k \in 0 .. m : o = p[k]
    BY <1>4
  <2>2. k \in 0 .. m - 1
    BY <1>3, <2>1 DEF IsWay
  <2> QED
    BY <1>3, <2>1, <2>2 DEF IsWay
<1>7. ASSUME NEW k \in 0 .. m - 1
      PROVE  p[k] \in OnPath \ {this} /\ backPtr[p[k]] = p[k + 1]
  <2>1. k \in 0 .. m /\ m \in 0 .. m /\ k # m
    OBVIOUS
  <2>2. p[k] # this
    BY <1>3, <2>1 DEF IsWay
  <2> QED
    BY <1>3, <1>4, <2>1, <2>2 DEF IsWay
<1>8. ASSUME NEW o \in marked, NEW i \in 0 .. vars[o] - 1
      PROVE  \/ ptr[o][i] \in marked \cup {Null}
             \/ o = c /\ i <= t
             \/ \E x \in OnPath \ {this} : backPtr[x] = o /\ i < backCtr[x]
  <2>1. ASSUME NEW k \in 0 .. m - 1, p[k + 1] = o, i < backCtr[p[k]]
        PROVE  \E x \in OnPath \ {this} : backPtr[x] = o /\ i < backCtr[x]
    BY <1>7, <2>1
  <2> QED
    BY <1>3, <2>1 DEF Seen
<1> QED
  BY <1>5, <1>6, <1>8

\* Nothing beyond what is reached, and with a closed set around the roots all of it.
LEMMA RootsReach == MarkInv => MarksExactly
<1> SUFFICES ASSUME MarkInv, pc = "roots" PROVE marked = Reachable(done)
  BY DEF MarksExactly
<1>1. /\ MkTypeOK /\ done \subseteq marked /\ marked \subseteq Reachable(done)
      /\ Closed(marked)
  BY DEF MarkInv, MarksOK
<1>2. done \in SUBSET Objects /\ marked \in SUBSET Objects
  BY <1>1 DEF MkTypeOK
<1>3. Reachable(done) \subseteq marked
  BY <1>1, <1>2, ReachableIsLeast
<1> QED
  BY <1>1, <1>3

-----------------------------------------------------------------------------
(* Mark: the theorems *)

LEMMA MarkInductive == Spec => []MarkInv
BY MarkInit, MarkStep, PTL DEF Spec

\* The locals of collectable_mark and the fields it writes into the objects hold what they
\* are declared for: the back pointer's counter never leaves the object's pointers, the
\* local counter goes down to -1 and no further (495-530).
THEOREM MarkTypeCorrect == Spec => []MkTypeOK
<1>1. MarkInv => MkTypeOK
  BY DEF MarkInv
<1> QED
  BY <1>1, MarkInductive, PTL

\* Whatever the graph, with cycles, shared and repeated pointers: when collectable_mark
\* comes back to the loop over the roots, marked is what the roots so far reach (480-532).
THEOREM MarksAreExact == Spec => []MarksExactly
BY RootsReach, MarkInductive, PTL

\* At every turn of its loop the walk can go home over the back pointers, none of them
\* overwritten while it is needed, and what it has not seen it will come to (513-528).
THEOREM TheWalkIsOnCourse == Spec => []WalkIsOnCourse
BY OnCourse, MarkInductive, PTL

-----------------------------------------------------------------------------
(* Every turn of the loop leaves less to do *)

\* The summands of Work.
OnWay == OnPath \ {this, Null}
Unmarked == Objects \ marked

LEMMA WorkIsSum == Work = t + 1 + NextSum(backCtr, OnWay) + NextSum(vars, Unmarked)
BY DEF Work, NextSum, OnWay, Unmarked

\* What they are summed over when p is the way back.
SummedOver(p, m) ==
  /\ OnPath = {p[k] : k \in 0 .. m} /\ OnPath \subseteq marked
  /\ OnWay = OnPath \ {this}
  /\ IsFiniteSet(OnWay) /\ IsFiniteSet(Unmarked)
  /\ \A o \in OnWay : backCtr[o] \in Nat
  /\ \A o \in Unmarked : vars[o] \in Nat

LEMMA WayIsSummedOver ==
  MkTypeOK => \A m \in Nat : \A p \in [0 .. m -> Objects] : IsWay(p, m) => SummedOver(p, m)
<1> SUFFICES ASSUME MkTypeOK, NEW m \in Nat, NEW p \in [0 .. m -> Objects], IsWay(p, m)
             PROVE  SummedOver(p, m)
  OBVIOUS
<1>1. OnPath = {p[k] : k \in 0 .. m}
  BY PathIsWay
<1>2. OnPath \subseteq marked
  BY <1>1 DEF IsWay
<1>3. OnWay \in SUBSET Objects /\ Unmarked \in SUBSET Objects
  BY <1>2 DEF MkTypeOK, OnWay, Unmarked
<1>4. IsFiniteSet(OnWay) /\ IsFiniteSet(Unmarked)
  BY <1>3, MarkAssumption, FS_Subset
<1>5. (\A o \in OnWay : backCtr[o] \in Nat) /\ \A o \in Unmarked : vars[o] \in Nat
  BY <1>3 DEF MkTypeOK, Pointers
<1>6. OnWay = OnPath \ {this}
  BY <1>2, MarkAssumption DEF MkTypeOK, OnWay
<1> QED
  BY <1>1, <1>2, <1>4, <1>5, <1>6 DEF SummedOver

\* Both after a step.
LEMMA WorkAfter ==
  /\ Work' = t' + 1 + NextSum(backCtr', OnWay') + NextSum(vars', Unmarked')
  /\ MkTypeOK' => \A m \in Nat : \A p \in [0 .. m -> Objects] : IsWay(p, m)' => SummedOver(p, m)'
<1>1. (Work = t + 1 + NextSum(backCtr, OnWay) + NextSum(vars, Unmarked))'
  BY WorkIsSum, PTL
<1>2. (MkTypeOK => \A m \in Nat : \A p \in [0 .. m -> Objects] : IsWay(p, m) => SummedOver(p, m))'
  BY WayIsSummedOver, PTL
<1> QED
  BY <1>1, <1>2

LEMMA SkipIsLess ==
  ASSUME MarkInv, Skip
  PROVE  Work' < Work /\ Work' >= 0
<1>0. /\ UNCHANGED <<vars, ptr, marked, backPtr, backCtr, this, c>>
      /\ pc = "walk" /\ t >= 0 /\ t' = t - 1
  BY DEF Skip, graph
<1>1. MkTypeOK /\ MkTypeOK' /\ t \in Int
  BY InvSkip DEF MarkInv, MkTypeOK
<1>2. PICK m \in Nat : \E p \in [0 .. m -> Objects] : IsWay(p, m) /\ Seen(p, m)
  BY <1>0, OnTheWay
<1>3. PICK p \in [0 .. m -> Objects] : IsWay(p, m)
  BY <1>2
<1>4. IsWay(p, m)'
  BY <1>0, <1>3 DEF IsWay
<1>5. SummedOver(p, m) /\ SummedOver(p, m)'
  BY <1>1, <1>3, <1>4, WayIsSummedOver, WorkAfter
<1>6. OnWay' = OnWay /\ Unmarked' = Unmarked
  BY <1>0, <1>5 DEF SummedOver, Unmarked
<1>7. NextSum(backCtr, OnWay) \in Nat /\ NextSum(vars, Unmarked) \in Nat
  BY <1>5, NextSumTakesAny DEF SummedOver
<1>8. /\ Work = t + 1 + NextSum(backCtr, OnWay) + NextSum(vars, Unmarked)
      /\ Work' = (t - 1) + 1 + NextSum(backCtr, OnWay) + NextSum(vars, Unmarked)
  BY <1>0, <1>6, WorkIsSum, WorkAfter
<1> QED
  BY <1>0, <1>1, <1>7, <1>8

\* The object gone down to leaves the second sum and comes into the first.
LEMMA DescendIsLess ==
  ASSUME MarkInv, Descend
  PROVE  Work' < Work /\ Work' >= 0
<1> DEFINE n == ptr[c][t]
<1>0. /\ UNCHANGED <<vars, ptr, this>>
      /\ pc = "walk" /\ t >= 0 /\ n \notin marked \cup {Null}
      /\ marked' = marked \cup {n}
      /\ backCtr' = [backCtr EXCEPT ![n] = t]
      /\ c' = n /\ t' = vars[n] - 1
  BY DEF Descend, graph
<1>1. MkTypeOK /\ MkTypeOK' /\ t \in Nat /\ c \in Objects /\ this \in marked
  <2>1. MkTypeOK'
    BY InvDescend DEF MarkInv
  <2>2. MkTypeOK /\ c \in marked /\ marked \subseteq Objects /\ this \in marked
    BY <1>0, OnTheWay
  <2>3. t \in Nat
    BY <1>0, <2>2 DEF MkTypeOK
  <2> QED
    BY <2>1, <2>2, <2>3
<1>2. n \in Objects /\ vars[n] \in Nat
  BY <1>0, <1>1, MarkAssumption DEF MkTypeOK, Pointers, Targets
<1>3. PICK m \in Nat : \E p \in [0 .. m -> Objects] : IsWay(p, m) /\ Seen(p, m)
  BY <1>0, OnTheWay
<1>4. PICK p \in [0 .. m -> Objects] : IsWay(p, m)
  BY <1>3
<1>5. PICK q \in [0 .. m + 1 -> Objects] :
        /\ q[0] = n /\ \A k \in 0 .. m : q[k + 1] = p[k]
        /\ IsWay(q, m + 1)'
  BY <1>4, WayDown
<1> HIDE DEF n
<1>6. SummedOver(p, m) /\ SummedOver(q, m + 1)'
  <2>1. m + 1 \in Nat
    OBVIOUS
  <2> QED
    BY <1>1, <1>4, <1>5, <2>1, WayIsSummedOver, WorkAfter
<1>7. OnPath' = OnPath \cup {n}
  <2>1. OnPath = {p[k] : k \in 0 .. m} /\ OnPath' = {q[k] : k \in 0 .. m + 1}
    BY <1>6 DEF SummedOver
  <2>2. ASSUME NEW k \in 0 .. m + 1 PROVE q[k] \in OnPath \cup {n}
    <3>1. CASE k = 0
      BY <1>5, <3>1
    <3>2. CASE k # 0
      <4>1. k - 1 \in 0 .. m /\ q[(k - 1) + 1] = p[k - 1] /\ (k - 1) + 1 = k
        BY <1>5, <3>2
      <4> QED
        BY <2>1, <4>1
    <3> QED
      BY <3>1, <3>2
  <2>3. \A k \in 0 .. m : p[k] = q[k + 1] /\ k + 1 \in 0 .. m + 1
    BY <1>5
  <2>4. n = q[0] /\ 0 \in 0 .. m + 1
    BY <1>5
  <2>5. OnPath' \subseteq OnPath \cup {n}
    BY <2>1, <2>2
  <2>6. OnPath \subseteq OnPath'
    BY <2>1, <2>3
  <2>7. n \in OnPath'
    BY <2>1, <2>4
  <2> QED
    BY <2>5, <2>6, <2>7
<1>8. /\ n \in OnWay' /\ OnWay' \ {n} = OnWay
      /\ n \in Unmarked /\ Unmarked' = Unmarked \ {n}
  <2>1. OnWay = OnPath \ {this} /\ OnWay' = OnPath' \ {this} /\ OnPath \subseteq marked
    BY <1>0, <1>6 DEF SummedOver
  <2>2. n \notin marked /\ n # this
    BY <1>0, <1>1
  <2>3. n \in OnWay' /\ OnWay' \ {n} = OnWay
    BY <1>7, <2>1, <2>2
  <2>4. n \in Unmarked /\ Unmarked' = Unmarked \ {n}
    BY <1>0, <1>2 DEF Unmarked
  <2> QED
    BY <2>3, <2>4
<1>9. NextSum(backCtr', OnWay') = t + 1 + NextSum(backCtr, OnWay) /\ NextSum(backCtr, OnWay) \in Nat
  <2>1. /\ NextSum(backCtr', OnWay') = backCtr'[n] + 1 + NextSum(backCtr', OnWay' \ {n})
        /\ NextSum(backCtr, OnWay) \in Nat
    <3>1. /\ IsFiniteSet(OnWay') /\ \A o \in OnWay' : backCtr'[o] \in Nat
          /\ IsFiniteSet(OnWay) /\ \A o \in OnWay : backCtr[o] \in Nat
      BY <1>6 DEF SummedOver
    <3>2. \A x \in OnWay' :
            NextSum(backCtr', OnWay') = backCtr'[x] + 1 + NextSum(backCtr', OnWay' \ {x})
      BY <3>1, NextSumTakesAny
    <3>3. NextSum(backCtr, OnWay) \in Nat
      BY <3>1, NextSumTakesAny
    <3> QED
      BY <1>8, <3>2, <3>3
  <2>2. backCtr'[n] = t
    BY <1>0, <1>1, <1>2 DEF MkTypeOK
  <2>3. \A o \in OnWay : backCtr'[o] = backCtr[o]
    BY <1>0, <1>1, <1>6 DEF SummedOver, MkTypeOK
  <2>4. NextSum(backCtr', OnWay) = NextSum(backCtr, OnWay)
    BY <1>6, <2>3, NextSumOfEqual DEF SummedOver
  <2> QED
    BY <1>8, <2>1, <2>2, <2>4
<1>10. /\ NextSum(vars, Unmarked) = vars[n] + 1 + NextSum(vars', Unmarked')
       /\ NextSum(vars', Unmarked') \in Nat
  <2>1. /\ NextSum(vars, Unmarked \ {n}) \in Nat
        /\ NextSum(vars, Unmarked) = vars[n] + 1 + NextSum(vars, Unmarked \ {n})
    BY <1>6, <1>8, NextSumTakesAny DEF SummedOver
  <2> QED
    BY <1>0, <1>8, <2>1
<1>11. /\ Work = t + 1 + NextSum(backCtr, OnWay) + NextSum(vars, Unmarked)
       /\ Work' = (vars[n] - 1) + 1 + NextSum(backCtr', OnWay') + NextSum(vars', Unmarked')
  BY <1>0, WorkIsSum, WorkAfter
<1>12. ASSUME NEW ti \in Nat, NEW v \in Nat, NEW wa, NEW wb, NEW a \in Nat, NEW a2, NEW b, NEW b2 \in Nat,
              a2 = ti + 1 + a, b = v + 1 + b2, wa = ti + 1 + a + b, wb = (v - 1) + 1 + a2 + b2
       PROVE  wb < wa /\ wb >= 0
  BY <1>12
<1> HIDE DEF Work
<1> QED
  BY <1>1, <1>2, <1>9, <1>10, <1>11, <1>12

\* The object come back from leaves the first sum.
LEMMA ReturnIsLess ==
  ASSUME MarkInv, Return
  PROVE  Work' < Work /\ Work' >= 0
<1>0. /\ UNCHANGED <<vars, marked, backPtr, backCtr, this>>
      /\ pc = "walk" /\ t < 0 /\ c # this /\ t' = backCtr[c] - 1
  BY DEF Return, graph
<1>1. MkTypeOK /\ MkTypeOK' /\ t = -1 /\ c \in Objects
  BY <1>0, InvReturn, OnTheWay DEF MarkInv, MkTypeOK
<1>2. PICK m \in Nat : \E p \in [0 .. m -> Objects] : IsWay(p, m) /\ Seen(p, m)
  BY <1>0, OnTheWay
<1>3. PICK p \in [0 .. m -> Objects] : IsWay(p, m)
  BY <1>2
<1>4. m - 1 \in Nat
  BY <1>3, WayUp
<1>5. PICK q \in [0 .. m - 1 -> Objects] :
        /\ \A k \in 0 .. m - 1 : q[k] = p[k + 1]
        /\ IsWay(q, m - 1)'
  BY <1>3, WayUp
<1>6. SummedOver(p, m) /\ SummedOver(q, m - 1)'
  BY <1>1, <1>3, <1>4, <1>5, WayIsSummedOver, WorkAfter
<1>7. OnPath' = OnPath \ {c} /\ c \in OnPath
  <2>1. OnPath = {p[k] : k \in 0 .. m} /\ OnPath' = {q[k] : k \in 0 .. m - 1}
    BY <1>6 DEF SummedOver
  <2>2. p[0] = c /\ 0 \in 0 .. m
    BY <1>3 DEF IsWay
  <2>3. ASSUME NEW k \in 0 .. m - 1 PROVE q[k] \in OnPath \ {c}
    <3>1. q[k] = p[k + 1] /\ k + 1 \in 0 .. m /\ k + 1 # 0
      BY <1>5
    <3>2. p[k + 1] # p[0]
      BY <1>3, <2>2, <3>1 DEF IsWay
    <3> QED
      BY <2>1, <2>2, <3>1, <3>2
  <2>4. ASSUME NEW k \in 0 .. m, p[k] # c PROVE p[k] \in OnPath'
    <3>1. k - 1 \in 0 .. m - 1 /\ q[k - 1] = p[(k - 1) + 1] /\ (k - 1) + 1 = k
      BY <1>5, <2>2, <2>4
    <3> QED
      BY <2>1, <3>1
  <2> QED
    BY <2>1, <2>2, <2>3, <2>4
<1>8. /\ c \in OnWay /\ OnWay' = OnWay \ {c} /\ Unmarked' = Unmarked
  BY <1>0, <1>6, <1>7 DEF SummedOver, Unmarked
<1>9. /\ backCtr[c] \in Nat /\ NextSum(vars, Unmarked) \in Nat
      /\ NextSum(backCtr, OnWay \ {c}) \in Nat
      /\ NextSum(backCtr, OnWay) = backCtr[c] + 1 + NextSum(backCtr, OnWay \ {c})
  <2>1. /\ IsFiniteSet(OnWay) /\ \A o \in OnWay : backCtr[o] \in Nat
        /\ IsFiniteSet(Unmarked) /\ \A o \in Unmarked : vars[o] \in Nat
    BY <1>6 DEF SummedOver
  <2>2. \A x \in OnWay : /\ NextSum(backCtr, OnWay \ {x}) \in Nat
                         /\ NextSum(backCtr, OnWay) = backCtr[x] + 1 + NextSum(backCtr, OnWay \ {x})
    BY <2>1, NextSumTakesAny
  <2>3. NextSum(vars, Unmarked) \in Nat
    BY <2>1, NextSumTakesAny
  <2> QED
    BY <1>8, <2>1, <2>2, <2>3
<1>10. /\ Work = t + 1 + NextSum(backCtr, OnWay) + NextSum(vars, Unmarked)
       /\ Work' = (backCtr[c] - 1) + 1 + NextSum(backCtr, OnWay \ {c}) + NextSum(vars, Unmarked)
  BY <1>0, <1>8, WorkIsSum, WorkAfter
<1> QED
  BY <1>1, <1>9, <1>10

\* No call of collectable_mark goes round for ever: of the pointers to follow, the way back
\* and the objects without a mark, each turn of the loop uses something up (495-530).
THEOREM EveryWalkEnds == Spec => WalkEnds
<1>1. ASSUME MarkInv, [Next]_mkVars
      PROVE  [pc = "walk" /\ pc' = "walk" => Work' < Work /\ Work' >= 0]_mkVars
  <2> SUFFICES ASSUME Next, pc = "walk", pc' = "walk"
               PROVE  Work' < Work /\ Work' >= 0
    BY <1>1
  <2>1. Skip \/ Descend \/ Return
    BY DEF Next, StartMarking, MarkRoot, Finish, Sweep
  <2> QED
    BY <1>1, <2>1, SkipIsLess, DescendIsLess, ReturnIsLess
<1> QED
  BY <1>1, MarkInductive, PTL DEF Spec, WalkEnds

-----------------------------------------------------------------------------
(* HandlePool: the inductive invariant *)

\* Where a handle may be: with an object, in the first block, or in one of the piles, which
\* are the lists of threads, of blocks, of threads that ended, and the collector's two.
InObject == <<"object", 0>>
InFirst == <<"first", 0>>
InUnqueued == <<"unqueued", 0>>
InCursor == <<"cursor", 0>>
InList(n) == <<"list", n>>
InSlot(i) == <<"slot", i>>
InReleased(k) == <<"released", k>>
Piles == {InUnqueued, InCursor} \cup ({"list"} \X Numbers) \cup ({"slot"} \X Indices)
           \cup ({"released"} \X Nat)

\* Each pile is a list that lk links from its top, with the handles at 1, 2, ... from its end.
Stacked(w, p, top, x) ==
  \/ top[x] = End /\ \A h \in HandleSet : w[h] # x
  \/ /\ top[x] \in HandleSet /\ w[top[x]] = x
     /\ \A h \in HandleSet : w[h] = x => p[h] <= p[top[x]]
Below(lk, w, p, h) ==
  IF p[h] = 1 THEN lk[h] = End
  ELSE lk[h] \in HandleSet /\ w[lk[h]] = w[h] /\ p[lk[h]] = p[h] - 1
Piled(lk, w, p, top) ==
  /\ w \in [HandleSet -> Piles \cup {InObject, InFirst}] /\ p \in [HandleSet -> Nat \ {0}]
  /\ top \in [Piles -> HandleSet \cup {End}]
  /\ \A x \in Piles : Stacked(w, p, top, x)
  /\ \A h \in HandleSet : w[h] \in Piles => Below(lk, w, p, h)
  /\ \A g, h \in HandleSet : w[g] = w[h] /\ w[h] \in Piles /\ p[g] = p[h] => g = h

FullSlots == BlockSlots \ {FirstSlot}
Released(k) == IF k \in 1 .. Len(released) THEN released[Len(released) + 1 - k] ELSE End
\* The tops of the piles are the variables of the pool.
Tops(top) ==
  /\ \A n \in Numbers : top[InList(n)] = IF n \in given THEN End ELSE handleList[n]
  /\ \A i \in Indices : top[InSlot(i)] = IF i \in FullSlots THEN data[i] ELSE End
  /\ \A k \in Nat : top[InReleased(k)] = Released(k)
  /\ top[InUnqueued] = prevUnqueued /\ top[InCursor] = cursor

\* The first block stays at the bottom of the queue with all of its handles; handle 1 is
\* also the list of the thread with the first number until that allocates.
FirstBlock(w, p) ==
  /\ \A h \in HandleSet : w[h] = InFirst <=> h \in 2 .. BlockSize
  /\ \A h \in 2 .. BlockSize : link[h] = h - 1
  /\ data[FirstSlot] = BlockSize
  /\ stack["fifo"] # <<>> /\ stack["fifo"][Len(stack["fifo"])] = FirstSlot
  /\ IF First \in listed THEN w[1] = InObject
     ELSE handleList[First] = 1 /\ w[1] = InList(First) /\ p[1] = 1
Owned(w) ==
  \A h \in HandleSet : /\ objects[h] = IF w[h] = InObject THEN 1 ELSE 0
                       /\ w[h] = InObject => link[h] = Object
\* Every block has all its handles, and the collector's one as many as unqueued says.
BlocksOK(p) ==
  /\ \A i \in FullSlots : data[i] \in HandleSet /\ p[data[i]] = BlockSize
  /\ unqueued = IF prevUnqueued = End THEN 0 ELSE p[prevUnqueued]
  /\ held[Collector] # -1 <=> unqueued = BlockSize

OnStack(q) == {stack[q][k] : k \in DOMAIN stack[q]}
\* No slot is in two places, and lost has those that are in none: one for each list given away.
SlotsOK(lost) ==
  /\ \A q \in Lists : \A j, k \in DOMAIN stack[q] : stack[q][j] = stack[q][k] => j = k
  /\ OnStack("fifo") \cap OnStack("free") = {}
  /\ \A u \in Threads : held[u] \notin OnStack("fifo") \cup OnStack("free")
  /\ \A u, v \in Threads : held[u] # -1 /\ held[u] = held[v] => u = v
  /\ \A i \in Indices : \/ i \in OnStack("fifo") \cup OnStack("free")
                        \/ \E u \in Threads : held[u] = i
                        \/ \E n \in given : lost[n] = i
HandsFull ==
  /\ \A n \in Numbers : held[n] # -1 => n \in taken /\ (handleList[n] # End => n \in listed)

Sound(w, p, top, lost) ==
  /\ Piled(link, w, p, top) /\ Tops(top) /\ FirstBlock(w, p) /\ Owned(w) /\ BlocksOK(p)
  /\ SlotsOK(lost) /\ lost \in [Numbers -> Indices] /\ HandsFull
PoolInv ==
  /\ PoolTypeOK
  /\ wild => broken # {}
  /\ broken = {} => \E w, p, top, lost : Sound(w, p, top, lost)

-----------------------------------------------------------------------------
(* Piles of handles *)

LEMMA PoolFacts ==
  /\ Collector \in Threads /\ IsFiniteSet(Numbers) /\ First \in Numbers
  /\ Numbers \subseteq Threads /\ Collector \notin Numbers /\ Threads = Numbers \cup {Collector}
  /\ BlockSize \in Nat /\ BlockSize >= 2 /\ Blocks \in Nat /\ Blocks >= 2
  /\ MaxLen = Blocks + Cardinality(Numbers) + 1 /\ Cardinality(Numbers) \in Nat \ {0}
  /\ MaxLen \in Nat /\ MaxLen > Blocks
  /\ End \notin HandleSet /\ Object \notin HandleSet /\ End # Object
<1>1. IsFiniteSet(Numbers)
  BY PoolAssumption, FS_Subset DEF Numbers
<1>2. Cardinality(Numbers) \in Nat \ {0}
  BY <1>1, PoolAssumption, FS_CardinalityType, FS_EmptySet
<1>3. First \in Numbers
  BY PoolAssumption DEF First
<1>4. BlockSize \in Nat /\ BlockSize >= 2 /\ Blocks \in Nat /\ Blocks >= 2
  BY PoolAssumption
<1> QED
  BY <1>1, <1>2, <1>3, <1>4, PoolAssumption DEF Numbers

LEMMA Sizes ==
  /\ BlockSize * Blocks \in Nat /\ BlockSize * Blocks >= 2 * BlockSize
  /\ HandleSet = 1 .. BlockSize * Blocks - 1 /\ HandleSet \subseteq Nat \ {0}
  /\ 1 .. BlockSize \subseteq HandleSet
  /\ IsFiniteSet(HandleSet) /\ Cardinality(HandleSet) = BlockSize * Blocks - 1
  /\ FirstSlot \in Indices /\ FirstSlot = MaxLen - 1
<1>1. BlockSize * Blocks \in Nat /\ BlockSize * Blocks >= 2 * BlockSize
  <2>1. BlockSize \in Nat /\ Blocks \in Nat /\ Blocks >= 2
    BY PoolFacts
  <2>2. Blocks - 2 \in Nat /\ Blocks = (Blocks - 2) + 2
    BY <2>1
  <2>3. BlockSize * (Blocks - 2) \in Nat
    BY <2>1, <2>2
  <2>4. BlockSize * Blocks = BlockSize * (Blocks - 2) + 2 * BlockSize
    BY <2>1
  <2> QED
    BY <2>1, <2>3, <2>4
<1>2. 1 .. BlockSize \subseteq 1 .. BlockSize * Blocks - 1
  BY <1>1, PoolFacts
<1>3. IsFiniteSet(HandleSet) /\ Cardinality(HandleSet) = BlockSize * Blocks - 1
  <2> DEFINE N == BlockSize * Blocks - 1
  <2>1. N \in Nat /\ N >= 1 /\ HandleSet = 1 .. N
    BY <1>1, PoolFacts DEF HandleSet
  <2> HIDE DEF N
  <2>2. IsFiniteSet(1 .. N) /\ Cardinality(1 .. N) = N
    BY <2>1, FS_Interval
  <2> QED
    BY <2>1, <2>2 DEF N
<1> QED
  BY <1>1, <1>2, <1>3, PoolFacts DEF HandleSet, FirstSlot, Indices

IsNumbered(x) ==
  \/ \E n \in Numbers : x = InList(n)
  \/ \E i \in Indices : x = InSlot(i)
  \/ \E k \in Nat : x = InReleased(k)
\* The piles have names of their own.
LEMMA PileNames ==
  /\ InUnqueued \in Piles /\ InCursor \in Piles /\ InObject \notin Piles /\ InFirst \notin Piles
  /\ \A n \in Numbers : InList(n) \in Piles
  /\ \A i \in Indices : InSlot(i) \in Piles
  /\ \A k \in Nat : InReleased(k) \in Piles
  /\ \A x \in Piles : x \in {InUnqueued, InCursor} \/ IsNumbered(x)
  /\ InUnqueued # InCursor /\ InObject # InFirst
  /\ \A n : InList(n) # InUnqueued /\ InList(n) # InCursor
  /\ \A n : InSlot(n) # InUnqueued /\ InSlot(n) # InCursor
  /\ \A n : InReleased(n) # InUnqueued /\ InReleased(n) # InCursor
  /\ \A n, m : InList(n) # InSlot(m) /\ InList(n) # InReleased(m) /\ InSlot(n) # InReleased(m)
  /\ \A n, m : InList(n) = InList(m) => n = m
  /\ \A n, m : InSlot(n) = InSlot(m) => n = m
  /\ \A n, m : InReleased(n) = InReleased(m) => n = m
<1>1. \A x \in Piles : x \in {InUnqueued, InCursor} \/ IsNumbered(x)
  <2> SUFFICES ASSUME NEW x \in Piles, x # InUnqueued, x # InCursor
               PROVE  IsNumbered(x)
    OBVIOUS
  <2>1. CASE x \in {"list"} \X Numbers
    BY <2>1 DEF InList, IsNumbered
  <2>2. CASE x \in {"slot"} \X Indices
    BY <2>2 DEF InSlot, IsNumbered
  <2>3. CASE x \in {"released"} \X Nat
    BY <2>3 DEF InReleased, IsNumbered
  <2> QED
    BY <2>1, <2>2, <2>3 DEF Piles
<1>2. /\ InUnqueued \in Piles /\ InCursor \in Piles /\ InObject \notin Piles /\ InFirst \notin Piles
      /\ \A n \in Numbers : InList(n) \in Piles
      /\ \A i \in Indices : InSlot(i) \in Piles
      /\ \A k \in Nat : InReleased(k) \in Piles
  BY DEF Piles, InUnqueued, InCursor, InObject, InFirst, InList, InSlot, InReleased
<1>3. /\ InUnqueued # InCursor /\ InObject # InFirst
      /\ \A n : InList(n) # InUnqueued /\ InList(n) # InCursor
      /\ \A n : InSlot(n) # InUnqueued /\ InSlot(n) # InCursor
      /\ \A n : InReleased(n) # InUnqueued /\ InReleased(n) # InCursor
  BY DEF InUnqueued, InCursor, InObject, InFirst, InList, InSlot, InReleased
<1>4. \A n, m : InList(n) # InSlot(m) /\ InList(n) # InReleased(m) /\ InSlot(n) # InReleased(m)
  BY DEF InList, InSlot, InReleased
<1>5. /\ \A n, m : InList(n) = InList(m) => n = m
      /\ \A n, m : InSlot(n) = InSlot(m) => n = m
      /\ \A n, m : InReleased(n) = InReleased(m) => n = m
  BY DEF InList, InSlot, InReleased
<1> QED
  BY <1>1, <1>2, <1>3, <1>4, <1>5

\* The handle on top of a pile is taken from it.
LEMMA TakeTop ==
  ASSUME NEW lk, NEW w, NEW p, NEW top, Piled(lk, w, p, top),
         NEW x \in Piles, top[x] \in HandleSet,
         NEW lk2, \A g \in HandleSet \ {top[x]} : lk2[g] = lk[g]
  PROVE  /\ Piled(lk2, [w EXCEPT ![top[x]] = InObject], p, [top EXCEPT ![x] = lk[top[x]]])
         /\ w[top[x]] = x /\ lk[top[x]] \in HandleSet \cup {End}
<1> DEFINE h == top[x]
           w2 == [w EXCEPT ![h] = InObject]
           top2 == [top EXCEPT ![x] = lk[h]]
<1>1. /\ w[h] = x /\ h \in HandleSet /\ h # End
      /\ \A g \in HandleSet : w[g] = x => p[g] <= p[h]
  BY PoolFacts DEF Piled, Stacked
<1>2. /\ w \in [HandleSet -> Piles \cup {InObject, InFirst}] /\ p \in [HandleSet -> Nat \ {0}]
      /\ top \in [Piles -> HandleSet \cup {End}]
      /\ \A g \in HandleSet : w[g] \in Piles => Below(lk, w, p, g)
      /\ \A f, g \in HandleSet : w[f] = w[g] /\ w[g] \in Piles /\ p[f] = p[g] => f = g
      /\ \A y \in Piles : Stacked(w, p, top, y)
  BY DEF Piled
<1>3. lk[h] \in HandleSet \cup {End}
  BY <1>1, <1>2 DEF Below
<1> HIDE DEF h
<1>4. /\ w2 \in [HandleSet -> Piles \cup {InObject, InFirst}] /\ top2 \in [Piles -> HandleSet \cup {End}]
      /\ w2[h] = InObject /\ top2[x] = lk[h]
      /\ \A g \in HandleSet \ {h} : w2[g] = w[g]
      /\ \A y \in Piles \ {x} : top2[y] = top[y]
  BY <1>1, <1>2, <1>3
<1> HIDE DEF w2, top2
<1>5. InObject \notin Piles
  BY PileNames
<1>6. Stacked(w2, p, top2, x)
  <2>1. CASE p[h] = 1
    <3>1. lk[h] = End
      BY <1>1, <1>2, <2>1 DEF Below
    <3>2. ASSUME NEW g \in HandleSet, w2[g] = x PROVE FALSE
      <4>1. g # h /\ w[g] = x
        BY <1>4, <1>5, <3>2
      <4>2. p[g] = p[h]
        BY <4>1, <1>1, <1>2, <2>1
      <4> QED
        BY <4>1, <4>2, <1>1, <1>2
    <3> QED
      BY <3>1, <3>2, <1>4 DEF Stacked
  <2>2. CASE p[h] # 1
    <3>1. lk[h] \in HandleSet /\ w[lk[h]] = x /\ p[lk[h]] = p[h] - 1
      BY <1>1, <1>2, <2>2 DEF Below
    <3>2. lk[h] # h
      BY <3>1, <1>1, <1>2
    <3>3. ASSUME NEW g \in HandleSet, w2[g] = x PROVE p[g] <= p[lk[h]]
      <4>1. g # h /\ w[g] = x
        BY <1>4, <1>5, <3>3
      <4>2. p[g] <= p[h] /\ p[g] # p[h] /\ p[g] \in Nat /\ p[h] \in Nat
        BY <4>1, <1>1, <1>2
      <4> QED
        BY <4>2, <3>1
    <3> QED
      BY <3>1, <3>2, <3>3, <1>4 DEF Stacked
  <2> QED
    BY <2>1, <2>2
<1>7. ASSUME NEW y \in Piles, y # x PROVE Stacked(w2, p, top2, y)
  <2>1. \A g \in HandleSet : w2[g] = y <=> w[g] = y
    BY <1>1, <1>4, <1>5, <1>7
  <2>2. top2[y] = top[y] /\ Stacked(w, p, top, y)
    BY <1>2, <1>4, <1>7
  <2> QED
    BY <2>1, <2>2 DEF Stacked
<1>8. ASSUME NEW g \in HandleSet, w2[g] \in Piles PROVE Below(lk2, w2, p, g)
  <2>1. g # h /\ w2[g] = w[g] /\ lk2[g] = lk[g]
    BY <1>4, <1>5, <1>8 DEF h
  <2>2. Below(lk, w, p, g)
    BY <2>1, <1>2, <1>8
  <2>3. p[g] # 1 => lk[g] # h
    <3> SUFFICES ASSUME p[g] # 1, lk[g] = h PROVE FALSE
      OBVIOUS
    <3>1. w[g] = x /\ p[h] = p[g] - 1
      BY <2>2, <1>1 DEF Below
    <3>2. p[g] <= p[h] /\ p[g] \in Nat
      BY <3>1, <1>1, <1>2
    <3> QED
      BY <3>1, <3>2
  <2> QED
    BY <2>1, <2>2, <2>3, <1>4 DEF Below
<1>9. \A f, g \in HandleSet : w2[f] = w2[g] /\ w2[g] \in Piles /\ p[f] = p[g] => f = g
  BY <1>2, <1>4, <1>5
<1>10. Piled(lk2, w2, p, top2)
  BY <1>2, <1>4, <1>6, <1>7, <1>8, <1>9 DEF Piled
<1> QED
  BY <1>1, <1>3, <1>10 DEF w2, top2, h

\* A handle is put on a pile.
Higher(p, top, x, h) == [p EXCEPT ![h] = IF top[x] = End THEN 1 ELSE p[top[x]] + 1]
LEMMA PutOnTop ==
  ASSUME NEW lk, NEW w, NEW p, NEW top, Piled(lk, w, p, top),
         NEW x \in Piles, NEW h \in HandleSet, w[h] \notin Piles,
         NEW lk2, lk2[h] = top[x], \A g \in HandleSet \ {h} : lk2[g] = lk[g]
  PROVE  Piled(lk2, [w EXCEPT ![h] = x], Higher(p, top, x, h), [top EXCEPT ![x] = h])
<1> DEFINE w2 == [w EXCEPT ![h] = x]
           p2 == Higher(p, top, x, h)
           top2 == [top EXCEPT ![x] = h]
           m == IF top[x] = End THEN 1 ELSE p[top[x]] + 1
<1>1. /\ w \in [HandleSet -> Piles \cup {InObject, InFirst}] /\ p \in [HandleSet -> Nat \ {0}]
      /\ top \in [Piles -> HandleSet \cup {End}]
      /\ \A g \in HandleSet : w[g] \in Piles => Below(lk, w, p, g)
      /\ \A f, g \in HandleSet : w[f] = w[g] /\ w[g] \in Piles /\ p[f] = p[g] => f = g
      /\ \A y \in Piles : Stacked(w, p, top, y)
  BY DEF Piled
<1>2. m \in Nat \ {0}
  BY <1>1
<1>3. /\ w2 \in [HandleSet -> Piles \cup {InObject, InFirst}] /\ p2 \in [HandleSet -> Nat \ {0}]
      /\ top2 \in [Piles -> HandleSet \cup {End}]
      /\ w2[h] = x /\ p2[h] = m /\ top2[x] = h
      /\ \A g \in HandleSet \ {h} : w2[g] = w[g] /\ p2[g] = p[g]
      /\ \A y \in Piles \ {x} : top2[y] = top[y]
  BY <1>1, <1>2 DEF Higher
<1>4. \A g \in HandleSet : w[g] = x => g # h /\ p[g] < m
  <2> SUFFICES ASSUME NEW g \in HandleSet, w[g] = x PROVE g # h /\ p[g] < m
    OBVIOUS
  <2>1. Stacked(w, p, top, x) /\ g # h
    BY <1>1
  <2>2. top[x] \in HandleSet /\ p[g] <= p[top[x]]
    BY <2>1 DEF Stacked
  <2>3. top[x] # End /\ p[g] \in Nat /\ p[top[x]] \in Nat
    BY <2>2, <1>1, PoolFacts
  <2> QED
    BY <2>1, <2>2, <2>3
<1>5. /\ m = 1 => top[x] = End
      /\ m # 1 => top[x] \in HandleSet /\ top[x] # h /\ w[top[x]] = x /\ p[top[x]] = m - 1
  <2>1. Stacked(w, p, top, x)
    BY <1>1
  <2>2. CASE top[x] = End
    BY <2>2
  <2>3. CASE top[x] # End
    <3>1. top[x] \in HandleSet /\ w[top[x]] = x
      BY <2>1, <2>3 DEF Stacked
    <3>2. p[top[x]] \in Nat \ {0} /\ m = p[top[x]] + 1
      BY <3>1, <1>1, <2>3
    <3> QED
      BY <3>1, <3>2, <1>4
  <2> QED
    BY <2>2, <2>3
<1> HIDE DEF w2, p2, top2, m
<1>6. Stacked(w2, p2, top2, x)
  <2>1. ASSUME NEW g \in HandleSet, w2[g] = x PROVE p2[g] <= p2[h]
    <3>1. CASE g = h
      BY <3>1, <1>2, <1>3
    <3>2. CASE g # h
      <4>1. w[g] = x /\ p2[g] = p[g] /\ p[g] \in Nat
        BY <3>2, <2>1, <1>1, <1>3
      <4> QED
        BY <4>1, <1>2, <1>3, <1>4
    <3> QED
      BY <3>1, <3>2
  <2> QED
    BY <2>1, <1>3 DEF Stacked
<1>7. ASSUME NEW y \in Piles, y # x PROVE Stacked(w2, p2, top2, y)
  <2>1. \A g \in HandleSet : w2[g] = y <=> w[g] = y
    BY <1>3, <1>7
  <2>2. top2[y] = top[y] /\ Stacked(w, p, top, y)
    BY <1>1, <1>3, <1>7
  <2>3. \A g \in HandleSet : w[g] = y => p2[g] = p[g]
    BY <1>3, <1>7
  <2> QED
    BY <2>1, <2>2, <2>3 DEF Stacked
<1>8. ASSUME NEW g \in HandleSet, w2[g] \in Piles PROVE Below(lk2, w2, p2, g)
  <2>1. CASE g = h
    BY <2>1, <1>2, <1>3, <1>5 DEF Below
  <2>2. CASE g # h
    <3>1. w2[g] = w[g] /\ lk2[g] = lk[g] /\ p2[g] = p[g] /\ Below(lk, w, p, g)
      BY <2>2, <1>1, <1>3, <1>8
    <3>2. p[g] # 1 => lk[g] # h
      BY <3>1, <1>8 DEF Below
    <3> QED
      BY <3>1, <3>2, <1>3 DEF Below
  <2> QED
    BY <2>1, <2>2
<1>9. ASSUME NEW f \in HandleSet, NEW g \in HandleSet, w2[f] = w2[g], w2[g] \in Piles, p2[f] = p2[g]
      PROVE  f = g
  <2>1. CASE f # h /\ g # h
    BY <2>1, <1>1, <1>3, <1>9
  <2>2. CASE f = h /\ g # h
    <3>1. w[g] = x /\ p[g] = m
      BY <2>2, <1>3, <1>9
    <3> QED
      BY <3>1, <1>2, <1>4
  <2>3. CASE g = h /\ f # h
    <3>1. w[f] = x /\ p[f] = m
      BY <2>3, <1>3, <1>9
    <3> QED
      BY <3>1, <1>2, <1>4
  <2> QED
    BY <2>1, <2>2, <2>3
<1>10. Piled(lk2, w2, p2, top2)
  BY <1>3, <1>6, <1>7, <1>8, <1>9 DEF Piled
<1> QED
  BY <1>10 DEF w2, p2, top2

\* A pile is moved as a whole to where there is none.
Renamed(w, x, y) == [h \in HandleSet |-> IF w[h] = x THEN y ELSE w[h]]
LEMMA MovePile ==
  ASSUME NEW lk, NEW w, NEW p, NEW top, Piled(lk, w, p, top),
         NEW x \in Piles, NEW y \in Piles, x # y, top[y] = End
  PROVE  Piled(lk, Renamed(w, x, y), p, [top EXCEPT ![y] = top[x], ![x] = End])
<1> DEFINE w2 == Renamed(w, x, y)
           top2 == [top EXCEPT ![y] = top[x], ![x] = End]
<1>1. /\ w \in [HandleSet -> Piles \cup {InObject, InFirst}] /\ p \in [HandleSet -> Nat \ {0}]
      /\ top \in [Piles -> HandleSet \cup {End}]
      /\ \A g \in HandleSet : w[g] \in Piles => Below(lk, w, p, g)
      /\ \A f, g \in HandleSet : w[f] = w[g] /\ w[g] \in Piles /\ p[f] = p[g] => f = g
      /\ \A z \in Piles : Stacked(w, p, top, z)
  BY DEF Piled
<1>2. \A g \in HandleSet : w[g] # y
  <2>1. Stacked(w, p, top, y)
    BY <1>1
  <2> QED
    BY <2>1, PoolFacts DEF Stacked
<1>3. /\ w2 \in [HandleSet -> Piles \cup {InObject, InFirst}] /\ top2 \in [Piles -> HandleSet \cup {End}]
      /\ top2[y] = top[x] /\ top2[x] = End /\ \A z \in Piles \ {x, y} : top2[z] = top[z]
      /\ \A g \in HandleSet : w2[g] = IF w[g] = x THEN y ELSE w[g]
  BY <1>1 DEF Renamed
<1> HIDE DEF w2, top2
<1>4. Stacked(w2, p, top2, x)
  BY <1>3 DEF Stacked
<1>5. Stacked(w2, p, top2, y)
  <2>1. \A g \in HandleSet : w2[g] = y <=> w[g] = x
    BY <1>2, <1>3
  <2>2. Stacked(w, p, top, x)
    BY <1>1
  <2> QED
    BY <2>1, <2>2, <1>3 DEF Stacked
<1>6. ASSUME NEW z \in Piles, z # x, z # y PROVE Stacked(w2, p, top2, z)
  <2>1. \A g \in HandleSet : w2[g] = z <=> w[g] = z
    BY <1>3, <1>6
  <2>2. top2[z] = top[z] /\ Stacked(w, p, top, z)
    BY <1>1, <1>3, <1>6
  <2> QED
    BY <2>1, <2>2 DEF Stacked
<1>7. ASSUME NEW g \in HandleSet, w2[g] \in Piles PROVE Below(lk, w2, p, g)
  <2>1. w[g] \in Piles
    BY <1>3, <1>7
  <2>2. Below(lk, w, p, g)
    BY <2>1, <1>1
  <2> QED
    BY <2>2, <1>3 DEF Below
<1>8. ASSUME NEW f \in HandleSet, NEW g \in HandleSet, w2[f] = w2[g], w2[g] \in Piles, p[f] = p[g]
      PROVE  f = g
  <2>1. w[f] = w[g] /\ w[g] \in Piles
    BY <1>2, <1>3, <1>8
  <2> QED
    BY <2>1, <1>1, <1>8
<1>9. Piled(lk, w2, p, top2)
  BY <1>1, <1>3, <1>4, <1>5, <1>6, <1>7, <1>8 DEF Piled
<1> QED
  BY <1>9 DEF w2, top2

-----------------------------------------------------------------------------
(* What Chain computes *)

\* The links from h go through S, with the handles of S at 1, 2, ... from the end.
Ranked(S, r, h) ==
  /\ S \subseteq HandleSet /\ h \in S /\ r[h] \in Nat
  /\ \A g \in S : /\ r[g] \in 1 .. r[h]
                  /\ IF r[g] = 1 THEN link[g] \notin HandleSet ELSE link[g] \in S /\ r[link[g]] = r[g] - 1
  /\ \A f, g \in S : r[f] = r[g] => f = g

LEMMA EveryRank ==
  ASSUME NEW S, NEW r, NEW h, Ranked(S, r, h)
  PROVE  \A k \in 1 .. r[h] : \E g \in S : r[g] = k
<1> DEFINE T == {d \in Nat : d < r[h] => \E g \in S : r[g] = r[h] - d}
<1>1. h \in S /\ r[h] \in Nat /\ \A g \in S : r[g] # 1 => link[g] \in S /\ r[link[g]] = r[g] - 1
  BY DEF Ranked
<1>2. 0 \in T
  BY <1>1
<1>3. ASSUME NEW d \in Nat, d \in T PROVE d + 1 \in T
  <2> SUFFICES ASSUME d + 1 < r[h] PROVE \E g \in S : r[g] = r[h] - (d + 1)
    OBVIOUS
  <2>1. PICK g \in S : r[g] = r[h] - d
    BY <1>1, <1>3
  <2>2. r[g] # 1
    BY <2>1, <1>1
  <2>3. link[g] \in S /\ r[link[g]] = r[g] - 1
    BY <2>2, <1>1
  <2>4. r[link[g]] = r[h] - (d + 1)
    BY <2>1, <2>3, <1>1
  <2> QED
    BY <2>3, <2>4
<1> HIDE DEF T
<1>4. Nat \subseteq T
  BY <1>2, <1>3, CountUp
<1>5. ASSUME NEW k \in 1 .. r[h] PROVE \E g \in S : r[g] = k
  <2>1. r[h] - k \in Nat /\ r[h] - k < r[h] /\ r[h] - (r[h] - k) = k
    BY <1>1
  <2>2. r[h] - k \in T
    BY <2>1, <1>4
  <2> QED
    BY <2>1, <2>2 DEF T
<1> QED
  BY <1>5

LEMMA RankIsSmall ==
  ASSUME NEW S, NEW r, NEW h, Ranked(S, r, h)
  PROVE  r[h] <= BlockSize * Blocks
<1> DEFINE f == [k \in 1 .. r[h] |-> CHOOSE g \in S : r[g] = k]
<1>1. S \subseteq HandleSet /\ r[h] \in Nat
  BY DEF Ranked
<1>2. \A k \in 1 .. r[h] : f[k] \in S /\ r[f[k]] = k
  BY EveryRank
<1>3. f \in Injection(1 .. r[h], HandleSet)
  BY <1>1, <1>2 DEF Injection, IsInjective
<1>4. IsFiniteSet(HandleSet) /\ Cardinality(HandleSet) = BlockSize * Blocks - 1
  BY Sizes
<1>5. Cardinality(1 .. r[h]) = r[h]
  BY <1>1, FS_Interval
<1>6. Cardinality(1 .. r[h]) <= Cardinality(HandleSet)
  BY <1>3, <1>4, FS_Injection
<1> QED
  BY <1>1, <1>4, <1>5, <1>6, Sizes

\* f is the function that Chain is computed with, here up to N links.
IsAhead(f, h, N) ==
  f = [k \in 0 .. N |-> IF k = 0 THEN {h} \cap HandleSet
                        ELSE f[k - 1] \cup ({link[i] : i \in f[k - 1]} \cap HandleSet)]

LEMMA AheadExists ==
  ASSUME NEW h, NEW N \in Nat
  PROVE  \E f : IsAhead(f, h, N)
<1> DEFINE T == {m \in Nat : \E f : IsAhead(f, h, m)}
           Onward(s) == s \cup ({link[i] : i \in s} \cap HandleSet)
<1>1. 0 \in T
  <2> DEFINE f == [k \in 0 .. 0 |-> {h} \cap HandleSet]
  <2>1. IsAhead(f, h, 0)
    BY DEF IsAhead
  <2> QED
    BY <2>1
<1>2. ASSUME NEW m \in Nat, m \in T PROVE m + 1 \in T
  <2>1. PICK f : IsAhead(f, h, m)
    BY <1>2
  <2> DEFINE g == [k \in 0 .. m + 1 |-> IF k = 0 THEN {h} \cap HandleSet ELSE Onward(f[k - 1])]
  <2>2. ASSUME NEW k \in 0 .. m PROVE f[k] = g[k]
    <3>1. f[k] = IF k = 0 THEN {h} \cap HandleSet ELSE Onward(f[k - 1])
      BY <2>1 DEF IsAhead
    <3> QED
      BY <3>1
  <2>3. ASSUME NEW k \in 0 .. m + 1
        PROVE  g[k] = IF k = 0 THEN {h} \cap HandleSet ELSE Onward(g[k - 1])
    <3>1. CASE k = 0
      BY <3>1
    <3>2. CASE k # 0
      <4>1. k - 1 \in 0 .. m
        BY <3>2
      <4>2. f[k - 1] = g[k - 1]
        BY <4>1, <2>2
      <4>3. g[k] = Onward(f[k - 1])
        BY <3>2
      <4> HIDE DEF g
      <4> QED
        BY <3>2, <4>2, <4>3
    <3> QED
      BY <3>1, <3>2
  <2>4. g = [k \in 0 .. m + 1 |-> IF k = 0 THEN {h} \cap HandleSet ELSE Onward(g[k - 1])]
    <3> DEFINE g2 == [k \in 0 .. m + 1 |-> IF k = 0 THEN {h} \cap HandleSet ELSE Onward(g[k - 1])]
    <3>1. DOMAIN g = 0 .. m + 1
      OBVIOUS
    <3>2. g = [k \in 0 .. m + 1 |-> g[k]]
      OBVIOUS
    <3> HIDE DEF g
    <3> QED
      BY <3>1, <3>2, <2>3
  <2>5. IsAhead(g, h, m + 1)
    <3> HIDE DEF g
    <3> QED
      BY <2>4 DEF IsAhead
  <2> QED
    BY <2>5
<1> HIDE DEF T
<1>3. N \in T
  BY <1>1, <1>2, CountUp
<1> QED
  BY <1>3 DEF T

LEMMA ChainDef ==
  ASSUME NEW h
  PROVE  \E f : IsAhead(f, h, BlockSize * Blocks) /\ Chain(h) = f[BlockSize * Blocks]
<1> DEFINE f == CHOOSE f : IsAhead(f, h, BlockSize * Blocks)
<1>1. IsAhead(f, h, BlockSize * Blocks)
  BY AheadExists, Sizes
<1>2. Chain(h) = f[BlockSize * Blocks]
  BY DEF Chain, IsAhead
<1> QED
  BY <1>1, <1>2

LEMMA ChainIs ==
  ASSUME NEW S, NEW r, NEW h, Ranked(S, r, h)
  PROVE  Chain(h) = S
<1> DEFINE N == BlockSize * Blocks
           Top(k) == {g \in S : r[g] >= r[h] - k}
<1>0. N \in Nat /\ r[h] <= N
  BY Sizes, RankIsSmall
<1>1. PICK f : IsAhead(f, h, N) /\ Chain(h) = f[N]
  BY ChainDef
<1> HIDE DEF N
<1>2. /\ S \subseteq HandleSet /\ h \in S /\ r[h] \in Nat
      /\ \A g \in S : r[g] \in 1 .. r[h]
      /\ \A g \in S : IF r[g] = 1 THEN link[g] \notin HandleSet
                      ELSE link[g] \in S /\ r[link[g]] = r[g] - 1
      /\ \A e, g \in S : r[e] = r[g] => e = g
  BY DEF Ranked
<1> DEFINE T == {k \in Nat : k <= N => f[k] = Top(k)}
<1>3. 0 \in T
  <2>1. f[0] = {h} \cap HandleSet
    BY <1>0, <1>1 DEF IsAhead
  <2>2. Top(0) = {h}
    BY <1>2
  <2> QED
    BY <2>1, <2>2, <1>2
<1>4. ASSUME NEW k \in Nat, k \in T PROVE k + 1 \in T
  <2> SUFFICES ASSUME k + 1 <= N PROVE f[k + 1] = Top(k + 1)
    OBVIOUS
  <2>1. f[k] = Top(k)
    BY <1>0, <1>4
  <2>2. k + 1 \in 0 .. N /\ k + 1 # 0 /\ (k + 1) - 1 = k
    BY <1>0
  <2>3. f[k + 1] = f[k] \cup ({link[i] : i \in f[k]} \cap HandleSet)
    BY <2>2, <1>1 DEF IsAhead
  <2>4. ASSUME NEW g \in Top(k + 1) PROVE g \in f[k + 1]
    <3>1. CASE r[g] >= r[h] - k
      BY <3>1, <2>1, <2>3
    <3>2. CASE ~(r[g] >= r[h] - k)
      <4>1. r[g] = r[h] - (k + 1) /\ r[g] \in 1 .. r[h]
        BY <3>2, <1>2
      <4>2. r[g] + 1 \in 1 .. r[h] /\ r[g] + 1 = r[h] - k
        BY <4>1, <1>2
      <4>3. PICK e \in S : r[e] = r[g] + 1
        BY <4>2, EveryRank
      <4>4. e \in Top(k) /\ r[e] # 1
        BY <4>1, <4>2, <4>3, <1>2
      <4>5. link[e] \in S /\ r[link[e]] = r[g]
        BY <4>1, <4>3, <4>4, <1>2
      <4>6. link[e] = g
        BY <4>5, <1>2
      <4> QED
        BY <4>4, <4>6, <2>1, <2>3, <1>2
    <3> QED
      BY <3>1, <3>2
  <2>5. ASSUME NEW g \in f[k + 1] PROVE g \in Top(k + 1)
    <3>1. CASE g \in Top(k)
      BY <3>1, <1>2
    <3>2. CASE g \notin Top(k)
      <4>1. PICK i \in Top(k) : link[i] = g /\ g \in HandleSet
        BY <3>2, <2>1, <2>3, <2>5
      <4>2. g \in S /\ r[g] = r[i] - 1
        BY <4>1, <1>2
      <4> QED
        BY <4>1, <4>2, <1>2
    <3> QED
      BY <3>1, <3>2
  <2> QED
    BY <2>4, <2>5
<1> HIDE DEF T
<1>5. N \in T
  BY <1>0, <1>3, <1>4, CountUp
<1>6. f[N] = Top(N)
  BY <1>0, <1>5 DEF T
<1>7. Top(N) = S
  BY <1>0, <1>2
<1> QED
  BY <1>1, <1>6, <1>7

LEMMA NoChain ==
  ASSUME NEW h, h \notin HandleSet
  PROVE  Chain(h) = {}
<1> DEFINE N == BlockSize * Blocks
<1>0. N \in Nat
  BY Sizes
<1>1. PICK f : IsAhead(f, h, N) /\ Chain(h) = f[N]
  BY ChainDef
<1> HIDE DEF N
<1> DEFINE T == {k \in Nat : k <= N => f[k] = {}}
<1>2. 0 \in T
  BY <1>0, <1>1 DEF IsAhead
<1>3. ASSUME NEW k \in Nat, k \in T PROVE k + 1 \in T
  <2> SUFFICES ASSUME k + 1 <= N PROVE f[k + 1] = {}
    OBVIOUS
  <2>1. f[k] = {} /\ k + 1 \in 0 .. N /\ k + 1 # 0 /\ (k + 1) - 1 = k
    BY <1>0, <1>3
  <2>2. f[k + 1] = f[k] \cup ({link[i] : i \in f[k]} \cap HandleSet)
    BY <2>1, <1>1 DEF IsAhead
  <2> QED
    BY <2>1, <2>2
<1> HIDE DEF T
<1>4. N \in T
  BY <1>0, <1>2, <1>3, CountUp
<1> QED
  BY <1>0, <1>1, <1>4 DEF T

\* A pile is ranked by the places in it, and the list that begins at its top is the pile.
LEMMA PileIsRanked ==
  ASSUME NEW w, NEW p, NEW top, Piled(link, w, p, top), NEW x \in Piles, top[x] # End
  PROVE  Ranked({h \in HandleSet : w[h] = x}, p, top[x])
<1> DEFINE S == {h \in HandleSet : w[h] = x}
<1>1. /\ p \in [HandleSet -> Nat \ {0}] /\ Stacked(w, p, top, x)
      /\ \A g \in S : Below(link, w, p, g)
      /\ \A f, g \in S : p[f] = p[g] => f = g
  BY DEF Piled
<1>2. top[x] \in S /\ \A g \in S : p[g] <= p[top[x]]
  BY <1>1 DEF Stacked
<1>3. ASSUME NEW g \in S
      PROVE  /\ p[g] \in 1 .. p[top[x]]
             /\ IF p[g] = 1 THEN link[g] \notin HandleSet ELSE link[g] \in S /\ p[link[g]] = p[g] - 1
  <2>1. p[g] \in 1 .. p[top[x]]
    BY <1>1, <1>2
  <2>2. Below(link, w, p, g)
    BY <1>1
  <2> QED
    BY <2>1, <2>2, PoolFacts DEF Below
<1>4. p[top[x]] \in Nat
  BY <1>1, <1>2
<1> QED
  BY <1>1, <1>2, <1>3, <1>4 DEF Ranked

LEMMA PileIsChain ==
  ASSUME NEW w, NEW p, NEW top, Piled(link, w, p, top), NEW x \in Piles
  PROVE  Chain(top[x]) = {h \in HandleSet : w[h] = x}
<1> DEFINE S == {h \in HandleSet : w[h] = x}
<1>1. CASE top[x] = End
  <2>1. Stacked(w, p, top, x)
    BY DEF Piled
  <2>2. S = {}
    BY <1>1, <2>1, PoolFacts DEF Stacked
  <2> QED
    BY <2>2, <1>1, NoChain, PoolFacts
<1>2. CASE top[x] # End
  <2>1. Ranked(S, p, top[x])
    BY <1>2, PileIsRanked
  <2> HIDE DEF S
  <2>2. Chain(top[x]) = S
    BY <2>1, ChainIs
  <2> QED
    BY <2>2 DEF S
<1> QED
  BY <1>1, <1>2

\* The first block has its handles, whether or not the first of them is with an object.
LEMMA FirstBlockChain ==
  ASSUME NEW w, NEW p, NEW top, Piled(link, w, p, top), FirstBlock(w, p), Owned(w)
  PROVE  Chain(data[FirstSlot]) = 1 .. BlockSize
<1> DEFINE r == [h \in HandleSet |-> h]
<1>1. link[1] \notin HandleSet
  <2>0. 1 \in HandleSet
    BY Sizes, PoolFacts
  <2>1. CASE First \in listed
    BY <2>0, <2>1, PoolFacts DEF FirstBlock, Owned
  <2>2. CASE First \notin listed
    <3>1. w[1] \in Piles /\ p[1] = 1
      BY <2>2, PoolFacts, PileNames DEF FirstBlock
    <3>2. Below(link, w, p, 1)
      BY <3>1, <2>0 DEF Piled
    <3> QED
      BY <3>1, <3>2, PoolFacts DEF Below
  <2> QED
    BY <2>1, <2>2
<1>2. 1 .. BlockSize \subseteq HandleSet /\ BlockSize \in 1 .. BlockSize
  BY Sizes, PoolFacts
<1>3. \A h \in 1 .. BlockSize : r[h] = h
  BY <1>2
<1> HIDE DEF r
<1>4. ASSUME NEW g \in 1 .. BlockSize
      PROVE  /\ r[g] \in 1 .. r[BlockSize]
             /\ IF r[g] = 1 THEN link[g] \notin HandleSet
                ELSE link[g] \in 1 .. BlockSize /\ r[link[g]] = r[g] - 1
  <2>1. CASE g = 1
    BY <2>1, <1>1, <1>2, <1>3
  <2>2. CASE g # 1
    <3>1. g \in 2 .. BlockSize
      BY <2>2, PoolFacts
    <3>2. link[g] = g - 1 /\ g - 1 \in 1 .. BlockSize
      BY <3>1, PoolFacts DEF FirstBlock
    <3> QED
      BY <2>2, <3>2, <1>2, <1>3
  <2> QED
    BY <2>1, <2>2
<1>5. Ranked(1 .. BlockSize, r, BlockSize)
  BY <1>2, <1>3, <1>4, PoolFacts DEF Ranked
<1> QED
  BY <1>5, ChainIs DEF FirstBlock

-----------------------------------------------------------------------------
(* Every handle is in one place *)

LEMMA SlotsInRange ==
  ASSUME PoolTypeOK
  PROVE  /\ \A q \in Lists : OnStack(q) \subseteq Indices
         /\ BlockSlots \subseteq Indices /\ FullSlots \subseteq Indices
<1>1. \A q \in Lists : stack[q] \in Seq(Indices)
  BY DEF PoolTypeOK, Lists
<1>2. \A q \in Lists : OnStack(q) \subseteq Indices
  <2> SUFFICES ASSUME NEW q \in Lists PROVE OnStack(q) \subseteq Indices
    OBVIOUS
  <2>1. stack[q] \in Seq(Indices)
    BY <1>1
  <2> QED
    BY <2>1 DEF OnStack
<1>3. {held[n] : n \in {m \in taken : held[m] # -1 /\ handleList[m] = End}} \subseteq Indices
  BY PoolFacts DEF PoolTypeOK
<1>4. BlockSlots = OnStack("fifo")
                     \cup {held[n] : n \in {m \in taken : held[m] # -1 /\ handleList[m] = End}}
  BY DEF BlockSlots, OnStack
<1>5. OnStack("fifo") \subseteq Indices
  BY <1>2 DEF Lists
<1>6. BlockSlots \subseteq Indices
  BY <1>3, <1>4, <1>5
<1> QED
  BY <1>2, <1>6 DEF FullSlots

\* What is in a pile has a top.
LEMMA TopThere ==
  ASSUME NEW w, NEW p, NEW top, Piled(link, w, p, top), NEW h \in HandleSet, w[h] \in Piles
  PROVE  top[w[h]] # End
<1>1. Stacked(w, p, top, w[h])
  BY DEF Piled
<1> QED
  BY <1>1, PoolFacts DEF Stacked

LEMMA InPile ==
  ASSUME NEW w, NEW p, NEW top, Piled(link, w, p, top), NEW h \in HandleSet
  PROVE  \A x \in Piles : h \in Chain(top[x]) <=> w[h] = x
<1> SUFFICES ASSUME NEW x \in Piles PROVE h \in Chain(top[x]) <=> w[h] = x
  OBVIOUS
<1>1. Chain(top[x]) = {g \in HandleSet : w[g] = x}
  BY PileIsChain
<1> QED
  BY <1>1

LEMMA CountOne ==
  /\ \A x : Cardinality({x}) = 1
  /\ Cardinality({}) = 0
  BY FS_Singleton, FS_EmptySet

LEMMA ListPlaces ==
  ASSUME NEW w, NEW p, NEW top, Piled(link, w, p, top), Tops(top), NEW h \in HandleSet
  PROVE  Cardinality({n \in Numbers \ given : h \in Chain(handleList[n])})
           = IF \E n \in Numbers : w[h] = InList(n) THEN 1 ELSE 0
<1> DEFINE L == {n \in Numbers \ given : h \in Chain(handleList[n])}
<1>1. \A n \in Numbers : InList(n) \in Piles /\ top[InList(n)] = IF n \in given THEN End ELSE handleList[n]
  BY PileNames DEF Tops
<1>2. ASSUME NEW n \in Numbers PROVE n \in L <=> w[h] = InList(n)
  <2>1. CASE n \in given
    BY <2>1, <1>1, TopThere
  <2>2. CASE n \notin given
    <3>1. top[InList(n)] = handleList[n] /\ InList(n) \in Piles
      BY <2>2, <1>1
    <3>2. h \in Chain(top[InList(n)]) <=> w[h] = InList(n)
      BY <3>1, InPile
    <3> QED
      BY <2>2, <3>1, <3>2
  <2> QED
    BY <2>1, <2>2
<1>3. L \subseteq Numbers
  OBVIOUS
<1> HIDE DEF L
<1>4. CASE \E n \in Numbers : w[h] = InList(n)
  <2>1. PICK n \in Numbers : w[h] = InList(n)
    BY <1>4
  <2>2. L = {n}
    BY <2>1, <1>2, <1>3, PileNames
  <2> QED
    BY <2>2, <1>4, CountOne DEF L
<1>5. CASE ~\E n \in Numbers : w[h] = InList(n)
  <2>1. L = {}
    BY <1>5, <1>2, <1>3
  <2> QED
    BY <2>1, <1>5, CountOne DEF L
<1> QED
  BY <1>4, <1>5

LEMMA BlockPlaces ==
  ASSUME PoolTypeOK, NEW w, NEW p, NEW top, Piled(link, w, p, top), Tops(top),
         FirstBlock(w, p), Owned(w), NEW h \in HandleSet
  PROVE  Cardinality({i \in BlockSlots : h \in Chain(data[i]) /\ ~(i = FirstSlot /\ h = 1)})
           = IF w[h] = InFirst \/ \E i \in Indices : w[h] = InSlot(i) THEN 1 ELSE 0
<1> DEFINE B == {i \in BlockSlots : h \in Chain(data[i]) /\ ~(i = FirstSlot /\ h = 1)}
<1>1. /\ \A i \in Indices : InSlot(i) \in Piles /\ InSlot(i) # InFirst
      /\ \A i \in Indices : top[InSlot(i)] = IF i \in FullSlots THEN data[i] ELSE End
  BY PileNames DEF Tops
<1>2. FirstSlot \in BlockSlots /\ FirstSlot \in Indices
  <2>1. FirstSlot \in OnStack("fifo")
    <3>0. stack["fifo"] \in Seq(Indices)
      BY DEF PoolTypeOK, Lists
    <3>1. stack["fifo"] \in Seq(Indices) /\ stack["fifo"] # <<>>
          /\ stack["fifo"][Len(stack["fifo"])] = FirstSlot
      BY <3>0 DEF FirstBlock
    <3>2. Len(stack["fifo"]) \in DOMAIN stack["fifo"]
      BY <3>1
    <3> QED
      BY <3>1, <3>2 DEF OnStack
  <2> QED
    BY <2>1, Sizes DEF BlockSlots, OnStack
<1>3. B \subseteq Indices /\ BlockSlots \subseteq Indices
  BY SlotsInRange
<1>4. ASSUME NEW i \in Indices, i # FirstSlot PROVE i \in B <=> w[h] = InSlot(i)
  <2>1. CASE i \in BlockSlots
    <3>1. top[InSlot(i)] = data[i]
      BY <2>1, <1>1, <1>4 DEF FullSlots
    <3>2. h \in Chain(top[InSlot(i)]) <=> w[h] = InSlot(i)
      BY <1>1, <1>4, InPile
    <3> QED
      BY <3>1, <3>2, <2>1, <1>4
  <2>2. CASE i \notin BlockSlots
    <3>1. top[InSlot(i)] = End
      BY <2>2, <1>1 DEF FullSlots
    <3> QED
      BY <3>1, <2>2, <1>1, TopThere
  <2> QED
    BY <2>1, <2>2
<1>5. FirstSlot \in B <=> w[h] = InFirst
  <2>1. FirstSlot \in B <=> h \in 1 .. BlockSize /\ h # 1
    BY <1>2, FirstBlockChain
  <2>2. w[h] = InFirst <=> h \in 2 .. BlockSize
    BY DEF FirstBlock
  <2>3. h \in Nat
    BY Sizes
  <2> QED
    BY <2>1, <2>2, <2>3, PoolFacts
<1>6. w[h] # InSlot(FirstSlot)
  <2>1. top[InSlot(FirstSlot)] = End
    BY <1>1, <1>2 DEF FullSlots
  <2> QED
    BY <2>1, <1>1, <1>2, TopThere
<1> HIDE DEF B
<1>7. CASE w[h] = InFirst
  <2>1. B = {FirstSlot}
    BY <1>1, <1>3, <1>4, <1>5, <1>7
  <2> QED
    BY <2>1, <1>7, CountOne DEF B
<1>8. CASE \E i \in Indices : w[h] = InSlot(i)
  <2>1. PICK i \in Indices : w[h] = InSlot(i)
    BY <1>8
  <2>2. B = {i}
    BY <2>1, <1>1, <1>3, <1>4, <1>5, <1>6, PileNames
  <2> QED
    BY <2>2, <1>8, CountOne DEF B
<1>9. CASE w[h] # InFirst /\ ~\E i \in Indices : w[h] = InSlot(i)
  <2>1. B = {}
    BY <1>3, <1>4, <1>5, <1>9
  <2> QED
    BY <2>1, <1>9, CountOne DEF B
<1> QED
  BY <1>7, <1>8, <1>9

LEMMA ReleasedPlaces ==
  ASSUME PoolTypeOK, NEW w, NEW p, NEW top, Piled(link, w, p, top), Tops(top), NEW h \in HandleSet
  PROVE  Cardinality({k \in DOMAIN released : h \in Chain(released[k])})
           = IF \E k \in Nat : w[h] = InReleased(k) THEN 1 ELSE 0
<1> DEFINE R == {k \in DOMAIN released : h \in Chain(released[k])}
           L == Len(released)
<1>1. DOMAIN released = 1 .. L /\ L \in Nat
  BY DEF PoolTypeOK
<1> HIDE DEF L
<1>2. \A k \in Nat : InReleased(k) \in Piles
  BY PileNames
<1>3. \A k \in Nat : top[InReleased(k)] = IF k \in 1 .. L THEN released[L + 1 - k] ELSE End
  BY DEF Tops, Released, L
<1>4. ASSUME NEW k \in 1 .. L PROVE k \in R <=> w[h] = InReleased(L + 1 - k)
  <2>1. L + 1 - k \in 1 .. L /\ L + 1 - k \in Nat /\ L + 1 - (L + 1 - k) = k
    BY <1>1
  <2>2. top[InReleased(L + 1 - k)] = released[k] /\ InReleased(L + 1 - k) \in Piles
    BY <2>1, <1>2, <1>3
  <2>3. h \in Chain(top[InReleased(L + 1 - k)]) <=> w[h] = InReleased(L + 1 - k)
    BY <2>2, InPile
  <2> QED
    BY <2>2, <2>3, <1>1
<1>5. R \subseteq 1 .. L
  BY <1>1
<1> HIDE DEF R
<1>6. CASE \E k \in Nat : w[h] = InReleased(k)
  <2>1. PICK k \in Nat : w[h] = InReleased(k)
    BY <1>6
  <2>2. k \in 1 .. L
    <3>1. top[InReleased(k)] # End
      BY <2>1, <1>2, TopThere
    <3> QED
      BY <3>1, <1>3
  <2>3. L + 1 - k \in 1 .. L /\ L + 1 - (L + 1 - k) = k
    BY <2>2, <1>1
  <2>4. \A j \in 1 .. L : j \in R <=> k = L + 1 - j
    BY <2>1, <1>4, PileNames
  <2>5. R = {L + 1 - k}
    <3>1. \A j \in 1 .. L : k = L + 1 - j <=> j = L + 1 - k
      BY <2>2, <1>1
    <3> QED
      BY <3>1, <2>3, <2>4, <1>5
  <2> QED
    BY <2>5, <1>6, CountOne DEF R
<1>7. CASE ~\E k \in Nat : w[h] = InReleased(k)
  <2>1. \A k \in 1 .. L : L + 1 - k \in Nat
    BY <1>1
  <2>2. R = {}
    BY <2>1, <1>4, <1>5, <1>7
  <2> QED
    BY <2>2, <1>7, CountOne DEF R
<1> QED
  BY <1>6, <1>7

LEMMA SinglePlaces ==
  ASSUME NEW w, NEW p, NEW top, Piled(link, w, p, top), Tops(top), NEW h \in HandleSet
  PROVE  /\ Cardinality({x \in {"block"} : h \in Chain(prevUnqueued)})
              = IF w[h] = InUnqueued THEN 1 ELSE 0
         /\ Cardinality({x \in {"cursor"} : h \in Chain(cursor)})
              = IF w[h] = InCursor THEN 1 ELSE 0
<1>1. /\ h \in Chain(prevUnqueued) <=> w[h] = InUnqueued
      /\ h \in Chain(cursor) <=> w[h] = InCursor
  <2>1. top[InUnqueued] = prevUnqueued /\ top[InCursor] = cursor
    BY DEF Tops
  <2>2. /\ h \in Chain(top[InUnqueued]) <=> w[h] = InUnqueued
        /\ h \in Chain(top[InCursor]) <=> w[h] = InCursor
    BY PileNames, InPile
  <2> QED
    BY <2>1, <2>2
<1>2. /\ {x \in {"block"} : h \in Chain(prevUnqueued)} = IF w[h] = InUnqueued THEN {"block"} ELSE {}
      /\ {x \in {"cursor"} : h \in Chain(cursor)} = IF w[h] = InCursor THEN {"cursor"} ELSE {}
  BY <1>1
<1> QED
  BY <1>2, CountOne

\* A handle is where w says it is and nowhere else.
LEMMA PlacesOne ==
  ASSUME PoolTypeOK, NEW w, NEW p, NEW top, Piled(link, w, p, top), Tops(top),
         FirstBlock(w, p), Owned(w), NEW h \in HandleSet
  PROVE  Places(h) = 1
<1> DEFINE onList == \E n \in Numbers : w[h] = InList(n)
           inBlock == w[h] = InFirst \/ \E i \in Indices : w[h] = InSlot(i)
           isReleased == \E k \in Nat : w[h] = InReleased(k)
           inSlot == \E i \in Indices : w[h] = InSlot(i)
<1>1. Places(h) = (IF w[h] = InObject THEN 1 ELSE 0) + (IF onList THEN 1 ELSE 0)
                  + (IF inBlock THEN 1 ELSE 0) + (IF isReleased THEN 1 ELSE 0)
                  + (IF w[h] = InUnqueued THEN 1 ELSE 0) + (IF w[h] = InCursor THEN 1 ELSE 0)
  <2>1. objects[h] = IF w[h] = InObject THEN 1 ELSE 0
    BY DEF Owned
  <2>2. Cardinality({n \in Numbers \ given : h \in Chain(handleList[n])}) = IF onList THEN 1 ELSE 0
    BY ListPlaces
  <2>3. Cardinality({i \in BlockSlots : h \in Chain(data[i]) /\ ~(i = FirstSlot /\ h = 1)})
          = IF inBlock THEN 1 ELSE 0
    BY BlockPlaces
  <2>4. Cardinality({k \in DOMAIN released : h \in Chain(released[k])}) = IF isReleased THEN 1 ELSE 0
    BY ReleasedPlaces
  <2>5. /\ Cardinality({x \in {"block"} : h \in Chain(prevUnqueued)}) = IF w[h] = InUnqueued THEN 1 ELSE 0
        /\ Cardinality({x \in {"cursor"} : h \in Chain(cursor)}) = IF w[h] = InCursor THEN 1 ELSE 0
    BY SinglePlaces
  <2> HIDE DEF onList, inBlock, isReleased
  <2> QED
    BY <2>1, <2>2, <2>3, <2>4, <2>5 DEF Places
<1>2. w[h] \in Piles \cup {InObject, InFirst}
  BY DEF Piled
<1>3. w[h] = InObject \/ onList \/ inBlock \/ isReleased \/ w[h] = InUnqueued \/ w[h] = InCursor
  BY <1>2, PileNames DEF IsNumbered
<1>4. /\ onList => w[h] \in Piles /\ ~isReleased /\ w[h] # InUnqueued /\ w[h] # InCursor
                   /\ ~inSlot
      /\ isReleased => w[h] \in Piles /\ w[h] # InUnqueued /\ w[h] # InCursor
                       /\ ~inSlot
      /\ inSlot => w[h] \in Piles /\ w[h] # InUnqueued /\ w[h] # InCursor
      /\ InUnqueued # InCursor /\ InUnqueued \in Piles /\ InCursor \in Piles
      /\ InObject \notin Piles /\ InFirst \notin Piles /\ InObject # InFirst
  <2>1. ASSUME NEW n \in Numbers, w[h] = InList(n)
        PROVE  /\ w[h] \in Piles /\ ~isReleased /\ w[h] # InUnqueued /\ w[h] # InCursor
               /\ ~inSlot
    BY <2>1, PileNames
  <2>2. ASSUME NEW k \in Nat, w[h] = InReleased(k)
        PROVE  /\ w[h] \in Piles /\ w[h] # InUnqueued /\ w[h] # InCursor
               /\ ~inSlot
    BY <2>2, PileNames
  <2>3. ASSUME NEW i \in Indices, w[h] = InSlot(i)
        PROVE  w[h] \in Piles /\ w[h] # InUnqueued /\ w[h] # InCursor
    BY <2>3, PileNames
  <2>4. /\ InUnqueued # InCursor /\ InUnqueued \in Piles /\ InCursor \in Piles
        /\ InObject \notin Piles /\ InFirst \notin Piles /\ InObject # InFirst
    BY PileNames
  <2> QED
    BY <2>1, <2>2, <2>3, <2>4
<1>5. inBlock <=> w[h] = InFirst \/ inSlot
  OBVIOUS
<1> HIDE DEF onList, inBlock, isReleased, inSlot
<1> QED
  BY <1>1, <1>3, <1>4, <1>5

-----------------------------------------------------------------------------
(* A slot is free whenever the collector's block is full *)

LEMMA SoundHas ==
  ASSUME NEW w, NEW p, NEW top, NEW lost, Sound(w, p, top, lost)
  PROVE  /\ Piled(link, w, p, top) /\ Tops(top) /\ FirstBlock(w, p) /\ Owned(w) /\ BlocksOK(p)
         /\ SlotsOK(lost) /\ lost \in [Numbers -> Indices] /\ HandsFull
         /\ w \in [HandleSet -> Piles \cup {InObject, InFirst}] /\ p \in [HandleSet -> Nat \ {0}]
         /\ top \in [Piles -> HandleSet \cup {End}]
         /\ \A x \in Piles : Stacked(w, p, top, x)
         /\ \A h \in HandleSet : w[h] \in Piles => Below(link, w, p, h)
BY DEF Sound, Piled

\* Each slot that holds a block accounts for BlockSize handles.
LEMMA BlockHandles ==
  ASSUME PoolTypeOK, NEW w, NEW p, NEW top, NEW lost, Sound(w, p, top, lost)
  PROVE  /\ IsFiniteSet(BlockSlots)
         /\ Cardinality(BlockSlots) * BlockSize <= BlockSize * Blocks - 1
<1> DEFINE Here(h, q) == IF q[1] = FirstSlot THEN h = q[2] ELSE w[h] = InSlot(q[1]) /\ p[h] = q[2]
           Q == BlockSlots \X (1 .. BlockSize)
           f == [q \in Q |-> CHOOSE h \in HandleSet : Here(h, q)]
<1>1. BlockSlots \subseteq Indices /\ FullSlots \subseteq Indices
  BY SlotsInRange
<1>2. IsFiniteSet(BlockSlots)
  <2>1. IsFiniteSet(Indices)
    BY PoolFacts, FS_Interval DEF Indices
  <2> QED
    BY <2>1, <1>1, FS_Subset
<1>3. IsFiniteSet(1 .. BlockSize) /\ Cardinality(1 .. BlockSize) = BlockSize
  <2>1. BlockSize \in Nat /\ BlockSize >= 2
    BY PoolFacts
  <2> QED
    BY <2>1, FS_Interval
<1>4. Cardinality(Q) = Cardinality(BlockSlots) * BlockSize
  BY <1>2, <1>3, FS_Product
<1>5. ASSUME NEW i \in BlockSlots, NEW k \in 1 .. BlockSize, i # FirstSlot
      PROVE  \E h \in HandleSet : w[h] = InSlot(i) /\ p[h] = k
  <2>1. i \in FullSlots /\ i \in Indices
    BY <1>1, <1>5 DEF FullSlots
  <2>2. data[i] \in HandleSet /\ p[data[i]] = BlockSize
    BY <2>1, SoundHas DEF BlocksOK
  <2>3. top[InSlot(i)] = data[i]
    BY <2>1, SoundHas DEF Tops
  <2>4. InSlot(i) \in Piles /\ top[InSlot(i)] # End /\ Piled(link, w, p, top)
    BY <2>1, <2>2, <2>3, PileNames, SoundHas, PoolFacts
  <2>5. Ranked({h \in HandleSet : w[h] = InSlot(i)}, p, data[i])
    BY <2>3, <2>4, PileIsRanked
  <2>6. \E h \in {g \in HandleSet : w[g] = InSlot(i)} : p[h] = k
    BY <2>2, <2>5, EveryRank
  <2> QED
    BY <2>6
<1>6. ASSUME NEW q \in Q PROVE f[q] \in HandleSet /\ Here(f[q], q)
  <2>1. q[1] \in BlockSlots /\ q[2] \in 1 .. BlockSize
    OBVIOUS
  <2>2. \E h \in HandleSet : Here(h, q)
    <3>1. CASE q[1] = FirstSlot
      BY <2>1, <3>1, Sizes
    <3>2. CASE q[1] # FirstSlot
      BY <2>1, <3>2, <1>5
    <3> QED
      BY <3>1, <3>2
  <2> HIDE DEF Here
  <2> QED
    BY <2>2
<1>7. \A h \in 1 .. BlockSize, i \in Indices : w[h] # InSlot(i)
  <2> SUFFICES ASSUME NEW h \in 1 .. BlockSize, NEW i \in Indices PROVE w[h] # InSlot(i)
    OBVIOUS
  <2>1. InSlot(i) \in Piles /\ InSlot(i) # InList(First) /\ InFirst \notin Piles /\ InObject \notin Piles
    BY PileNames
  <2>2. FirstBlock(w, p) /\ h \in HandleSet
    BY SoundHas, Sizes
  <2>3. CASE h = 1
    BY <2>1, <2>2, <2>3 DEF FirstBlock
  <2>4. CASE h # 1
    <3>1. h \in 2 .. BlockSize
      BY <2>4, PoolFacts
    <3> QED
      BY <3>1, <2>1, <2>2 DEF FirstBlock
  <2> QED
    BY <2>3, <2>4
<1>8. ASSUME NEW h \in HandleSet, NEW q \in Q, NEW r \in Q, Here(h, q), Here(h, r)
      PROVE  q = r
  <2>1. /\ q = <<q[1], q[2]>> /\ r = <<r[1], r[2]>>
        /\ q[1] \in Indices /\ r[1] \in Indices
        /\ q[2] \in 1 .. BlockSize /\ r[2] \in 1 .. BlockSize
    BY <1>1
  <2>2. CASE q[1] = FirstSlot
    <3>1. r[1] = FirstSlot
      BY <2>1, <2>2, <1>7, <1>8
    <3> QED
      BY <2>1, <2>2, <3>1, <1>8
  <2>3. CASE q[1] # FirstSlot
    <3>1. r[1] # FirstSlot
      BY <2>1, <2>3, <1>7, <1>8
    <3>2. InSlot(q[1]) = InSlot(r[1]) /\ q[2] = r[2]
      BY <2>3, <3>1, <1>8
    <3> QED
      BY <2>1, <3>2, PileNames
  <2> QED
    BY <2>2, <2>3
<1>9. f \in Injection(Q, HandleSet)
  <2>1. f \in [Q -> HandleSet]
    BY <1>6
  <2>2. \A q, r \in Q : f[q] = f[r] => q = r
    <3> HIDE DEF f, Here, Q
    <3> QED
      BY <1>6, <1>8
  <2> QED
    BY <2>1, <2>2 DEF Injection, IsInjective
<1>10. Cardinality(Q) <= BlockSize * Blocks - 1
  <2> HIDE DEF f, Q
  <2>1. Cardinality(Q) <= Cardinality(HandleSet)
    BY <1>9, Sizes, FS_Injection
  <2> QED
    BY <2>1, Sizes
<1> QED
  BY <1>2, <1>4, <1>10

\* There are as many slots besides those for the blocks as threads to hold or lose one.
LEMMA FreeSlotThere ==
  ASSUME PoolTypeOK, NEW w, NEW p, NEW top, NEW lost, Sound(w, p, top, lost),
         held[Collector] = -1
  PROVE  stack["free"] # <<>>
<1> SUFFICES ASSUME stack["free"] = <<>> PROVE FALSE
  OBVIOUS
<1> DEFINE f == [n \in Numbers |-> IF n \in given THEN lost[n] ELSE held[n]]
           Gone == {f[n] : n \in Numbers}
<1>1. OnStack("free") = {}
  BY DEF OnStack
<1>2. ASSUME NEW i \in Indices PROVE i \in BlockSlots \cup Gone
  <2>1. \/ i \in OnStack("fifo")
        \/ \E u \in Threads : held[u] = i
        \/ \E n \in given : lost[n] = i
    BY <1>1, SoundHas DEF SlotsOK
  <2>2. CASE i \in OnStack("fifo")
    BY <2>2 DEF BlockSlots, OnStack
  <2>3. CASE \E u \in Threads : held[u] = i
    <3>1. PICK u \in Threads : held[u] = i
      BY <2>3
    <3>2. i # -1
      BY PoolFacts DEF Indices
    <3>3. u \in Numbers
      BY <3>1, <3>2, PoolFacts
    <3>4. u \in taken
      BY <3>1, <3>2, <3>3, SoundHas DEF HandsFull
    <3>5. u \notin given
      BY <3>4 DEF PoolTypeOK
    <3>6. f[u] = i
      BY <3>1, <3>3, <3>5
    <3> QED
      BY <3>3, <3>6
  <2>4. CASE \E n \in given : lost[n] = i
    <3>1. PICK n \in given : lost[n] = i
      BY <2>4
    <3>2. n \in Numbers
      BY DEF PoolTypeOK
    <3>3. f[n] = i
      BY <3>1, <3>2
    <3> QED
      BY <3>2, <3>3
  <2> QED
    BY <2>1, <2>2, <2>3, <2>4
<1>3. IsFiniteSet(Gone) /\ Cardinality(Gone) <= Cardinality(Numbers)
  <2>1. f \in Surjection(Numbers, Gone)
    BY DEF Surjection
  <2> HIDE DEF f, Gone
  <2> QED
    BY <2>1, PoolFacts, FS_Surjection
<1>4. IsFiniteSet(BlockSlots) /\ Cardinality(BlockSlots) * BlockSize <= BlockSize * Blocks - 1
  BY BlockHandles
<1> DEFINE B == Cardinality(BlockSlots)
<1>5. MaxLen <= B + Cardinality(Numbers)
  <2>1. Indices \subseteq BlockSlots \cup Gone
    BY <1>2
  <2> HIDE DEF Gone
  <2>2. /\ IsFiniteSet(BlockSlots \cup Gone)
        /\ Cardinality(BlockSlots \cup Gone) = B + Cardinality(Gone) - Cardinality(BlockSlots \cap Gone)
    BY <1>3, <1>4, FS_Union
  <2>3. B \in Nat /\ Cardinality(Gone) \in Nat /\ Cardinality(BlockSlots \cap Gone) \in Nat
    BY <1>3, <1>4, FS_CardinalityType, FS_Intersection
  <2>4. Cardinality(Indices) <= Cardinality(BlockSlots \cup Gone)
    BY <2>1, <2>2, FS_Subset
  <2>5. Cardinality(Indices) = MaxLen
    BY PoolFacts, FS_Interval DEF Indices
  <2> QED
    BY <2>2, <2>3, <2>4, <2>5, <1>3, PoolFacts
<1>6. B \in Nat /\ B >= Blocks + 1
  BY <1>4, <1>5, FS_CardinalityType, PoolFacts
<1>7. B * BlockSize >= BlockSize * Blocks
  <2> HIDE DEF B
  <2>1. B - Blocks \in Nat /\ B = (B - Blocks) + Blocks
    BY <1>6, PoolFacts
  <2>2. (B - Blocks) * BlockSize \in Nat
    BY <2>1, PoolFacts
  <2>3. B * BlockSize = (B - Blocks) * BlockSize + BlockSize * Blocks
    BY <1>6, PoolFacts
  <2> QED
    BY <2>2, <2>3, Sizes
<1> QED
  BY <1>4, <1>7, <1>6, Sizes, PoolFacts

-----------------------------------------------------------------------------
(* The invariant holds at the start *)

\* Dividing by the block size.
LEMMA DivideBySize ==
  ASSUME NEW q \in Nat, NEW r \in 0 .. BlockSize - 1
  PROVE  /\ q * BlockSize + r \in Nat
         /\ (q * BlockSize + r) \div BlockSize = q
         /\ (q * BlockSize + r) % BlockSize = r
<1> DEFINE n == q * BlockSize + r
           d == n \div BlockSize
           m == n % BlockSize
<1>0. BlockSize \in Nat /\ BlockSize >= 2 /\ r \in Nat
  BY PoolFacts
<1>1. q * BlockSize \in Nat
  BY <1>0
<1>2. n \in Nat
  BY <1>0, <1>1
<1>3. d \in Nat /\ m \in 0 .. BlockSize - 1 /\ n = d * BlockSize + m
  <2> HIDE DEF n
  <2> QED
    BY <1>0, <1>2
<1> HIDE DEF d, m
<1>4. ASSUME d > q PROVE FALSE
  <2>1. d - q - 1 \in Nat
    BY <1>3, <1>4
  <2>2. (d - q - 1) * BlockSize \in Nat
    BY <2>1, <1>0
  <2>3. d * BlockSize = (d - q - 1) * BlockSize + q * BlockSize + BlockSize
    BY <1>0, <1>3
  <2> QED
    BY <2>2, <2>3, <1>0, <1>1, <1>3
<1>5. ASSUME d < q PROVE FALSE
  <2>1. q - d - 1 \in Nat
    BY <1>3, <1>5
  <2>2. (q - d - 1) * BlockSize \in Nat
    BY <2>1, <1>0
  <2>3. q * BlockSize = (q - d - 1) * BlockSize + d * BlockSize + BlockSize
    BY <1>0, <1>3
  <2>4. d * BlockSize \in Nat
    BY <1>0, <1>3
  <2> DEFINE A == (q - d - 1) * BlockSize
             B == d * BlockSize
             E == q * BlockSize
  <2>5. A \in Nat /\ B \in Nat /\ m \in Nat /\ m < BlockSize
    BY <2>2, <2>4, <1>0, <1>3
  <2>6. E = A + B + BlockSize /\ E \in Nat
    BY <2>3, <1>1
  <2>7. E + r = B + m
    BY <1>3
  <2> HIDE DEF A, B, E
  <2> QED
    BY <2>5, <2>6, <2>7, <1>0
<1>6. d = q
  <2>1. d \in Nat
    BY <1>3
  <2> QED
    BY <2>1, <1>4, <1>5
<1>7. m = r
  BY <1>0, <1>1, <1>3, <1>6
<1> QED
  BY <1>2, <1>6, <1>7 DEF d, m

\* The block that h is in at the start, the first being 0, and its place in that.
BlockOf(h) == (h - 1) \div BlockSize
PlaceOf(h) == ((h - 1) % BlockSize) + 1

LEMMA BlockAndPlace ==
  ASSUME NEW h \in Nat \ {0}
  PROVE  /\ BlockOf(h) \in Nat /\ PlaceOf(h) \in 1 .. BlockSize
         /\ h = BlockOf(h) * BlockSize + PlaceOf(h)
         /\ h % BlockSize = 1 <=> PlaceOf(h) = 1
<1>1. h - 1 \in Nat /\ BlockSize \in Nat /\ BlockSize >= 2
  BY PoolFacts
<1>2. BlockOf(h) \in Nat /\ PlaceOf(h) \in 1 .. BlockSize
  BY <1>1 DEF BlockOf, PlaceOf
<1>3. h = BlockOf(h) * BlockSize + PlaceOf(h)
  BY <1>1 DEF BlockOf, PlaceOf
<1>4. h % BlockSize = 1 <=> PlaceOf(h) = 1
  <2>1. CASE PlaceOf(h) = BlockSize
    <3>1. BlockOf(h) + 1 \in Nat /\ 0 \in 0 .. BlockSize - 1
      BY <1>1, <1>2
    <3>2. h = (BlockOf(h) + 1) * BlockSize + 0
      BY <1>1, <1>2, <1>3, <2>1
    <3>3. ((BlockOf(h) + 1) * BlockSize + 0) % BlockSize = 0
      BY <3>1, DivideBySize
    <3> QED
      BY <3>2, <3>3, <2>1, <1>1
  <2>2. CASE PlaceOf(h) # BlockSize
    <3>1. PlaceOf(h) \in 0 .. BlockSize - 1
      BY <1>1, <1>2, <2>2
    <3>2. (BlockOf(h) * BlockSize + PlaceOf(h)) % BlockSize = PlaceOf(h)
      BY <3>1, <1>2, DivideBySize
    <3> QED
      BY <3>2, <1>3
  <2> QED
    BY <2>1, <2>2
<1> QED
  BY <1>2, <1>3, <1>4

LEMMA BlockPlaceUnique ==
  ASSUME NEW b \in Nat, NEW k \in 1 .. BlockSize
  PROVE  b * BlockSize + k \in Nat \ {0} /\ BlockOf(b * BlockSize + k) = b /\ PlaceOf(b * BlockSize + k) = k
<1>1. k - 1 \in 0 .. BlockSize - 1 /\ BlockSize \in Nat /\ k \in Nat
  BY PoolFacts
<1>2. /\ b * BlockSize + (k - 1) \in Nat
      /\ (b * BlockSize + (k - 1)) \div BlockSize = b
      /\ (b * BlockSize + (k - 1)) % BlockSize = k - 1
  BY <1>1, DivideBySize
<1>3. b * BlockSize \in Nat
  BY <1>1
<1>4. (b * BlockSize + k) - 1 = b * BlockSize + (k - 1)
  BY <1>1, <1>3
<1> QED
  BY <1>1, <1>2, <1>3, <1>4 DEF BlockOf, PlaceOf

LEMMA StartFacts ==
  ASSUME NEW h \in HandleSet
  PROVE  /\ BlockOf(h) \in 0 .. Blocks - 1 /\ PlaceOf(h) \in 1 .. BlockSize
         /\ BlockOf(h) = 0 <=> h <= BlockSize
         /\ h <= BlockSize => PlaceOf(h) = h
         /\ BlockOf(h) = Blocks - 1 => PlaceOf(h) <= BlockSize - 1
         /\ PlaceOf(h) = 1 => InitLink(h) = End
         /\ PlaceOf(h) # 1 => /\ InitLink(h) = h - 1 /\ h - 1 \in HandleSet
                              /\ BlockOf(h - 1) = BlockOf(h) /\ PlaceOf(h - 1) = PlaceOf(h) - 1
<1>1. /\ BlockSize \in Nat /\ BlockSize >= 2 /\ Blocks \in Nat /\ Blocks >= 2
      /\ BlockSize * Blocks \in Nat /\ h \in Nat \ {0} /\ h <= BlockSize * Blocks - 1
  BY PoolFacts, Sizes
<1>2. /\ BlockOf(h) \in Nat /\ PlaceOf(h) \in 1 .. BlockSize
      /\ h = BlockOf(h) * BlockSize + PlaceOf(h)
      /\ h % BlockSize = 1 <=> PlaceOf(h) = 1
  BY <1>1, BlockAndPlace
<1>3. BlockOf(h) <= Blocks - 1
  <2> SUFFICES ASSUME BlockOf(h) >= Blocks PROVE FALSE
    BY <1>1, <1>2
  <2>1. BlockOf(h) - Blocks \in Nat
    BY <1>1, <1>2
  <2>2. (BlockOf(h) - Blocks) * BlockSize \in Nat
    BY <2>1, <1>1
  <2>3. BlockOf(h) * BlockSize = (BlockOf(h) - Blocks) * BlockSize + BlockSize * Blocks
    BY <1>1, <1>2
  <2> QED
    BY <2>2, <2>3, <1>1, <1>2
<1>4. BlockOf(h) = 0 <=> h <= BlockSize
  <2>1. CASE BlockOf(h) = 0
    BY <2>1, <1>1, <1>2
  <2>2. CASE BlockOf(h) # 0
    <3>1. BlockOf(h) - 1 \in Nat
      BY <2>2, <1>2
    <3>2. (BlockOf(h) - 1) * BlockSize \in Nat
      BY <3>1, <1>1
    <3>3. BlockOf(h) * BlockSize = (BlockOf(h) - 1) * BlockSize + BlockSize
      BY <1>1, <1>2
    <3> QED
      BY <3>2, <3>3, <1>1, <1>2, <2>2
  <2> QED
    BY <2>1, <2>2
<1>5. h <= BlockSize => PlaceOf(h) = h
  BY <1>1, <1>2, <1>4
<1>6. BlockOf(h) = Blocks - 1 => PlaceOf(h) <= BlockSize - 1
  <2> SUFFICES ASSUME BlockOf(h) = Blocks - 1, PlaceOf(h) > BlockSize - 1 PROVE FALSE
    BY <1>1, <1>2
  <2>1. PlaceOf(h) = BlockSize
    BY <1>1, <1>2
  <2>2. (Blocks - 1) * BlockSize = BlockSize * Blocks - BlockSize
    BY <1>1
  <2> QED
    BY <2>1, <2>2, <1>1, <1>2
<1>7. PlaceOf(h) = 1 => InitLink(h) = End
  BY <1>2 DEF InitLink
<1>8. ASSUME PlaceOf(h) # 1
      PROVE  /\ InitLink(h) = h - 1 /\ h - 1 \in HandleSet
             /\ BlockOf(h - 1) = BlockOf(h) /\ PlaceOf(h - 1) = PlaceOf(h) - 1
  <2>1. InitLink(h) = h - 1
    BY <1>2, <1>8 DEF InitLink
  <2>2. PlaceOf(h) - 1 \in 1 .. BlockSize
    BY <1>1, <1>2, <1>8
  <2>3. BlockOf(h) * BlockSize \in Nat
    BY <1>1, <1>2
  <2>4. h - 1 = BlockOf(h) * BlockSize + (PlaceOf(h) - 1)
    BY <2>3, <1>1, <1>2
  <2>5. /\ BlockOf(h) * BlockSize + (PlaceOf(h) - 1) \in Nat \ {0}
        /\ BlockOf(BlockOf(h) * BlockSize + (PlaceOf(h) - 1)) = BlockOf(h)
        /\ PlaceOf(BlockOf(h) * BlockSize + (PlaceOf(h) - 1)) = PlaceOf(h) - 1
    BY <2>2, <1>2, BlockPlaceUnique
  <2>6. h - 1 \in HandleSet
    BY <2>4, <2>5, <1>1, Sizes
  <2> QED
    BY <2>1, <2>4, <2>5, <2>6
<1> QED
  BY <1>2, <1>3, <1>4, <1>5, <1>6, <1>7, <1>8

\* The last handle of each block, and the last of all.
LEMMA Heads ==
  /\ \A b \in 1 .. Blocks - 1 : /\ BlockHead(b) \in HandleSet
                               /\ BlockOf(BlockHead(b)) = b - 1 /\ PlaceOf(BlockHead(b)) = BlockSize
  /\ BlockSize * Blocks - 1 \in HandleSet
  /\ BlockOf(BlockSize * Blocks - 1) = Blocks - 1 /\ PlaceOf(BlockSize * Blocks - 1) = BlockSize - 1
  /\ BlockHead(1) = BlockSize
<1>1. /\ BlockSize \in Nat /\ BlockSize >= 2 /\ Blocks \in Nat /\ Blocks >= 2
      /\ BlockSize * Blocks \in Nat /\ HandleSet = 1 .. BlockSize * Blocks - 1
      /\ BlockSize * Blocks >= 2 * BlockSize
  BY PoolFacts, Sizes
<1>2. ASSUME NEW b \in 1 .. Blocks - 1
      PROVE  /\ BlockHead(b) \in HandleSet
             /\ BlockOf(BlockHead(b)) = b - 1 /\ PlaceOf(BlockHead(b)) = BlockSize
  <2>1. b - 1 \in Nat /\ BlockSize \in 1 .. BlockSize /\ b \in Nat
    BY <1>1
  <2>2. BlockHead(b) = (b - 1) * BlockSize + BlockSize
    BY <2>1, <1>1 DEF BlockHead
  <2>3. /\ (b - 1) * BlockSize + BlockSize \in Nat \ {0}
        /\ BlockOf((b - 1) * BlockSize + BlockSize) = b - 1
        /\ PlaceOf((b - 1) * BlockSize + BlockSize) = BlockSize
    BY <2>1, BlockPlaceUnique
  <2>4. Blocks - 1 - b \in Nat
    BY <1>1
  <2>5. (Blocks - 1 - b) * BlockSize \in Nat
    BY <2>4, <1>1
  <2>6. BlockSize * Blocks = (Blocks - 1 - b) * BlockSize + BlockHead(b) + BlockSize
    BY <2>1, <1>1 DEF BlockHead
  <2>7. BlockHead(b) \in Nat \ {0}
    BY <2>2, <2>3
  <2>8. BlockHead(b) <= BlockSize * Blocks - 1
    BY <2>5, <2>6, <2>7, <1>1
  <2> QED
    BY <2>2, <2>3, <2>7, <2>8, <1>1
<1>3. /\ BlockSize * Blocks - 1 \in HandleSet
      /\ BlockOf(BlockSize * Blocks - 1) = Blocks - 1
      /\ PlaceOf(BlockSize * Blocks - 1) = BlockSize - 1
  <2>1. Blocks - 1 \in Nat /\ BlockSize - 1 \in 1 .. BlockSize
    BY <1>1
  <2>2. BlockSize * Blocks - 1 = (Blocks - 1) * BlockSize + (BlockSize - 1)
    BY <1>1
  <2>3. /\ BlockOf((Blocks - 1) * BlockSize + (BlockSize - 1)) = Blocks - 1
        /\ PlaceOf((Blocks - 1) * BlockSize + (BlockSize - 1)) = BlockSize - 1
    BY <2>1, BlockPlaceUnique
  <2>4. BlockSize * Blocks - 1 \in HandleSet
    BY <1>1
  <2> QED
    BY <2>2, <2>3, <2>4
<1>4. BlockHead(1) = BlockSize
  BY <1>1 DEF BlockHead
<1> QED
  BY <1>2, <1>3, <1>4

\* The slots with a block at the start are those of the queue.
LEMMA StartSlots ==
  ASSUME PoolInit
  PROVE  /\ stack["fifo"] \in Seq(Indices) /\ Len(stack["fifo"]) = Blocks - 1
         /\ stack["free"] \in Seq(Indices)
         /\ stack["fifo"][Blocks - 1] = FirstSlot
         /\ OnStack("fifo") = {i \in Indices : MaxLen - i < Blocks}
         /\ OnStack("free") = {i \in Indices : ~(MaxLen - i < Blocks)}
         /\ BlockSlots = {i \in Indices : MaxLen - i < Blocks}
         /\ FullSlots = {i \in Indices : MaxLen - i \in 2 .. Blocks - 1}
         /\ \A q \in Lists : \A j, k \in DOMAIN stack[q] : stack[q][j] = stack[q][k] => j = k
<1>1. /\ stack["fifo"] = [k \in 1 .. Blocks - 1 |-> MaxLen - Blocks + k]
      /\ stack["free"] = [k \in 1 .. MaxLen - Blocks + 1 |-> MaxLen - Blocks + 1 - k]
  BY DEF PoolInit, Lists
<1>2. Blocks \in Nat /\ Blocks >= 2 /\ MaxLen \in Nat /\ MaxLen > Blocks /\ FirstSlot = MaxLen - 1
  BY PoolFacts, Sizes
<1>3. DOMAIN stack["fifo"] = 1 .. Blocks - 1 /\ DOMAIN stack["free"] = 1 .. MaxLen - Blocks + 1
  BY <1>1
<1>4. \A k \in 1 .. Blocks - 1 : stack["fifo"][k] = MaxLen - Blocks + k
  BY <1>1
<1>5. \A k \in 1 .. MaxLen - Blocks + 1 : stack["free"][k] = MaxLen - Blocks + 1 - k
  BY <1>1
<1>6. stack["fifo"] \in Seq(Indices) /\ Len(stack["fifo"]) = Blocks - 1
  <2>1. stack["fifo"] \in [1 .. Blocks - 1 -> Indices]
    BY <1>1, <1>2 DEF Indices
  <2> QED
    BY <2>1, <1>2
<1>7. stack["free"] \in Seq(Indices)
  <2>1. stack["free"] \in [1 .. MaxLen - Blocks + 1 -> Indices]
    BY <1>1, <1>2 DEF Indices
  <2>2. MaxLen - Blocks + 1 \in Nat
    BY <1>2
  <2> QED
    BY <2>1, <2>2
<1>8. stack["fifo"][Blocks - 1] = FirstSlot
  BY <1>2, <1>4
<1>9. OnStack("fifo") = {i \in Indices : MaxLen - i < Blocks}
  <2>1. ASSUME NEW i \in Indices, MaxLen - i < Blocks PROVE i \in OnStack("fifo")
    <3>1. i - (MaxLen - Blocks) \in 1 .. Blocks - 1
      BY <2>1, <1>2 DEF Indices
    <3>2. stack["fifo"][i - (MaxLen - Blocks)] = i
      BY <3>1, <1>2, <1>4 DEF Indices
    <3> QED
      BY <3>1, <3>2, <1>3 DEF OnStack
  <2>2. ASSUME NEW k \in 1 .. Blocks - 1
        PROVE  stack["fifo"][k] \in Indices /\ MaxLen - stack["fifo"][k] < Blocks
    BY <1>2, <1>4 DEF Indices
  <2> QED
    BY <2>1, <2>2, <1>3 DEF OnStack
<1>10. OnStack("free") = {i \in Indices : ~(MaxLen - i < Blocks)}
  <2>1. ASSUME NEW i \in Indices, ~(MaxLen - i < Blocks) PROVE i \in OnStack("free")
    <3>1. (MaxLen - Blocks + 1) - i \in 1 .. MaxLen - Blocks + 1
      BY <2>1, <1>2 DEF Indices
    <3>2. stack["free"][(MaxLen - Blocks + 1) - i] = i
      BY <3>1, <1>2, <1>5 DEF Indices
    <3> QED
      BY <3>1, <3>2, <1>3 DEF OnStack
  <2>2. ASSUME NEW k \in 1 .. MaxLen - Blocks + 1
        PROVE  stack["free"][k] \in Indices /\ ~(MaxLen - stack["free"][k] < Blocks)
    BY <1>2, <1>5 DEF Indices
  <2> QED
    BY <2>1, <2>2, <1>3 DEF OnStack
<1>11. BlockSlots = {i \in Indices : MaxLen - i < Blocks}
  <2>1. {held[n] : n \in {m \in taken : held[m] # -1 /\ handleList[m] = End}} = {}
    BY DEF PoolInit
  <2>2. BlockSlots = OnStack("fifo") \cup
                     {held[n] : n \in {m \in taken : held[m] # -1 /\ handleList[m] = End}}
    BY DEF BlockSlots, OnStack
  <2> QED
    BY <2>1, <2>2, <1>9
<1>12. FullSlots = {i \in Indices : MaxLen - i \in 2 .. Blocks - 1}
  BY <1>2, <1>11 DEF FullSlots, Indices
<1>13. \A q \in Lists : \A j, k \in DOMAIN stack[q] : stack[q][j] = stack[q][k] => j = k
  <2>1. \A j, k \in 1 .. Blocks - 1 : stack["fifo"][j] = stack["fifo"][k] => j = k
    BY <1>2, <1>4
  <2>2. \A j, k \in 1 .. MaxLen - Blocks + 1 : stack["free"][j] = stack["free"][k] => j = k
    BY <1>2, <1>5
  <2> QED
    BY <2>1, <2>2, <1>3 DEF Lists
<1> QED
  BY <1>6, <1>7, <1>8, <1>9, <1>10, <1>11, <1>12, <1>13

LEMMA StartTyped ==
  ASSUME PoolInit
  PROVE  PoolTypeOK
<1>1. data \in [Indices -> HandleSet \cup {End}]
  <2>1. ASSUME NEW i \in Indices, MaxLen - i < Blocks PROVE BlockHead(MaxLen - i) \in HandleSet
    <3>1. MaxLen - i \in 1 .. Blocks - 1
      BY <2>1, PoolFacts DEF Indices
    <3> QED
      BY <3>1, Heads
  <2>2. data = [i \in Indices |-> IF MaxLen - i < Blocks THEN BlockHead(MaxLen - i) ELSE End]
    BY DEF PoolInit
  <2> QED
    BY <2>1, <2>2
<1>2. link \in [HandleSet -> HandleSet \cup {End, Object}]
  <2>1. \A h \in HandleSet : InitLink(h) \in HandleSet \cup {End, Object}
    BY StartFacts
  <2>2. link = [h \in HandleSet |-> InitLink(h)]
    BY DEF PoolInit
  <2> QED
    BY <2>1, <2>2
<1>3. 1 \in HandleSet /\ BlockSize * Blocks - 1 \in HandleSet /\ BlockSize - 1 \in 0 .. BlockSize
  BY Heads, Sizes, PoolFacts
<1>4. handleList \in [Numbers -> HandleSet \cup {End}] /\ held \in [Threads -> Indices \cup {-1}]
  BY <1>3 DEF PoolInit
<1>5. stack \in [Lists -> Seq(Indices)]
  <2>1. \A q \in Lists : stack[q] \in Seq(Indices)
    BY StartSlots DEF Lists
  <2> HIDE DEF Lists
  <2>2. stack = [q \in Lists |-> stack[q]]
    BY DEF PoolInit
  <2> QED
    BY <2>1, <2>2
<1>6. released \in Seq(HandleSet) /\ objects \in [HandleSet -> Nat]
  BY DEF PoolInit
<1>7. /\ taken \subseteq Numbers /\ listed \subseteq Numbers /\ given \subseteq Numbers \ taken
      /\ unqueued \in 0 .. BlockSize
      /\ prevUnqueued \in HandleSet \cup {End} /\ cursor \in HandleSet \cup {End}
      /\ gc \in {"idle", "draining", "sweeping"}
      /\ broken \subseteq {"inherited", "drained"} /\ wild \in BOOLEAN
  BY <1>3 DEF PoolInit
<1> QED
  BY <1>1, <1>2, <1>4, <1>5, <1>6, <1>7 DEF PoolTypeOK

StartWhere(h) ==
  IF h = 1 THEN InList(First)
  ELSE IF h <= BlockSize THEN InFirst
  ELSE IF BlockOf(h) = Blocks - 1 THEN InUnqueued ELSE InSlot(MaxLen - 1 - BlockOf(h))

\* The names of the piles of the start, turned round.
LEMMA StartPiles ==
  ASSUME NEW w, w = [h \in HandleSet |-> StartWhere(h)], NEW h \in HandleSet
  PROVE  /\ w[h] \in Piles \cup {InObject, InFirst} /\ w[h] # InObject
         /\ w[h] = InFirst <=> h \in 2 .. BlockSize
         /\ w[h] = InUnqueued <=> BlockOf(h) = Blocks - 1
         /\ w[h] # InCursor /\ \A k : w[h] # InReleased(k)
         /\ \A n : w[h] = InList(n) <=> h = 1 /\ n = First
         /\ \A i \in Indices : w[h] = InSlot(i) <=> BlockOf(h) = MaxLen - 1 - i
                                                     /\ MaxLen - i \in 2 .. Blocks - 1
<1>1. w[h] = StartWhere(h)
  OBVIOUS
<1>2. /\ BlockOf(h) \in 0 .. Blocks - 1 /\ (BlockOf(h) = 0 <=> h <= BlockSize)
      /\ h \in Nat \ {0} /\ MaxLen \in Nat /\ MaxLen > Blocks
      /\ Blocks \in Nat /\ Blocks >= 2 /\ BlockSize \in Nat /\ BlockSize >= 2
      /\ First \in Numbers
  BY StartFacts, Sizes, PoolFacts
<1>3. CASE h = 1
  <2>1. w[h] = InList(First) /\ BlockOf(h) = 0
    BY <1>1, <1>2, <1>3 DEF StartWhere
  <2>2. \A i \in Indices : ~(BlockOf(h) = MaxLen - 1 - i /\ MaxLen - i \in 2 .. Blocks - 1)
    BY <2>1, <1>2 DEF Indices
  <2>3. ~(h \in 2 .. BlockSize) /\ BlockOf(h) # Blocks - 1
    BY <2>1, <1>2, <1>3
  <2> QED
    BY <2>1, <2>2, <2>3, <1>2, <1>3, PileNames
<1>4. CASE h # 1 /\ h <= BlockSize
  <2>1. w[h] = InFirst /\ BlockOf(h) = 0
    BY <1>1, <1>2, <1>4 DEF StartWhere
  <2>2. \A i \in Indices : ~(BlockOf(h) = MaxLen - 1 - i /\ MaxLen - i \in 2 .. Blocks - 1)
    BY <2>1, <1>2 DEF Indices
  <2>3. h \in 2 .. BlockSize /\ BlockOf(h) # Blocks - 1
    BY <2>1, <1>2, <1>4
  <2>4. /\ InFirst # InObject /\ InFirst # InUnqueued /\ InFirst # InCursor
        /\ \A n : InFirst # InList(n) /\ InFirst # InSlot(n) /\ InFirst # InReleased(n)
    BY DEF InFirst, InObject, InUnqueued, InCursor, InList, InSlot, InReleased
  <2> QED
    BY <2>1, <2>2, <2>3, <2>4, <1>4
<1>5. CASE h # 1 /\ ~(h <= BlockSize) /\ BlockOf(h) = Blocks - 1
  <2>1. w[h] = InUnqueued
    BY <1>1, <1>5 DEF StartWhere
  <2>2. \A i \in Indices : ~(BlockOf(h) = MaxLen - 1 - i /\ MaxLen - i \in 2 .. Blocks - 1)
    BY <1>2, <1>5 DEF Indices
  <2>3. ~(h \in 2 .. BlockSize)
    BY <1>2, <1>5
  <2> QED
    BY <2>1, <2>2, <2>3, <1>5, PileNames
<1>6. CASE h # 1 /\ ~(h <= BlockSize) /\ BlockOf(h) # Blocks - 1
  <2> DEFINE j == MaxLen - 1 - BlockOf(h)
  <2>1. w[h] = InSlot(j)
    BY <1>1, <1>6 DEF StartWhere
  <2>2. j \in Indices /\ BlockOf(h) \in 1 .. Blocks - 2
    BY <1>2, <1>6 DEF Indices
  <2>3. \A i \in Indices : BlockOf(h) = MaxLen - 1 - i /\ MaxLen - i \in 2 .. Blocks - 1 <=> i = j
    BY <2>2, <1>2 DEF Indices
  <2>4. ~(h \in 2 .. BlockSize)
    BY <1>2, <1>6
  <2> HIDE DEF j
  <2>5. /\ InSlot(j) \in Piles /\ InSlot(j) # InUnqueued /\ InSlot(j) # InCursor
        /\ InSlot(j) # InObject /\ InSlot(j) # InFirst
        /\ \A n : InSlot(j) # InList(n) /\ InSlot(j) # InReleased(n)
    BY <2>2, PileNames
  <2>6. \A i : InSlot(j) = InSlot(i) <=> i = j
    BY PileNames
  <2>7. \A i \in Indices : w[h] = InSlot(i) <=> BlockOf(h) = MaxLen - 1 - i
                                                /\ MaxLen - i \in 2 .. Blocks - 1
    BY <2>1, <2>3, <2>6
  <2> QED
    BY <2>1, <2>4, <2>5, <2>7, <1>6
<1> QED
  BY <1>3, <1>4, <1>5, <1>6

LEMMA StartPiled ==
  ASSUME PoolInit, NEW w, w = [h \in HandleSet |-> StartWhere(h)],
         NEW p, p = [h \in HandleSet |-> PlaceOf(h)],
         NEW top, top \in [Piles -> HandleSet \cup {End}], Tops(top)
  PROVE  Piled(link, w, p, top)
<1>1. \A h \in HandleSet : p[h] = PlaceOf(h) /\ PlaceOf(h) \in Nat \ {0}
  BY StartFacts, PoolFacts
<1>2. w \in [HandleSet -> Piles \cup {InObject, InFirst}] /\ p \in [HandleSet -> Nat \ {0}]
  <2>1. \A h \in HandleSet : StartWhere(h) \in Piles \cup {InObject, InFirst}
    BY StartPiles
  <2> QED
    BY <2>1, <1>1
<1>3. \A h \in HandleSet : link[h] = InitLink(h)
  BY DEF PoolInit
<1>4. ASSUME NEW n \in Numbers PROVE Stacked(w, p, top, InList(n))
  <2>1. top[InList(n)] = IF n = First THEN 1 ELSE End
    BY <1>4 DEF Tops, PoolInit
  <2>2. \A h \in HandleSet : w[h] = InList(n) <=> h = 1 /\ n = First
    BY StartPiles
  <2>3. 1 \in HandleSet /\ 1 # End /\ p[1] <= p[1]
    BY <1>1, Sizes, PoolFacts
  <2> QED
    BY <2>1, <2>2, <2>3 DEF Stacked
<1>5. ASSUME NEW i \in Indices PROVE Stacked(w, p, top, InSlot(i))
  <2>1. \A h \in HandleSet : w[h] = InSlot(i) <=> BlockOf(h) = MaxLen - 1 - i
                                                    /\ MaxLen - i \in 2 .. Blocks - 1
    BY StartPiles
  <2>2. top[InSlot(i)] = IF MaxLen - i \in 2 .. Blocks - 1 THEN data[i] ELSE End
    BY <1>5, StartSlots DEF Tops
  <2>3. CASE MaxLen - i \in 2 .. Blocks - 1
    <3>1. data[i] = BlockHead(MaxLen - i) /\ MaxLen - i \in 1 .. Blocks - 1
      BY <2>3, PoolFacts DEF PoolInit, Indices
    <3>2. /\ data[i] \in HandleSet /\ PlaceOf(data[i]) = BlockSize
          /\ BlockOf(data[i]) = (MaxLen - i) - 1
      BY <3>1, Heads
    <3>3. (MaxLen - i) - 1 = MaxLen - 1 - i
      BY PoolFacts DEF Indices
    <3>4. \A h \in HandleSet : p[h] <= BlockSize
      BY <1>1, StartFacts, PoolFacts
    <3>5. p[data[i]] = BlockSize
      BY <3>2, <1>1
    <3> QED
      BY <2>1, <2>2, <2>3, <3>2, <3>3, <3>4, <3>5 DEF Stacked
  <2>4. CASE ~(MaxLen - i \in 2 .. Blocks - 1)
    BY <2>1, <2>2, <2>4 DEF Stacked
  <2> QED
    BY <2>3, <2>4
<1>6. ASSUME NEW k \in Nat PROVE Stacked(w, p, top, InReleased(k))
  <2>1. released = <<>> /\ Len(released) = 0
    BY DEF PoolInit
  <2>2. top[InReleased(k)] = End
    BY <1>6, <2>1 DEF Tops, Released
  <2> QED
    BY <2>2, StartPiles DEF Stacked
<1>7. Stacked(w, p, top, InCursor)
  <2>1. top[InCursor] = End
    BY DEF Tops, PoolInit
  <2> QED
    BY <2>1, StartPiles DEF Stacked
<1>8. Stacked(w, p, top, InUnqueued)
  <2>1. top[InUnqueued] = BlockSize * Blocks - 1
    BY DEF Tops, PoolInit
  <2>2. \A h \in HandleSet : w[h] = InUnqueued <=> BlockOf(h) = Blocks - 1
    BY StartPiles
  <2>3. \A h \in HandleSet : BlockOf(h) = Blocks - 1 => PlaceOf(h) <= BlockSize - 1
    BY StartFacts
  <2> QED
    BY <2>1, <2>2, <2>3, <1>1, Heads DEF Stacked
<1>9. \A x \in Piles : Stacked(w, p, top, x)
  BY <1>4, <1>5, <1>6, <1>7, <1>8, PileNames DEF IsNumbered
<1>10. ASSUME NEW g \in HandleSet, NEW h \in HandleSet, w[g] = w[h], w[h] \in Piles,
              h # 1 \/ g # 1
       PROVE  BlockOf(g) = BlockOf(h)
  <2>1. \A f \in HandleSet : BlockOf(f) \in Nat
    BY StartFacts
  <2>2. CASE w[h] = InUnqueued
    BY <2>2, <1>10, StartPiles
  <2>3. CASE \E n \in Numbers : w[h] = InList(n)
    BY <2>3, <1>10, StartPiles
  <2>4. CASE \E i \in Indices : w[h] = InSlot(i)
    BY <2>4, <1>10, StartPiles
  <2>5. w[h] # InCursor /\ \A k \in Nat : w[h] # InReleased(k)
    BY StartPiles
  <2> QED
    BY <2>2, <2>3, <2>4, <2>5, <1>10, PileNames DEF IsNumbered
<1>11. ASSUME NEW h \in HandleSet, w[h] \in Piles PROVE Below(link, w, p, h)
  <2>1. CASE PlaceOf(h) = 1
    BY <2>1, <1>1, <1>3, StartFacts DEF Below
  <2>2. CASE PlaceOf(h) # 1
    <3>1. /\ InitLink(h) = h - 1 /\ h - 1 \in HandleSet
          /\ BlockOf(h - 1) = BlockOf(h) /\ PlaceOf(h - 1) = PlaceOf(h) - 1
      BY <2>2, StartFacts
    <3>2. h > BlockSize
      <4>1. h \in Nat \ {0} /\ BlockSize \in Nat /\ BlockSize >= 2
        BY Sizes, PoolFacts
      <4>2. h # 1
        BY <2>2, <4>1, StartFacts
      <4>3. ~(h \in 2 .. BlockSize)
        BY <1>11, StartPiles, PileNames
      <4> QED
        BY <4>1, <4>2, <4>3
    <3>3. w[h - 1] = w[h]
      <4>1. h \in Nat \ {0} /\ BlockSize \in Nat /\ BlockSize >= 2
        BY Sizes, PoolFacts
      <4>2. BlockOf(h) # 0 /\ BlockOf(h - 1) # 0
        BY <3>1, <3>2, <4>1, StartFacts
      <4>3. h # 1 /\ h - 1 # 1 /\ ~(h <= BlockSize) /\ ~(h - 1 <= BlockSize)
        BY <3>1, <3>2, <4>1, <4>2, StartFacts
      <4>4. StartWhere(h - 1) = StartWhere(h)
        BY <3>1, <4>3 DEF StartWhere
      <4> QED
        BY <3>1, <4>4
    <3> QED
      BY <2>2, <3>1, <3>3, <1>1, <1>3 DEF Below
  <2> QED
    BY <2>1, <2>2
<1>12. ASSUME NEW g \in HandleSet, NEW h \in HandleSet, w[g] = w[h], w[h] \in Piles, p[g] = p[h]
       PROVE  g = h
  <2>1. CASE h = 1 /\ g = 1
    BY <2>1
  <2>2. CASE h # 1 \/ g # 1
    <3>1. BlockOf(g) = BlockOf(h) /\ PlaceOf(g) = PlaceOf(h)
      BY <2>2, <1>1, <1>10, <1>12
    <3>2. g \in Nat \ {0} /\ h \in Nat \ {0}
      BY Sizes
    <3> QED
      BY <3>1, <3>2, BlockAndPlace
  <2> QED
    BY <2>1, <2>2
<1> QED
  BY <1>2, <1>9, <1>11, <1>12 DEF Piled

LEMMA StartSound ==
  ASSUME PoolInit
  PROVE  PoolInv
<1> DEFINE w == [h \in HandleSet |-> StartWhere(h)]
           p == [h \in HandleSet |-> PlaceOf(h)]
           top == [x \in Piles |->
                     IF \E n \in Numbers : x = InList(n)
                     THEN handleList[CHOOSE n \in Numbers : x = InList(n)]
                     ELSE IF \E i \in FullSlots : x = InSlot(i)
                     THEN data[CHOOSE i \in FullSlots : x = InSlot(i)]
                     ELSE IF x = InUnqueued THEN prevUnqueued ELSE End]
           lost == [n \in Numbers |-> FirstSlot]
<1>1. PoolTypeOK
  BY StartTyped
<1>2. FullSlots \subseteq Indices
  BY StartSlots
<1>3. top \in [Piles -> HandleSet \cup {End}] /\ Tops(top)
  <2>1. /\ data \in [Indices -> HandleSet \cup {End}]
        /\ handleList \in [Numbers -> HandleSet \cup {End}] /\ prevUnqueued \in HandleSet \cup {End}
    BY <1>1 DEF PoolTypeOK
  <2>2. ASSUME NEW n \in Numbers PROVE top[InList(n)] = handleList[n]
    <3>1. (CHOOSE m \in Numbers : InList(n) = InList(m)) = n
      BY PileNames
    <3>2. InList(n) \in Piles
      BY PileNames
    <3> QED
      BY <3>1, <3>2
  <2>3. ASSUME NEW i \in FullSlots PROVE top[InSlot(i)] = data[i]
    <3>1. (CHOOSE j \in FullSlots : InSlot(i) = InSlot(j)) = i
      BY PileNames
    <3>2. InSlot(i) \in Piles /\ \A n \in Numbers : InSlot(i) # InList(n)
      BY <1>2, PileNames
    <3> QED
      BY <3>1, <3>2
  <2>4. ASSUME NEW i \in Indices, i \notin FullSlots PROVE top[InSlot(i)] = End
    <3>1. /\ InSlot(i) \in Piles /\ InSlot(i) # InUnqueued
          /\ \A n \in Numbers : InSlot(i) # InList(n)
          /\ \A j \in FullSlots : InSlot(i) # InSlot(j)
      BY <2>4, PileNames
    <3> QED
      BY <3>1
  <2>5. ASSUME NEW k \in Nat PROVE top[InReleased(k)] = End
    <3>1. /\ InReleased(k) \in Piles /\ InReleased(k) # InUnqueued
          /\ \A n : InReleased(k) # InList(n) /\ InReleased(k) # InSlot(n)
      BY PileNames
    <3> QED
      BY <3>1
  <2>6. top[InUnqueued] = prevUnqueued /\ top[InCursor] = End
    <3>1. /\ InUnqueued \in Piles /\ InCursor \in Piles /\ InUnqueued # InCursor
          /\ \A n : InUnqueued # InList(n) /\ InUnqueued # InSlot(n)
          /\ \A n : InCursor # InList(n) /\ InCursor # InSlot(n)
      BY PileNames
    <3> QED
      BY <3>1
  <2>7. top \in [Piles -> HandleSet \cup {End}]
    <3>1. ASSUME NEW x \in Piles PROVE top[x] \in HandleSet \cup {End}
      <4> HIDE DEF top
      <4>1. CASE x = InUnqueued \/ x = InCursor
        BY <4>1, <2>1, <2>6
      <4>2. CASE \E n \in Numbers : x = InList(n)
        BY <4>2, <2>1, <2>2
      <4>3. CASE \E i \in Indices : x = InSlot(i)
        BY <4>3, <2>1, <2>3, <2>4
      <4>4. CASE \E k \in Nat : x = InReleased(k)
        BY <4>4, <2>5
      <4> QED
        BY <4>1, <4>2, <4>3, <4>4, PileNames DEF IsNumbered
    <3>2. top = [x \in Piles |-> top[x]]
      OBVIOUS
    <3> HIDE DEF top
    <3> QED
      BY <3>1, <3>2
  <2>8. given = {} /\ cursor = End /\ released = <<>> /\ \A k \in Nat : Released(k) = End
    BY DEF PoolInit, Released
  <2> HIDE DEF top
  <2> QED
    BY <2>2, <2>3, <2>4, <2>5, <2>6, <2>7, <2>8 DEF Tops
<1> HIDE DEF w, p, top, lost
<1>4. Piled(link, w, p, top)
  BY <1>3, StartPiled DEF w, p
<1>5. \A h \in HandleSet : p[h] = PlaceOf(h) /\ link[h] = InitLink(h)
  BY DEF p, PoolInit
<1>6. FirstBlock(w, p)
  <2>1. \A h \in HandleSet : w[h] = InFirst <=> h \in 2 .. BlockSize
    BY StartPiles DEF w
  <2>2. ASSUME NEW h \in 2 .. BlockSize PROVE link[h] = h - 1
    <3>1. h \in HandleSet /\ h <= BlockSize /\ h # 1
      BY Sizes, PoolFacts
    <3> QED
      BY <3>1, <1>5, StartFacts
  <2>3. data[FirstSlot] = BlockSize
    <3>1. MaxLen - FirstSlot = 1 /\ 1 < Blocks /\ FirstSlot \in Indices
      BY Sizes, PoolFacts
    <3>2. data[FirstSlot] = BlockHead(MaxLen - FirstSlot)
      BY <3>1 DEF PoolInit
    <3> QED
      BY <3>1, <3>2, Heads
  <2>4. stack["fifo"] # <<>> /\ stack["fifo"][Len(stack["fifo"])] = FirstSlot
    <3>1. Len(stack["fifo"]) = Blocks - 1 /\ stack["fifo"][Blocks - 1] = FirstSlot
      BY StartSlots
    <3>2. Blocks - 1 # 0
      BY PoolFacts
    <3>3. Len(<<>>) = 0
      OBVIOUS
    <3> QED
      BY <3>1, <3>2, <3>3
  <2>5. First \notin listed /\ handleList[First] = 1 /\ w[1] = InList(First) /\ p[1] = 1
    <3>1. 1 \in HandleSet /\ 1 <= BlockSize /\ First \in Numbers
      BY Sizes, PoolFacts
    <3>2. w[1] = InList(First)
      BY <3>1 DEF w, StartWhere
    <3>3. p[1] = 1
      BY <3>1, <1>5, StartFacts
    <3> QED
      BY <3>1, <3>2, <3>3 DEF PoolInit
  <2> QED
    BY <2>1, <2>2, <2>3, <2>4, <2>5 DEF FirstBlock
<1>7. Owned(w)
  <2>1. \A h \in HandleSet : w[h] # InObject
    BY StartPiles DEF w
  <2> QED
    BY <2>1 DEF Owned, PoolInit
<1>8. BlocksOK(p)
  <2>1. ASSUME NEW i \in FullSlots PROVE data[i] \in HandleSet /\ p[data[i]] = BlockSize
    <3>0. i \in {j \in Indices : MaxLen - j \in 2 .. Blocks - 1}
      BY StartSlots, Zenon
    <3>1. i \in Indices /\ MaxLen - i \in 1 .. Blocks - 1 /\ MaxLen - i < Blocks
      BY <3>0, PoolFacts DEF Indices
    <3>2. data[i] = BlockHead(MaxLen - i)
      BY <3>1 DEF PoolInit
    <3> QED
      BY <3>1, <3>2, <1>5, Heads
  <2>2. unqueued = p[prevUnqueued] /\ prevUnqueued # End /\ unqueued # BlockSize
    <3>1. prevUnqueued = BlockSize * Blocks - 1 /\ unqueued = BlockSize - 1
      BY DEF PoolInit
    <3>2. prevUnqueued \in HandleSet /\ PlaceOf(prevUnqueued) = BlockSize - 1
      BY <3>1, Heads
    <3> QED
      BY <3>1, <3>2, <1>5, PoolFacts
  <2>3. held[Collector] = -1
    BY PoolFacts DEF PoolInit
  <2> QED
    BY <2>1, <2>2, <2>3 DEF BlocksOK
<1>9. SlotsOK(lost)
  <2>1. \A u \in Threads : held[u] = -1
    BY DEF PoolInit
  <2>2. -1 \notin OnStack("fifo") \cup OnStack("free")
    <3>1. -1 \notin Indices
      BY PoolFacts DEF Indices
    <3> QED
      BY <3>1, StartSlots
  <2>3. OnStack("fifo") \cap OnStack("free") = {} /\ Indices \subseteq OnStack("fifo") \cup OnStack("free")
    BY StartSlots
  <2> QED
    BY <2>1, <2>2, <2>3, StartSlots DEF SlotsOK
<1>10. lost \in [Numbers -> Indices] /\ HandsFull
  <2>1. \A n \in Numbers : held[n] = -1
    BY PoolFacts DEF PoolInit
  <2> QED
    BY <2>1, Sizes DEF lost, HandsFull
<1>11. Sound(w, p, top, lost)
  BY <1>3, <1>4, <1>6, <1>7, <1>8, <1>9, <1>10 DEF Sound
<1> QED
  BY <1>1, <1>11 DEF PoolInv, PoolInit

-----------------------------------------------------------------------------
(* The slots of the block queue *)

LEMMA InBlockSlots ==
  /\ \A i : i \in BlockSlots <=> \/ i \in OnStack("fifo")
                                 \/ \E n \in taken : held[n] = i /\ i # -1 /\ handleList[n] = End
  /\ \A i : i \in BlockSlots' <=> \/ i \in OnStack("fifo")'
                                  \/ \E n \in taken' : held'[n] = i /\ i # -1 /\ handleList'[n] = End
<1>1. \A i : i \in BlockSlots <=> \/ i \in OnStack("fifo")
                                  \/ \E n \in taken : held[n] = i /\ i # -1 /\ handleList[n] = End
  BY DEF BlockSlots, OnStack
<1>2. \A i : i \in BlockSlots' <=> \/ i \in OnStack("fifo")'
                                   \/ \E n \in taken' : held'[n] = i /\ i # -1 /\ handleList'[n] = End
  BY DEF BlockSlots, OnStack
<1> QED
  BY <1>1, <1>2

\* The slots are where they were as long as nobody pops, pushes or gives a list away.
LEMMA SlotsKept ==
  ASSUME NEW lost, SlotsOK(lost), stack' = stack, held' = held, given' = given
  PROVE  SlotsOK(lost)'
<1>1. OnStack("fifo")' = OnStack("fifo") /\ OnStack("free")' = OnStack("free")
  BY DEF OnStack
<1> QED
  BY <1>1 DEF SlotsOK

\* A thread that pops has the slot instead of the stack.
LEMMA PopSlot ==
  ASSUME PoolTypeOK, NEW lost, SlotsOK(lost), given' = given,
         NEW u \in Threads, NEW q \in Lists, Pop(u, q)
  PROVE  /\ stack' \in [Lists -> Seq(Indices)] /\ held' \in [Threads -> Indices \cup {-1}]
         /\ held'[u] \in OnStack(q) /\ held'[u] \in Indices /\ held'[u] # -1
         /\ \A v \in Threads \ {u} : held'[v] = held[v]
         /\ \A r \in Lists \ {q} : stack'[r] = stack[r] /\ OnStack(r)' = OnStack(r)
         /\ stack'[q] = Tail(stack[q]) /\ stack[q] # <<>>
         /\ OnStack(q)' = OnStack(q) \ {held'[u]}
         /\ SlotsOK(lost)'
<1> DEFINE s == Head(stack[q])
<1>1. /\ stack \in [Lists -> Seq(Indices)] /\ stack[q] \in Seq(Indices) /\ stack[q] # <<>>
      /\ held \in [Threads -> Indices \cup {-1}] /\ held[u] = -1
      /\ held' = [held EXCEPT ![u] = s] /\ stack' = [stack EXCEPT ![q] = Tail(stack[q])]
  BY DEF PoolTypeOK, Pop
<1>2. /\ Len(stack[q]) \in Nat \ {0} /\ DOMAIN stack[q] = 1 .. Len(stack[q]) /\ s = stack[q][1]
      /\ s \in Indices /\ Tail(stack[q]) \in Seq(Indices)
      /\ DOMAIN Tail(stack[q]) = 1 .. Len(stack[q]) - 1
      /\ \A k \in 1 .. Len(stack[q]) - 1 : Tail(stack[q])[k] = stack[q][k + 1]
  BY <1>1
<1> HIDE DEF s
<1>3. -1 \notin Indices
  BY PoolFacts DEF Indices
<1>4. /\ stack' \in [Lists -> Seq(Indices)] /\ held' \in [Threads -> Indices \cup {-1}]
      /\ held'[u] = s /\ \A v \in Threads \ {u} : held'[v] = held[v]
      /\ stack'[q] = Tail(stack[q]) /\ \A r \in Lists \ {q} : stack'[r] = stack[r]
  BY <1>1, <1>2
<1>5. \A r \in Lists : \A j, k \in DOMAIN stack[r] : stack[r][j] = stack[r][k] => j = k
  BY DEF SlotsOK
<1>6. s \in OnStack(q)
  BY <1>2 DEF OnStack
<1>7. \A r \in Lists \ {q} : OnStack(r)' = OnStack(r)
  BY <1>4 DEF OnStack
<1>8. OnStack(q)' = OnStack(q) \ {s}
  <2>1. OnStack(q)' = {Tail(stack[q])[k] : k \in 1 .. Len(stack[q]) - 1}
    <3>1. OnStack(q)' = {stack'[q][k] : k \in DOMAIN stack'[q]}
      BY DEF OnStack
    <3>2. stack'[q] = Tail(stack[q]) /\ DOMAIN Tail(stack[q]) = 1 .. Len(stack[q]) - 1
      BY <1>2, <1>4
    <3> QED
      BY <3>1, <3>2
  <2>2. OnStack(q) = {stack[q][k] : k \in 1 .. Len(stack[q])}
    BY <1>2 DEF OnStack
  <2>3. ASSUME NEW k \in 1 .. Len(stack[q]) - 1 PROVE Tail(stack[q])[k] \in OnStack(q) \ {s}
    <3>1. k + 1 \in 1 .. Len(stack[q]) /\ 1 \in 1 .. Len(stack[q]) /\ k + 1 # 1
      BY <1>2
    <3>2. stack[q][k + 1] # stack[q][1]
      BY <3>1, <1>2, <1>5
    <3> QED
      BY <3>1, <3>2, <2>2, <1>2
  <2>4. ASSUME NEW k \in 1 .. Len(stack[q]), stack[q][k] # s
        PROVE  stack[q][k] \in {Tail(stack[q])[j] : j \in 1 .. Len(stack[q]) - 1}
    <3>1. k - 1 \in 1 .. Len(stack[q]) - 1 /\ (k - 1) + 1 = k
      BY <2>4, <1>2
    <3>2. Tail(stack[q])[k - 1] = stack[q][k]
      BY <3>1, <1>2
    <3> QED
      BY <3>1, <3>2
  <2> QED
    BY <2>1, <2>2, <2>3, <2>4
<1>9. \A r \in Lists : \A j, k \in DOMAIN stack'[r] : stack'[r][j] = stack'[r][k] => j = k
  <2>1. ASSUME NEW j \in 1 .. Len(stack[q]) - 1, NEW k \in 1 .. Len(stack[q]) - 1,
               Tail(stack[q])[j] = Tail(stack[q])[k]
        PROVE  j = k
    <3>1. /\ j + 1 \in DOMAIN stack[q] /\ k + 1 \in DOMAIN stack[q]
          /\ stack[q][j + 1] = stack[q][k + 1]
      BY <2>1, <1>2
    <3>2. j + 1 = k + 1
      BY <3>1, <1>5
    <3> QED
      BY <3>2, <1>2
  <2>2. \A j, k \in DOMAIN stack'[q] : stack'[q][j] = stack'[q][k] => j = k
    BY <2>1, <1>2, <1>4
  <2>3. \A r \in Lists \ {q} : \A j, k \in DOMAIN stack'[r] : stack'[r][j] = stack'[r][k] => j = k
    BY <1>4, <1>5
  <2> QED
    BY <2>2, <2>3
<1>10. /\ OnStack("fifo") \cap OnStack("free") = {}
       /\ \A v \in Threads : held[v] \notin OnStack("fifo") \cup OnStack("free")
       /\ \A v, t2 \in Threads : held[v] # -1 /\ held[v] = held[t2] => v = t2
       /\ \A i \in Indices : \/ i \in OnStack("fifo") \cup OnStack("free")
                             \/ \E v \in Threads : held[v] = i
                             \/ \E n \in given : lost[n] = i
  BY DEF SlotsOK
<1>11. q = "fifo" \/ q = "free"
  BY DEF Lists
<1>12. /\ OnStack("fifo")' \subseteq OnStack("fifo") /\ OnStack("free")' \subseteq OnStack("free")
       /\ OnStack("fifo") \cup OnStack("free") = OnStack("fifo")' \cup OnStack("free")' \cup {s}
       /\ s \notin OnStack("fifo")' \cup OnStack("free")'
       /\ s \in OnStack("fifo") \cup OnStack("free")
  BY <1>6, <1>7, <1>8, <1>10, <1>11 DEF Lists
<1>13. SlotsOK(lost)'
  <2>1. OnStack("fifo")' \cap OnStack("free")' = {}
    BY <1>10, <1>12
  <2>2. \A v \in Threads : held'[v] \notin OnStack("fifo")' \cup OnStack("free")'
    BY <1>4, <1>10, <1>12
  <2>3. \A v, t2 \in Threads : held'[v] # -1 /\ held'[v] = held'[t2] => v = t2
    BY <1>4, <1>10, <1>12
  <2>4. ASSUME NEW i \in Indices
        PROVE  \/ i \in OnStack("fifo")' \cup OnStack("free")'
               \/ \E v \in Threads : held'[v] = i
               \/ \E n \in given' : lost[n] = i
    <3>1. CASE i = s
      BY <3>1, <1>4
    <3>2. CASE i # s /\ i \in OnStack("fifo") \cup OnStack("free")
      BY <3>2, <1>12
    <3>3. CASE \E v \in Threads : held[v] = i
      BY <3>3, <1>1, <1>3, <1>4
    <3> QED
      BY <3>1, <3>2, <3>3, <1>10
  <2> QED
    BY <2>1, <2>2, <2>3, <2>4, <1>9 DEF SlotsOK
<1> QED
  BY <1>1, <1>2, <1>3, <1>4, <1>6, <1>7, <1>8, <1>13

\* A thread that pushes a slot does not have it any more.
LEMMA PushSlot ==
  ASSUME PoolTypeOK, NEW lost, SlotsOK(lost), given' = given,
         NEW u \in Threads, NEW q \in Lists, Push(u, q)
  PROVE  /\ stack' \in [Lists -> Seq(Indices)] /\ held' \in [Threads -> Indices \cup {-1}]
         /\ held'[u] = -1 /\ held[u] \in Indices /\ held[u] # -1
         /\ \A v \in Threads \ {u} : held'[v] = held[v]
         /\ \A r \in Lists \ {q} : stack'[r] = stack[r] /\ OnStack(r)' = OnStack(r)
         /\ stack'[q] = <<held[u]>> \o stack[q]
         /\ OnStack(q)' = OnStack(q) \cup {held[u]}
         /\ held[u] \notin OnStack("fifo") \cup OnStack("free")
         /\ SlotsOK(lost)'
<1> DEFINE s == held[u]
           L == Len(stack[q])
           new == <<s>> \o stack[q]
<1>1. /\ stack \in [Lists -> Seq(Indices)] /\ stack[q] \in Seq(Indices)
      /\ held \in [Threads -> Indices \cup {-1}] /\ s # -1 /\ s \in Indices
      /\ held' = [held EXCEPT ![u] = -1] /\ stack' = [stack EXCEPT ![q] = new]
  BY DEF PoolTypeOK, Push
<1>2. -1 \notin Indices
  BY PoolFacts DEF Indices
<1>3. /\ L \in Nat /\ DOMAIN stack[q] = 1 .. L /\ new \in Seq(Indices)
      /\ DOMAIN new = 1 .. L + 1 /\ new[1] = s
      /\ \A k \in 1 .. L : new[k + 1] = stack[q][k]
  BY <1>1
<1> HIDE DEF s, L, new
<1>4. /\ stack' \in [Lists -> Seq(Indices)] /\ held' \in [Threads -> Indices \cup {-1}]
      /\ held'[u] = -1 /\ \A v \in Threads \ {u} : held'[v] = held[v]
      /\ stack'[q] = new /\ \A r \in Lists \ {q} : stack'[r] = stack[r]
  BY <1>1, <1>3
<1>5. /\ \A r \in Lists : \A j, k \in DOMAIN stack[r] : stack[r][j] = stack[r][k] => j = k
      /\ OnStack("fifo") \cap OnStack("free") = {}
      /\ \A v \in Threads : held[v] \notin OnStack("fifo") \cup OnStack("free")
      /\ \A v, t2 \in Threads : held[v] # -1 /\ held[v] = held[t2] => v = t2
      /\ \A i \in Indices : \/ i \in OnStack("fifo") \cup OnStack("free")
                            \/ \E v \in Threads : held[v] = i
                            \/ \E n \in given : lost[n] = i
  BY DEF SlotsOK
<1>6. \A r \in Lists \ {q} : OnStack(r)' = OnStack(r)
  BY <1>4 DEF OnStack
<1>7. s \notin OnStack("fifo") \cup OnStack("free")
  BY <1>5 DEF s
<1>8. OnStack(q)' = OnStack(q) \cup {s}
  <2>1. OnStack(q)' = {new[k] : k \in 1 .. L + 1}
    <3>1. OnStack(q)' = {stack'[q][k] : k \in DOMAIN stack'[q]}
      BY DEF OnStack
    <3> QED
      BY <3>1, <1>3, <1>4
  <2>2. OnStack(q) = {stack[q][k] : k \in 1 .. L}
    BY <1>3 DEF OnStack
  <2>3. ASSUME NEW k \in 1 .. L + 1, k # 1 PROVE k - 1 \in 1 .. L /\ new[k] = stack[q][k - 1]
    <3>1. k - 1 \in 1 .. L /\ (k - 1) + 1 = k
      BY <2>3, <1>3
    <3> QED
      BY <3>1, <1>3
  <2>4. \A k \in 1 .. L : k + 1 \in 1 .. L + 1 /\ new[k + 1] = stack[q][k]
    BY <1>3
  <2>5. 1 \in 1 .. L + 1 /\ new[1] = s
    BY <1>3
  <2> QED
    BY <2>1, <2>2, <2>3, <2>4, <2>5
<1>9. q = "fifo" \/ q = "free"
  BY DEF Lists
<1>10. \A r \in Lists : \A j, k \in DOMAIN stack'[r] : stack'[r][j] = stack'[r][k] => j = k
  <2>1. \A k \in 1 .. L : stack[q][k] # s
    BY <1>3, <1>7, <1>9 DEF OnStack
  <2>2. ASSUME NEW j \in 1 .. L + 1, NEW k \in 1 .. L + 1, new[j] = new[k] PROVE j = k
    <3>1. \A i \in 1 .. L + 1 : i # 1 => i - 1 \in 1 .. L /\ (i - 1) + 1 = i
      BY <1>3
    <3>2. \A i \in 1 .. L + 1 : i # 1 => new[i] = stack[q][i - 1]
      BY <3>1, <1>3
    <3>3. CASE j = 1 \/ k = 1
      <4>1. \A i \in 1 .. L + 1 : i # 1 => new[i] # s
        BY <3>1, <3>2, <2>1
      <4> QED
        BY <4>1, <3>3, <2>2, <1>3
    <3>4. CASE j # 1 /\ k # 1
      <4>1. stack[q][j - 1] = stack[q][k - 1] /\ j - 1 \in DOMAIN stack[q] /\ k - 1 \in DOMAIN stack[q]
        BY <3>1, <3>2, <3>4, <2>2, <1>3
      <4>2. j - 1 = k - 1
        BY <4>1, <1>5
      <4> QED
        BY <4>2, <1>3
    <3> QED
      BY <3>3, <3>4
  <2>3. \A j, k \in DOMAIN stack'[q] : stack'[q][j] = stack'[q][k] => j = k
    BY <2>2, <1>3, <1>4
  <2>4. \A r \in Lists \ {q} : \A j, k \in DOMAIN stack'[r] : stack'[r][j] = stack'[r][k] => j = k
    BY <1>4, <1>5
  <2> QED
    BY <2>3, <2>4
<1>11. OnStack("fifo")' \cup OnStack("free")' = OnStack("fifo") \cup OnStack("free") \cup {s}
  BY <1>6, <1>8, <1>9 DEF Lists
<1>12. SlotsOK(lost)'
  <2>1. OnStack("fifo")' \cap OnStack("free")' = {}
    BY <1>5, <1>6, <1>7, <1>8, <1>9 DEF Lists
  <2>2. ASSUME NEW v \in Threads PROVE held'[v] \notin OnStack("fifo")' \cup OnStack("free")'
    <3>1. CASE v = u
      <4>1. \A r \in Lists : OnStack(r) \subseteq Indices
        BY SlotsInRange
      <4> QED
        BY <3>1, <4>1, <1>1, <1>2, <1>4, <1>11 DEF Lists
    <3>2. CASE v # u
      <4>1. held'[v] = held[v] /\ held[v] # s
        BY <3>2, <1>1, <1>4, <1>5 DEF s
      <4> QED
        BY <4>1, <1>5, <1>11
    <3> QED
      BY <3>1, <3>2
  <2>3. \A v, t2 \in Threads : held'[v] # -1 /\ held'[v] = held'[t2] => v = t2
    BY <1>4, <1>5
  <2>4. ASSUME NEW i \in Indices
        PROVE  \/ i \in OnStack("fifo")' \cup OnStack("free")'
               \/ \E v \in Threads : held'[v] = i
               \/ \E n \in given' : lost[n] = i
    <3>1. CASE i \in OnStack("fifo") \cup OnStack("free") \/ i = s
      BY <3>1, <1>11
    <3>2. CASE i # s /\ \E v \in Threads : held[v] = i
      <4>1. PICK v \in Threads : held[v] = i
        BY <3>2
      <4>2. v # u
        BY <4>1, <3>2 DEF s
      <4> QED
        BY <4>1, <4>2, <1>4
    <3> QED
      BY <3>1, <3>2, <1>5
  <2> QED
    BY <2>1, <2>2, <2>3, <2>4, <1>10 DEF SlotsOK
<1> QED
  BY <1>1, <1>4, <1>6, <1>7, <1>8, <1>12 DEF s, new

\* The first block's slot stays at the end of the queue.
LEMMA LastSlot ==
  ASSUME PoolTypeOK, NEW w, NEW p, FirstBlock(w, p)
  PROVE  /\ FirstSlot \in OnStack("fifo") /\ FirstSlot \in BlockSlots
         /\ \A i : LET s == <<i>> \o stack["fifo"] IN s # <<>> /\ s[Len(s)] = FirstSlot
         /\ Len(stack["fifo"]) > 1 => LET s == Tail(stack["fifo"]) IN s # <<>> /\ s[Len(s)] = FirstSlot
<1> DEFINE f == stack["fifo"]
<1>1. f \in Seq(Indices)
  BY DEF PoolTypeOK, Lists
<1>2. f # <<>> /\ f[Len(f)] = FirstSlot
  BY DEF FirstBlock
<1>3. FirstSlot \in OnStack("fifo") /\ FirstSlot \in BlockSlots
  <2>1. Len(f) \in DOMAIN f
    BY <1>1, <1>2
  <2>2. FirstSlot \in OnStack("fifo")
    BY <2>1, <1>2 DEF OnStack
  <2> QED
    BY <2>2, InBlockSlots
<1> HIDE DEF f
<1>4. ASSUME NEW i PROVE LET s == <<i>> \o f IN s # <<>> /\ s[Len(s)] = FirstSlot
  <2> DEFINE s == <<i>> \o f
  <2>1. f \in Seq(Indices \cup {i}) /\ <<i>> \in Seq(Indices \cup {i})
    BY <1>1
  <2>2. Len(f) \in Nat \ {0} /\ Len(s) = Len(f) + 1 /\ s[Len(f) + 1] = f[Len(f)]
    BY <2>1, <1>1, <1>2
  <2> QED
    BY <2>1, <2>2, <1>2
<1>5. ASSUME Len(f) > 1 PROVE LET s == Tail(f) IN s # <<>> /\ s[Len(s)] = FirstSlot
  <2>1. Len(f) \in Nat /\ Len(Tail(f)) = Len(f) - 1 /\ Tail(f)[Len(f) - 1] = f[Len(f)]
    BY <1>1, <1>2, <1>5
  <2>2. Tail(f) # <<>>
    <3>1. Len(<<>>) = 0 /\ Len(Tail(f)) # 0
      BY <2>1, <1>5
    <3> QED
      BY <3>1
  <2> QED
    BY <2>1, <2>2, <1>2
<1> QED
  BY <1>3, <1>4, <1>5 DEF f

-----------------------------------------------------------------------------
(* The operations that leave the handles where they are *)

LEMMA Unmoved ==
  ASSUME NEW w, NEW p, NEW top, NEW lost, Sound(w, p, top, lost),
         UNCHANGED <<data, link, handleList, released, listed, unqueued, prevUnqueued, cursor,
                     objects, given>>,
         BlockSlots' = BlockSlots, held'[Collector] = held[Collector],
         stack'["fifo"] # <<>>, stack'["fifo"][Len(stack'["fifo"])] = FirstSlot,
         SlotsOK(lost)', HandsFull'
  PROVE  Sound(w, p, top, lost)'
<1>1. /\ Piled(link, w, p, top) /\ Tops(top) /\ FirstBlock(w, p) /\ Owned(w) /\ BlocksOK(p)
      /\ lost \in [Numbers -> Indices]
  BY SoundHas
<1>2. Piled(link', w, p, top)
  BY <1>1
<1>3. FullSlots' = FullSlots
  BY DEF FullSlots
<1>4. Tops(top)'
  BY <1>1, <1>3 DEF Tops, Released
<1>5. FirstBlock(w, p)'
  BY <1>1 DEF FirstBlock
<1>6. Owned(w)'
  BY <1>1 DEF Owned
<1>7. BlocksOK(p)'
  BY <1>1, <1>3 DEF BlocksOK
<1> QED
  BY <1>1, <1>2, <1>4, <1>5, <1>6, <1>7 DEF Sound

LEMMA RegisterSafe ==
  ASSUME PoolInv, ~wild, broken = {}, NEW n \in Numbers, Register(n)
  PROVE  PoolInv'
<1>1. PoolTypeOK
  BY DEF PoolInv
<1>2. PoolTypeOK'
  BY <1>1 DEF PoolTypeOK, Register, queue
<1>3. ASSUME broken' = {} PROVE \E w, p, top, lost : Sound(w, p, top, lost)'
  <2>1. PICK w, p, top, lost : Sound(w, p, top, lost)
    BY DEF PoolInv
  <2>2. n \notin given /\ given' = given
    BY <1>1, <1>3 DEF Register, PoolTypeOK
  <2>3. held[n] = -1
    BY <2>1, SoundHas DEF HandsFull, Register
  <2>4. stack' = stack /\ held' = held /\ handleList' = handleList /\ taken' = taken \cup {n}
    BY DEF Register, queue
  <2>5. BlockSlots' = BlockSlots
    <3>1. OnStack("fifo")' = OnStack("fifo")
      BY <2>4 DEF OnStack
    <3> QED
      BY <3>1, <2>3, <2>4, InBlockSlots
  <2>6. SlotsOK(lost)'
    <3>1. SlotsOK(lost)
      BY <2>1, SoundHas
    <3> QED
      BY <3>1, <2>2, <2>4, SlotsKept
  <2>7. HandsFull'
    BY <2>1, <2>4, SoundHas DEF HandsFull, Register
  <2>8. stack'["fifo"] # <<>> /\ stack'["fifo"][Len(stack'["fifo"])] = FirstSlot
    BY <2>1, <2>4, SoundHas DEF FirstBlock
  <2> HIDE DEF PoolInv
  <2>9. UNCHANGED <<data, link, handleList, released, listed, unqueued, prevUnqueued, cursor,
                    objects, held>>
    BY DEF Register, queue
  <2>10. Sound(w, p, top, lost)'
    BY <2>1, <2>2, <2>5, <2>6, <2>7, <2>8, <2>9, Unmoved
  <2> QED
    BY <2>10
<1>4. wild' = FALSE
  BY <1>1 DEF Register, PoolTypeOK
<1> QED
  BY <1>2, <1>3, <1>4 DEF PoolInv

LEMMA GrabBlockSafe ==
  ASSUME PoolInv, ~wild, broken = {}, NEW n \in Numbers, GrabBlock(n)
  PROVE  PoolInv'
<1>1. PoolTypeOK
  BY DEF PoolInv
<1>2. PICK w, p, top, lost : Sound(w, p, top, lost)
  BY DEF PoolInv
<1>3. /\ SlotsOK(lost) /\ FirstBlock(w, p) /\ HandsFull /\ stack["fifo"] # <<>>
      /\ n \in Threads /\ n # Collector /\ "fifo" \in Lists
  BY <1>2, SoundHas, PoolFacts DEF FirstBlock, Lists
<1>4. /\ Pop(n, "fifo") /\ wild' = FALSE /\ given' = given /\ handleList' = handleList /\ taken' = taken
      /\ n \in taken /\ held[n] = -1 /\ handleList[n] = End
  BY <1>1, <1>3 DEF GrabBlock, PoolTypeOK
<1>5. /\ stack' \in [Lists -> Seq(Indices)] /\ held' \in [Threads -> Indices \cup {-1}]
      /\ held'[n] \in OnStack("fifo") /\ held'[n] # -1
      /\ \A v \in Threads \ {n} : held'[v] = held[v]
      /\ stack'["fifo"] = Tail(stack["fifo"])
      /\ OnStack("fifo")' = OnStack("fifo") \ {held'[n]}
      /\ SlotsOK(lost)'
  BY <1>1, <1>3, <1>4, PopSlot
<1>6. PoolTypeOK'
  BY <1>1, <1>4, <1>5 DEF PoolTypeOK, GrabBlock
<1>7. ASSUME broken' = {} PROVE Sound(w, p, top, lost)'
  <2>1. ~(Len(stack["fifo"]) <= 1)
    BY <1>7 DEF GrabBlock
  <2>2. stack["fifo"] \in Seq(Indices)
    BY <1>1, <1>3 DEF PoolTypeOK
  <2>3. Len(stack["fifo"]) > 1
    BY <2>1, <2>2
  <2>4. stack'["fifo"] # <<>> /\ stack'["fifo"][Len(stack'["fifo"])] = FirstSlot
    BY <2>3, <1>1, <1>3, <1>5, LastSlot
  <2>5. BlockSlots' = BlockSlots
    <3>1. \A m \in taken : m \in Threads
      BY <1>1, PoolFacts DEF PoolTypeOK
    <3>2. ASSUME NEW i PROVE i \in BlockSlots' <=> i \in BlockSlots
      <4>1. CASE i = held'[n]
        BY <4>1, <1>4, <1>5, InBlockSlots
      <4>2. CASE i # held'[n]
        <5>1. \A m \in taken : held'[m] = i /\ i # -1 <=> held[m] = i /\ i # -1
          BY <3>1, <4>2, <1>4, <1>5
        <5>2. i \in OnStack("fifo")' <=> i \in OnStack("fifo")
          BY <4>2, <1>5
        <5> QED
          BY <5>1, <5>2, <1>4, InBlockSlots
      <4> QED
        BY <4>1, <4>2
    <3> QED
      BY <3>2
  <2>6. HandsFull'
    BY <1>3, <1>4, <1>5, PoolFacts DEF HandsFull, GrabBlock
  <2>7. /\ held'[Collector] = held[Collector]
        /\ UNCHANGED <<data, link, handleList, released, listed, unqueued, prevUnqueued, cursor,
                       objects, given>>
    BY <1>3, <1>5, PoolFacts DEF GrabBlock
  <2> QED
    BY <2>4, <2>5, <2>6, <2>7, <1>2, <1>5, Unmoved
<1> QED
  BY <1>4, <1>6, <1>7 DEF PoolInv

\* The steps that change no stack and no slot.
LEMMA StillSafe ==
  ASSUME PoolInv, ~wild, broken = {}, PoolTypeOK',
         UNCHANGED <<queue, link, handleList, released, listed, unqueued, prevUnqueued, cursor,
                     objects, given, broken, wild>>,
         \A n \in Numbers : held[n] # -1 => (n \in taken' <=> n \in taken)
  PROVE  PoolInv'
<1>1. PoolTypeOK
  BY DEF PoolInv
<1>2. PICK w, p, top, lost : Sound(w, p, top, lost)
  BY DEF PoolInv
<1>3. SlotsOK(lost) /\ FirstBlock(w, p) /\ HandsFull
  BY <1>2, SoundHas
<1>4. stack' = stack /\ held' = held /\ given' = given /\ handleList' = handleList /\ listed' = listed
  BY DEF queue
<1>5. OnStack("fifo")' = OnStack("fifo")
  BY <1>4 DEF OnStack
<1>6. BlockSlots' = BlockSlots
  <2>1. taken \subseteq Numbers /\ taken' \subseteq Numbers
    BY <1>1 DEF PoolTypeOK
  <2> QED
    BY <2>1, <1>4, <1>5, InBlockSlots
<1>7. SlotsOK(lost)'
  BY <1>3, <1>4 DEF SlotsOK, OnStack
<1>8. HandsFull'
  BY <1>3, <1>4 DEF HandsFull
<1>9. stack'["fifo"] # <<>> /\ stack'["fifo"][Len(stack'["fifo"])] = FirstSlot
  BY <1>3, <1>4 DEF FirstBlock
<1>10. UNCHANGED <<data, link, handleList, released, listed, unqueued, prevUnqueued, cursor,
                   objects, given, held>>
  BY DEF queue
<1>11. Sound(w, p, top, lost)'
  BY <1>2, <1>6, <1>7, <1>8, <1>9, <1>10, Unmoved
<1>12. wild' = wild
  OBVIOUS
<1> QED
  BY <1>11, <1>12 DEF PoolInv

LEMMA ExitKeepingSafe ==
  ASSUME PoolInv, ~wild, broken = {}, NEW n \in Numbers, ExitKeeping(n)
  PROVE  PoolInv'
<1>1. PoolTypeOK
  BY DEF PoolInv
<1>2. PoolTypeOK'
  BY <1>1 DEF PoolTypeOK, ExitKeeping, queue
<1>3. \A m \in Numbers : held[m] # -1 => (m \in taken' <=> m \in taken)
  BY DEF ExitKeeping
<1>4. UNCHANGED <<queue, link, handleList, released, listed, unqueued, prevUnqueued, cursor,
                  objects, given, broken, wild>>
  BY DEF ExitKeeping
<1> QED
  BY <1>2, <1>3, <1>4, StillSafe

LEMMA StartCollectionSafe ==
  ASSUME PoolInv, ~wild, broken = {}, StartCollection \/ EndSweep
  PROVE  PoolInv'
<1>1. PoolTypeOK
  BY DEF PoolInv
<1>2. PoolTypeOK'
  BY <1>1 DEF PoolTypeOK, StartCollection, EndSweep, queue
<1>3. taken' = taken
  BY DEF StartCollection, EndSweep
<1>4. UNCHANGED <<queue, link, handleList, released, listed, unqueued, prevUnqueued, cursor,
                  objects, given, broken, wild>>
  BY DEF StartCollection, EndSweep
<1> QED
  BY <1>2, <1>3, <1>4, StillSafe

LEMMA TakeReleaseSlotSafe ==
  ASSUME PoolInv, ~wild, broken = {}, NEW n \in Numbers, TakeReleaseSlot(n)
  PROVE  PoolInv'
<1>1. PoolTypeOK
  BY DEF PoolInv
<1>2. PICK w, p, top, lost : Sound(w, p, top, lost)
  BY DEF PoolInv
<1>3. /\ SlotsOK(lost) /\ FirstBlock(w, p) /\ HandsFull
      /\ n \in Threads /\ n # Collector /\ "fifo" \in Lists /\ "free" \in Lists
      /\ "fifo" \in Lists \ {"free"}
  BY <1>2, SoundHas, PoolFacts DEF Lists
<1>4. /\ Pop(n, "free") /\ given' = given /\ handleList' = handleList /\ taken' = taken
      /\ listed' = listed /\ n \in taken /\ n \in listed /\ held[n] = -1 /\ handleList[n] # End
  BY DEF TakeReleaseSlot, Pop
<1>5. /\ stack' \in [Lists -> Seq(Indices)] /\ held' \in [Threads -> Indices \cup {-1}]
      /\ \A v \in Threads \ {n} : held'[v] = held[v]
      /\ stack'["fifo"] = stack["fifo"] /\ OnStack("fifo")' = OnStack("fifo")
      /\ SlotsOK(lost)'
  BY <1>1, <1>3, <1>4, PopSlot
<1>6. PoolTypeOK'
  BY <1>1, <1>5 DEF PoolTypeOK, TakeReleaseSlot
<1>7. BlockSlots' = BlockSlots
  <2>1. \A m \in taken : m \in Threads
    BY <1>1, PoolFacts DEF PoolTypeOK
  <2>2. \A i : \A m \in taken : held'[m] = i /\ i # -1 /\ handleList[m] = End
                             <=> held[m] = i /\ i # -1 /\ handleList[m] = End
    <3> SUFFICES ASSUME NEW i, NEW m \in taken
                 PROVE  held'[m] = i /\ i # -1 /\ handleList[m] = End
                        <=> held[m] = i /\ i # -1 /\ handleList[m] = End
      OBVIOUS
    <3>1. CASE m = n
      BY <3>1, <1>4
    <3>2. CASE m # n
      <4>1. held'[m] = held[m]
        BY <3>2, <2>1, <1>5
      <4> QED
        BY <4>1
    <3> QED
      BY <3>1, <3>2
  <2>3. taken' = taken /\ handleList' = handleList /\ OnStack("fifo")' = OnStack("fifo")
    BY <1>4, <1>5
  <2>4. ASSUME NEW i PROVE i \in BlockSlots' <=> i \in BlockSlots
    BY <2>2, <2>3, InBlockSlots
  <2> QED
    BY <2>4
<1>8. HandsFull'
  BY <1>3, <1>4, <1>5, PoolFacts DEF HandsFull
<1>9. stack'["fifo"] # <<>> /\ stack'["fifo"][Len(stack'["fifo"])] = FirstSlot
  BY <1>3, <1>5 DEF FirstBlock
<1>10. /\ held'[Collector] = held[Collector]
       /\ UNCHANGED <<data, link, handleList, released, listed, unqueued, prevUnqueued, cursor,
                      objects, given>>
  BY <1>3, <1>5, PoolFacts DEF TakeReleaseSlot
<1>11. Sound(w, p, top, lost)'
  BY <1>2, <1>5, <1>7, <1>8, <1>9, <1>10, Unmoved
<1>12. wild' = wild
  BY DEF TakeReleaseSlot
<1> QED
  BY <1>6, <1>11, <1>12 DEF PoolInv

-----------------------------------------------------------------------------
(* The operations that move handles *)

\* Where handle 1 and the rest of the first block are.
LEMMA FirstHandles ==
  ASSUME NEW w, NEW p, FirstBlock(w, p)
  PROVE  /\ w[1] = InObject \/ w[1] = InList(First)
         /\ \A h \in 2 .. BlockSize : w[h] = InFirst
         /\ 1 \in HandleSet /\ 2 .. BlockSize \subseteq HandleSet /\ 1 \notin 2 .. BlockSize
         /\ InList(First) \in Piles
<1>1. 1 \in HandleSet /\ 2 .. BlockSize \subseteq HandleSet /\ 1 \notin 2 .. BlockSize
  BY Sizes, PoolFacts
<1>2. InList(First) \in Piles
  BY PileNames, PoolFacts
<1> QED
  BY <1>1, <1>2 DEF FirstBlock

LEMMA AllocateHandleSafe ==
  ASSUME PoolInv, ~wild, broken = {}, NEW n \in Numbers, AllocateHandle(n)
  PROVE  PoolInv'
<1> DEFINE next == handleList[n]
<1>1. PoolTypeOK
  BY DEF PoolInv
<1>2. PICK w, p, top, lost : Sound(w, p, top, lost)
  BY DEF PoolInv
<1>3. /\ Piled(link, w, p, top) /\ Tops(top) /\ FirstBlock(w, p) /\ Owned(w) /\ BlocksOK(p)
      /\ SlotsOK(lost) /\ lost \in [Numbers -> Indices] /\ HandsFull
      /\ w \in [HandleSet -> Piles \cup {InObject, InFirst}]
      /\ top \in [Piles -> HandleSet \cup {End}]
  BY <1>2, SoundHas
<1>4. /\ next \in HandleSet /\ next # End /\ n \in taken /\ n \notin given /\ held[n] = -1
      /\ InList(n) \in Piles /\ top[InList(n)] = next
  BY <1>1, <1>3, PileNames DEF PoolTypeOK, AllocateHandle, Tops
<1>5. /\ link' = [link EXCEPT ![next] = Object]
      /\ objects' = [objects EXCEPT ![next] = objects[next] + 1]
      /\ listed' = listed \cup {n}
      /\ UNCHANGED <<data, stack, held, released, taken, unqueued, prevUnqueued, gc, cursor, given, broken>>
  BY DEF AllocateHandle, Hand, queue
<1>6. link \in [HandleSet -> HandleSet \cup {End, Object}] /\ objects \in [HandleSet -> Nat]
  BY <1>1 DEF PoolTypeOK
<1>7. \A g \in HandleSet \ {top[InList(n)]} : link'[g] = link[g]
  BY <1>4, <1>5, <1>6
<1>8. PICK w2 : w2 = [w EXCEPT ![next] = InObject]
  OBVIOUS
<1>9. PICK top2 : top2 = [top EXCEPT ![InList(n)] = link[next]]
  OBVIOUS
<1>10. Piled(link', w2, p, top2) /\ w[next] = InList(n) /\ link[next] \in HandleSet \cup {End}
  <2> DEFINE x == InList(n)
  <2>1. Piled(link, w, p, top) /\ x \in Piles /\ top[x] \in HandleSet
    BY <1>3, <1>4
  <2> HIDE DEF x
  <2>2. /\ Piled(link', [w EXCEPT ![top[x]] = InObject], p, [top EXCEPT ![x] = link[top[x]]])
        /\ w[top[x]] = x /\ link[top[x]] \in HandleSet \cup {End}
    BY <2>1, <1>7, TakeTop DEF x
  <2>3. top[x] = next /\ x = InList(n)
    BY <1>4 DEF x
  <2> QED
    BY <2>2, <2>3, <1>8, <1>9
<1>11. link[next] # Object /\ handleList' = [handleList EXCEPT ![n] = link[next]] /\ wild' = FALSE
  BY <1>1, <1>10, PoolFacts DEF AllocateHandle, Hand, PoolTypeOK
<1> HIDE DEF next
<1>12. /\ \A m \in Numbers \ {n} : handleList'[m] = handleList[m]
       /\ handleList'[n] = link[next] /\ handleList' \in [Numbers -> HandleSet \cup {End}]
  BY <1>1, <1>10, <1>11 DEF PoolTypeOK
<1>13. PoolTypeOK'
  <2>1. link' \in [HandleSet -> HandleSet \cup {End, Object}] /\ objects' \in [HandleSet -> Nat]
    BY <1>4, <1>5, <1>6
  <2> QED
    BY <2>1, <1>1, <1>5, <1>11, <1>12 DEF PoolTypeOK
<1>14. BlockSlots' = BlockSlots /\ FullSlots' = FullSlots
  <2>1. OnStack("fifo")' = OnStack("fifo")
    BY <1>5 DEF OnStack
  <2>2. taken \subseteq Numbers
    BY <1>1 DEF PoolTypeOK
  <2>3. \A i : \A m \in taken : held[m] = i /\ i # -1 /\ handleList'[m] = End
                             <=> held[m] = i /\ i # -1 /\ handleList[m] = End
    BY <2>2, <1>4, <1>12
  <2>4. \A i : i \in BlockSlots' <=> i \in BlockSlots
    BY <2>1, <2>3, <1>5, InBlockSlots
  <2>5. BlockSlots' = BlockSlots
    BY <2>4
  <2> QED
    BY <2>5 DEF FullSlots
<1>15. Tops(top2)'
  <2>1. /\ \A m \in Numbers : InList(m) \in Piles /\ (InList(m) = InList(n) => m = n)
        /\ \A i \in Indices : InSlot(i) \in Piles /\ InSlot(i) # InList(n)
        /\ \A k \in Nat : InReleased(k) \in Piles /\ InReleased(k) # InList(n)
        /\ InUnqueued \in Piles /\ InCursor \in Piles
        /\ InUnqueued # InList(n) /\ InCursor # InList(n)
    BY PileNames
  <2>2. top2[InList(n)] = link[next] /\ \A x \in Piles \ {InList(n)} : top2[x] = top[x]
    BY <1>3, <1>4, <1>9
  <2>3. \A m \in Numbers : top2[InList(m)] = IF m \in given THEN End ELSE handleList'[m]
    BY <2>1, <2>2, <1>3, <1>4, <1>12 DEF Tops
  <2>4. \A i \in Indices : top2[InSlot(i)] = IF i \in FullSlots THEN data[i] ELSE End
    BY <2>1, <2>2, <1>3 DEF Tops
  <2>5. \A k \in Nat : top2[InReleased(k)] = Released(k)
    BY <2>1, <2>2, <1>3 DEF Tops
  <2>6. top2[InUnqueued] = prevUnqueued /\ top2[InCursor] = cursor
    BY <2>1, <2>2, <1>3 DEF Tops
  <2> QED
    BY <2>3, <2>4, <2>5, <2>6, <1>5, <1>14 DEF Tops, Released
<1>16. w2[next] = InObject /\ \A g \in HandleSet \ {next} : w2[g] = w[g]
  BY <1>3, <1>4, <1>8
<1>17. InList(n) # InFirst /\ InList(n) # InObject /\ InFirst # InObject
  BY <1>4, PileNames
<1>18. FirstBlock(w2, p)'
  <2>1. next \notin 2 .. BlockSize
    BY <1>3, <1>10, <1>17, FirstHandles
  <2>2. \A h \in HandleSet : w2[h] = InFirst <=> h \in 2 .. BlockSize
    BY <2>1, <1>3, <1>16, <1>17 DEF FirstBlock
  <2>3. \A h \in 2 .. BlockSize : link'[h] = h - 1
    BY <2>1, <1>3, <1>4, <1>7, FirstHandles DEF FirstBlock
  <2>4. IF First \in listed' THEN w2[1] = InObject
        ELSE handleList'[First] = 1 /\ w2[1] = InList(First) /\ p[1] = 1
    <3>1. 1 \in HandleSet /\ First \in Numbers
      BY <1>3, FirstHandles, PoolFacts
    <3>2. CASE First \in listed
      BY <3>1, <3>2, <1>3, <1>5, <1>16 DEF FirstBlock
    <3>3. CASE First \notin listed /\ n = First
      <4>1. next = 1
        BY <3>3, <1>3 DEF FirstBlock, next
      <4> QED
        BY <4>1, <3>3, <1>5, <1>16
    <3>4. CASE First \notin listed /\ n # First
      <4>1. handleList[First] = 1 /\ w[1] = InList(First) /\ p[1] = 1
        BY <3>4, <1>3 DEF FirstBlock
      <4>2. next # 1
        BY <4>1, <3>4, <1>10, PileNames
      <4> QED
        BY <4>1, <4>2, <3>1, <3>4, <1>5, <1>12, <1>16
    <3> QED
      BY <3>2, <3>3, <3>4
  <2> QED
    BY <2>2, <2>3, <2>4, <1>3, <1>5 DEF FirstBlock
<1>19. Owned(w2)'
  BY <1>3, <1>4, <1>5, <1>6, <1>7, <1>10, <1>16, <1>17 DEF Owned
<1>20. BlocksOK(p)'
  BY <1>3, <1>5, <1>14 DEF BlocksOK
<1>21. SlotsOK(lost)' /\ HandsFull'
  <2>1. SlotsOK(lost)'
    BY <1>3, <1>5, SlotsKept
  <2>2. HandsFull'
    BY <1>3, <1>4, <1>5, <1>12 DEF HandsFull
  <2> QED
    BY <2>1, <2>2
<1>22. Sound(w2, p, top2, lost)'
  BY <1>3, <1>10, <1>15, <1>18, <1>19, <1>20, <1>21 DEF Sound
<1> QED
  BY <1>11, <1>13, <1>22 DEF PoolInv

\* What MovePile changes, entry by entry.
LEMMA Moved ==
  ASSUME NEW lk, NEW w, NEW p, NEW top, Piled(lk, w, p, top),
         NEW x \in Piles, NEW y \in Piles, x # y, top[y] = End
  PROVE  \E w2, top2 : /\ Piled(lk, w2, p, top2)
                       /\ top2[y] = top[x] /\ top2[x] = End
                       /\ \A z \in Piles \ {x, y} : top2[z] = top[z]
                       /\ \A h \in HandleSet : w2[h] = IF w[h] = x THEN y ELSE w[h]
<1> DEFINE w2 == Renamed(w, x, y)
           top2 == [top EXCEPT ![y] = top[x], ![x] = End]
<1>1. Piled(lk, w2, p, top2)
  BY MovePile
<1>2. top \in [Piles -> HandleSet \cup {End}]
  BY DEF Piled
<1>3. top2[y] = top[x] /\ top2[x] = End /\ \A z \in Piles \ {x, y} : top2[z] = top[z]
  BY <1>2
<1>4. \A h \in HandleSet : w2[h] = IF w[h] = x THEN y ELSE w[h]
  BY DEF Renamed
<1> HIDE DEF w2, top2
<1> QED
  BY <1>1, <1>3, <1>4

\* Moving a pile changes nothing that FirstBlock, Owned and BlocksOK say of the handles.
LEMMA MovedFirst ==
  ASSUME NEW w, NEW p, FirstBlock(w, p), NEW w2, NEW x \in Piles, NEW y \in Piles,
         x # InList(First) \/ First \in listed,
         \A h \in HandleSet : w2[h] = IF w[h] = x THEN y ELSE w[h]
  PROVE  /\ \A h \in HandleSet : w2[h] = InFirst <=> h \in 2 .. BlockSize
         /\ w2[1] = w[1]
         /\ \A h \in HandleSet : w2[h] = InObject <=> w[h] = InObject
<1>1. InFirst \notin Piles /\ InObject \notin Piles
  BY PileNames
<1>2. 1 \in HandleSet
  BY FirstHandles
<1>3. w2[1] = w[1]
  <2>1. w[1] # x
    BY <1>1 DEF FirstBlock
  <2> QED
    BY <2>1, <1>2
<1> QED
  BY <1>1, <1>3 DEF FirstBlock

LEMMA ReleaseListSafe ==
  ASSUME PoolInv, ~wild, broken = {}, NEW n \in Numbers, ReleaseList(n)
  PROVE  PoolInv'
<1> DEFINE L == Len(released)
           x == InList(n)
           y == InReleased(L + 1)
<1>1. PoolTypeOK
  BY DEF PoolInv
<1>2. PICK w, p, top, lost : Sound(w, p, top, lost)
  BY DEF PoolInv
<1>3. /\ Piled(link, w, p, top) /\ Tops(top) /\ FirstBlock(w, p) /\ Owned(w) /\ BlocksOK(p)
      /\ SlotsOK(lost) /\ lost \in [Numbers -> Indices] /\ HandsFull
  BY <1>2, SoundHas
<1>4. /\ n \in taken /\ handleList[n] # End /\ held[n] # -1 /\ n \notin given
      /\ handleList[n] \in HandleSet /\ n \in Threads /\ n # Collector
      /\ held[n] \in Indices /\ n \in listed
  BY <1>1, <1>3, PoolFacts DEF ReleaseList, PoolTypeOK, HandsFull
<1>5. /\ released' = <<handleList[n]>> \o released
      /\ held' = [held EXCEPT ![n] = -1]
      /\ taken' = taken \ {n} /\ given' = given \cup {n}
      /\ UNCHANGED <<data, stack, link, handleList, listed, unqueued, prevUnqueued, gc, cursor,
                     objects, broken, wild>>
  BY DEF ReleaseList
<1>6. released \in Seq(HandleSet) /\ L \in Nat /\ held \in [Threads -> Indices \cup {-1}]
  BY <1>1 DEF PoolTypeOK
<1>7. /\ released' \in Seq(HandleSet) /\ Len(released') = L + 1 /\ released'[1] = handleList[n]
      /\ \A k \in 1 .. L : released'[k + 1] = released[k]
  BY <1>4, <1>5, <1>6
<1>8. x \in Piles /\ y \in Piles /\ x # y /\ top[y] = End /\ top[x] = handleList[n]
  <2>1. Released(L + 1) = End
    BY <1>6 DEF Released
  <2> QED
    BY <2>1, <1>3, <1>4, <1>6, PileNames DEF Tops
<1> HIDE DEF L
<1>9. PICK w2, top2 : /\ Piled(link, w2, p, top2)
                      /\ top2[y] = top[x] /\ top2[x] = End
                      /\ \A z \in Piles \ {x, y} : top2[z] = top[z]
                      /\ \A h \in HandleSet : w2[h] = IF w[h] = x THEN y ELSE w[h]
  <2> HIDE DEF x, y
  <2> QED
    BY <1>3, <1>8, Moved
<1>10. PICK lost2 : lost2 = [lost EXCEPT ![n] = held[n]]
  OBVIOUS
<1>11. PoolTypeOK'
  <2>1. held' \in [Threads -> Indices \cup {-1}]
    BY <1>5, <1>6
  <2>2. given' \subseteq Numbers \ taken'
    BY <1>1, <1>5 DEF PoolTypeOK
  <2> QED
    BY <2>1, <2>2, <1>1, <1>5, <1>7 DEF PoolTypeOK
<1>12. \A m \in Threads \ {n} : held'[m] = held[m]
  BY <1>5, <1>6
<1>13. BlockSlots' = BlockSlots /\ FullSlots' = FullSlots
  <2>1. OnStack("fifo")' = OnStack("fifo")
    BY <1>5 DEF OnStack
  <2>2. taken \subseteq Threads
    BY <1>1, PoolFacts DEF PoolTypeOK
  <2>3. ASSUME NEW i, NEW m \in Threads
        PROVE  m \in taken' /\ held'[m] = i /\ i # -1 /\ handleList[m] = End
               <=> m \in taken /\ held[m] = i /\ i # -1 /\ handleList[m] = End
    <3>1. CASE m = n
      BY <3>1, <1>4
    <3>2. CASE m # n
      <4>1. held'[m] = held[m] /\ (m \in taken' <=> m \in taken)
        BY <3>2, <1>5, <1>12
      <4> QED
        BY <4>1
    <3> QED
      BY <3>1, <3>2
  <2>4. taken' \subseteq Threads /\ handleList' = handleList
    BY <2>2, <1>5
  <2>5. ASSUME NEW i PROVE i \in BlockSlots' <=> i \in BlockSlots
    BY <2>1, <2>2, <2>3, <2>4, InBlockSlots
  <2>6. BlockSlots' = BlockSlots
    BY <2>5
  <2> QED
    BY <2>6 DEF FullSlots
<1>14. Tops(top2)'
  <2>1. /\ \A m \in Numbers : InList(m) \in Piles /\ (InList(m) = x => m = n) /\ InList(m) # y
        /\ \A i \in Indices : InSlot(i) \in Piles \ {x, y}
        /\ \A k \in Nat : InReleased(k) \in Piles /\ InReleased(k) # x
                          /\ (InReleased(k) = y => k = L + 1)
        /\ InUnqueued \in Piles \ {x, y} /\ InCursor \in Piles \ {x, y}
    BY PileNames
  <2>2. ASSUME NEW m \in Numbers PROVE top2[InList(m)] = IF m \in given' THEN End ELSE handleList[m]
    <3>1. CASE m = n
      BY <3>1, <1>5, <1>9
    <3>2. CASE m # n
      <4>1. InList(m) \in Piles \ {x, y}
        BY <3>2, <2>1
      <4>2. top2[InList(m)] = top[InList(m)]
        BY <4>1, <1>9
      <4> QED
        BY <4>2, <3>2, <1>3, <1>5 DEF Tops
    <3> QED
      BY <3>1, <3>2
  <2>3. \A i \in Indices : top2[InSlot(i)] = IF i \in FullSlots THEN data[i] ELSE End
    BY <2>1, <1>3, <1>9 DEF Tops
  <2>4. ASSUME NEW k \in Nat PROVE top2[InReleased(k)] = Released(k)'
    <3>1. CASE k = L + 1
      <4>1. Released(k)' = handleList[n]
        BY <3>1, <1>6, <1>7 DEF Released
      <4> QED
        BY <4>1, <3>1, <1>8, <1>9
    <3>2. CASE k # L + 1
      <4>1. InReleased(k) \in Piles \ {x, y}
        BY <3>2, <2>1
      <4>2. top2[InReleased(k)] = Released(k)
        BY <4>1, <1>3, <1>9 DEF Tops
      <4>3. Released(k)' = Released(k)
        <5>1. k \in 1 .. L + 1 <=> k \in 1 .. L
          BY <3>2, <1>6
        <5>2. ASSUME k \in 1 .. L PROVE released'[(L + 1) + 1 - k] = released[L + 1 - k]
          <6>1. L + 1 - k \in 1 .. L /\ (L + 1 - k) + 1 = (L + 1) + 1 - k
            BY <5>2, <1>6
          <6> QED
            BY <6>1, <1>7
        <5> QED
          BY <5>1, <5>2, <1>7 DEF Released, L
      <4> QED
        BY <4>2, <4>3
    <3> QED
      BY <3>1, <3>2
  <2>5. top2[InUnqueued] = prevUnqueued /\ top2[InCursor] = cursor
    BY <2>1, <1>3, <1>9 DEF Tops
  <2> QED
    BY <2>2, <2>3, <2>4, <2>5, <1>5, <1>13 DEF Tops
<1>15. /\ \A h \in HandleSet : w2[h] = InFirst <=> h \in 2 .. BlockSize
       /\ w2[1] = w[1]
       /\ \A h \in HandleSet : w2[h] = InObject <=> w[h] = InObject
  <2>1. x # InList(First) \/ First \in listed
    BY <1>4, PileNames
  <2> HIDE DEF x, y
  <2> QED
    BY <2>1, <1>3, <1>8, <1>9, MovedFirst
<1>16. FirstBlock(w2, p)'
  BY <1>3, <1>5, <1>15 DEF FirstBlock
<1>17. Owned(w2)'
  BY <1>3, <1>5, <1>15 DEF Owned
<1>18. BlocksOK(p)'
  BY <1>3, <1>4, <1>5, <1>12, <1>13, PoolFacts DEF BlocksOK
<1>19. lost2 \in [Numbers -> Indices] /\ lost2[n] = held[n] /\ \A m \in Numbers \ {n} : lost2[m] = lost[m]
  BY <1>3, <1>4, <1>10
<1>20. SlotsOK(lost2)'
  <2>1. /\ OnStack("fifo")' = OnStack("fifo") /\ OnStack("free")' = OnStack("free")
        /\ held'[n] = -1 /\ stack' = stack /\ given \subseteq Numbers
    BY <1>1, <1>4, <1>5, <1>6 DEF OnStack, PoolTypeOK
  <2>2. -1 \notin OnStack("fifo") \cup OnStack("free")
    <3>1. OnStack("fifo") \subseteq Indices /\ OnStack("free") \subseteq Indices /\ -1 \notin Indices
      BY <1>1, SlotsInRange, PoolFacts DEF Lists, Indices
    <3> QED
      BY <3>1
  <2>3. \A u \in Threads : held'[u] \notin OnStack("fifo") \cup OnStack("free")
    BY <2>1, <2>2, <1>3, <1>12 DEF SlotsOK
  <2>4. \A u, v \in Threads : held'[u] # -1 /\ held'[u] = held'[v] => u = v
    BY <2>1, <1>3, <1>12 DEF SlotsOK
  <2>5. ASSUME NEW i \in Indices
        PROVE  \/ i \in OnStack("fifo") \cup OnStack("free")
               \/ \E u \in Threads : held'[u] = i
               \/ \E m \in given' : lost2[m] = i
    <3>1. CASE \E u \in Threads : held[u] = i
      BY <3>1, <1>5, <1>12, <1>19
    <3>2. CASE \E m \in given : lost[m] = i
      <4>1. PICK m \in given : lost[m] = i
        BY <3>2
      <4>2. m \in Numbers \ {n} /\ m \in given'
        BY <4>1, <2>1, <1>4, <1>5
      <4> QED
        BY <4>1, <4>2, <1>19
    <3> QED
      BY <3>1, <3>2, <1>3 DEF SlotsOK
  <2>6. \A q \in Lists : \A j, k \in DOMAIN stack[q] : stack[q][j] = stack[q][k] => j = k
    BY <1>3 DEF SlotsOK
  <2>7. OnStack("fifo") \cap OnStack("free") = {}
    BY <1>3 DEF SlotsOK
  <2> QED
    BY <2>1, <2>3, <2>4, <2>5, <2>6, <2>7 DEF SlotsOK
<1>21. HandsFull'
  <2>1. held'[n] = -1 /\ \A m \in Numbers \ {n} : m \in Threads
    BY <1>4, <1>5, <1>6, PoolFacts
  <2> QED
    BY <2>1, <1>3, <1>5, <1>12 DEF HandsFull
<1>22. Sound(w2, p, top2, lost2)'
  <2>1. Piled(link', w2, p, top2)
    BY <1>5, <1>9
  <2> QED
    BY <2>1, <1>14, <1>16, <1>17, <1>18, <1>19, <1>20, <1>21 DEF Sound
<1>23. wild' = FALSE
  BY <1>1, <1>5 DEF PoolTypeOK
<1> QED
  BY <1>11, <1>22, <1>23 DEF PoolInv

LEMMA TakeReleasedSafe ==
  ASSUME PoolInv, ~wild, broken = {}, TakeReleased
  PROVE  PoolInv'
<1>1. PoolTypeOK
  BY DEF PoolInv
<1>2. CASE released = <<>>
  <2>1. PoolTypeOK'
    BY <1>1, <1>2 DEF PoolTypeOK, TakeReleased, queue
  <2>2. taken' = taken
    BY DEF TakeReleased
  <2>3. UNCHANGED <<queue, link, handleList, released, listed, unqueued, prevUnqueued, cursor,
                    objects, given, broken, wild>>
    BY <1>2 DEF TakeReleased
  <2> QED
    BY <2>1, <2>2, <2>3, StillSafe
<1>3. CASE released # <<>>
  <2> DEFINE L == Len(released)
             x == InReleased(L)
             y == InCursor
  <2>1. PICK w, p, top, lost : Sound(w, p, top, lost)
    BY DEF PoolInv
  <2>2. /\ Piled(link, w, p, top) /\ Tops(top) /\ FirstBlock(w, p) /\ Owned(w) /\ BlocksOK(p)
        /\ SlotsOK(lost) /\ lost \in [Numbers -> Indices] /\ HandsFull
    BY <2>1, SoundHas
  <2>3. /\ cursor = End /\ cursor' = Head(released) /\ released' = Tail(released)
        /\ UNCHANGED <<data, stack, held, link, handleList, taken, listed, unqueued, prevUnqueued,
                       gc, objects, given, broken, wild>>
    BY <1>3 DEF TakeReleased, queue
  <2>4. released \in Seq(HandleSet) /\ L \in Nat \ {0}
    BY <1>1, <1>3 DEF PoolTypeOK
  <2>5. /\ Head(released) = released[1] /\ released[1] \in HandleSet
        /\ released' \in Seq(HandleSet) /\ Len(released') = L - 1
        /\ \A k \in 1 .. L - 1 : released'[k] = released[k + 1]
    BY <2>3, <2>4
  <2>6. x \in Piles /\ y \in Piles /\ x # y /\ top[y] = End /\ top[x] = released[1]
    <3>1. Released(L) = released[1]
      BY <2>4 DEF Released
    <3> QED
      BY <3>1, <2>2, <2>3, <2>4, PileNames DEF Tops
  <2> HIDE DEF L
  <2>7. PICK w2, top2 : /\ Piled(link, w2, p, top2)
                        /\ top2[y] = top[x] /\ top2[x] = End
                        /\ \A z \in Piles \ {x, y} : top2[z] = top[z]
                        /\ \A h \in HandleSet : w2[h] = IF w[h] = x THEN y ELSE w[h]
    <3> HIDE DEF x, y
    <3> QED
      BY <2>2, <2>6, Moved
  <2>8. PoolTypeOK'
    BY <1>1, <2>3, <2>5 DEF PoolTypeOK
  <2>9. BlockSlots' = BlockSlots /\ FullSlots' = FullSlots
    BY <2>3 DEF BlockSlots, FullSlots
  <2>10. Tops(top2)'
    <3>1. /\ \A m \in Numbers : InList(m) \in Piles \ {x, y}
          /\ \A i \in Indices : InSlot(i) \in Piles \ {x, y}
          /\ \A k \in Nat : InReleased(k) \in Piles /\ InReleased(k) # y
                            /\ (InReleased(k) = x => k = L)
          /\ InUnqueued \in Piles \ {x, y}
      BY PileNames
    <3>2. \A m \in Numbers : top2[InList(m)] = IF m \in given THEN End ELSE handleList[m]
      BY <3>1, <2>2, <2>7 DEF Tops
    <3>3. \A i \in Indices : top2[InSlot(i)] = IF i \in FullSlots THEN data[i] ELSE End
      BY <3>1, <2>2, <2>7 DEF Tops
    <3>4. ASSUME NEW k \in Nat PROVE top2[InReleased(k)] = Released(k)'
      <4>1. CASE k = L
        <5>1. Released(k)' = End
          BY <4>1, <2>4, <2>5 DEF Released
        <5> QED
          BY <5>1, <4>1, <2>7
      <4>2. CASE k # L
        <5>1. InReleased(k) \in Piles \ {x, y}
          BY <4>2, <3>1
        <5>2. top2[InReleased(k)] = Released(k)
          BY <5>1, <2>2, <2>7 DEF Tops
        <5>3. Released(k)' = Released(k)
          <6>1. k \in 1 .. L - 1 <=> k \in 1 .. L
            BY <4>2, <2>4
          <6>2. ASSUME k \in 1 .. L - 1 PROVE released'[(L - 1) + 1 - k] = released[L + 1 - k]
            <7>1. L - k \in 1 .. L - 1 /\ (L - k) + 1 = L + 1 - k /\ L - k = (L - 1) + 1 - k
              BY <6>2, <2>4
            <7> QED
              BY <7>1, <2>5
          <6> QED
            BY <6>1, <6>2, <2>5 DEF Released, L
        <5> QED
          BY <5>2, <5>3
      <4> QED
        BY <4>1, <4>2
    <3>5. top2[InUnqueued] = prevUnqueued /\ top2[InCursor] = cursor'
      BY <3>1, <2>2, <2>3, <2>5, <2>6, <2>7 DEF Tops
    <3> QED
      BY <3>2, <3>3, <3>4, <3>5, <2>3, <2>9 DEF Tops
  <2>11. /\ \A h \in HandleSet : w2[h] = InFirst <=> h \in 2 .. BlockSize
         /\ w2[1] = w[1]
         /\ \A h \in HandleSet : w2[h] = InObject <=> w[h] = InObject
    <3>1. x # InList(First)
      BY PileNames
    <3> HIDE DEF x, y
    <3> QED
      BY <3>1, <2>2, <2>6, <2>7, MovedFirst
  <2>12. FirstBlock(w2, p)'
    BY <2>2, <2>3, <2>11 DEF FirstBlock
  <2>13. Owned(w2)'
    BY <2>2, <2>3, <2>11 DEF Owned
  <2>14. BlocksOK(p)'
    BY <2>2, <2>3, <2>9 DEF BlocksOK
  <2>15. SlotsOK(lost)' /\ HandsFull'
    BY <2>2, <2>3, SlotsKept DEF HandsFull
  <2>16. Sound(w2, p, top2, lost)'
    <3>1. Piled(link', w2, p, top2)
      BY <2>3, <2>7
    <3> QED
      BY <3>1, <2>2, <2>10, <2>12, <2>13, <2>14, <2>15 DEF Sound
  <2>17. wild' = FALSE
    BY <1>1, <2>3 DEF PoolTypeOK
  <2> QED
    BY <2>8, <2>16, <2>17 DEF PoolInv
<1> QED
  BY <1>2, <1>3

LEMMA QueueBlockSafe ==
  ASSUME PoolInv, ~wild, broken = {}, QueueBlock
  PROVE  PoolInv'
<1> DEFINE s == held[Collector]
           x == InUnqueued
           y == InSlot(s)
<1>1. PoolTypeOK
  BY DEF PoolInv
<1>2. PICK w, p, top, lost : Sound(w, p, top, lost)
  BY DEF PoolInv
<1>3. /\ Piled(link, w, p, top) /\ Tops(top) /\ FirstBlock(w, p) /\ Owned(w) /\ BlocksOK(p)
      /\ SlotsOK(lost) /\ lost \in [Numbers -> Indices] /\ HandsFull
  BY <1>2, SoundHas
<1>4. /\ data' = [data EXCEPT ![s] = prevUnqueued] /\ Push(Collector, "fifo")
      /\ unqueued' = 0 /\ prevUnqueued' = End
      /\ UNCHANGED <<link, handleList, released, taken, listed, gc, cursor, objects, given,
                     broken, wild>>
  BY DEF QueueBlock
<1>5. Collector \in Threads /\ "fifo" \in Lists /\ "free" \in Lists \ {"fifo"}
  BY PoolFacts DEF Lists
<1>6. /\ stack' \in [Lists -> Seq(Indices)] /\ held' \in [Threads -> Indices \cup {-1}]
      /\ held'[Collector] = -1 /\ s \in Indices /\ s # -1
      /\ \A v \in Threads \ {Collector} : held'[v] = held[v]
      /\ stack'["fifo"] = <<s>> \o stack["fifo"]
      /\ OnStack("fifo")' = OnStack("fifo") \cup {s}
      /\ s \notin OnStack("fifo") \cup OnStack("free")
      /\ SlotsOK(lost)'
  BY <1>1, <1>3, <1>4, <1>5, PushSlot
<1>7. /\ prevUnqueued \in HandleSet /\ p[prevUnqueued] = BlockSize /\ unqueued = BlockSize
  BY <1>1, <1>3, <1>6, PoolFacts DEF BlocksOK, PoolTypeOK
<1>8. s # FirstSlot
  BY <1>1, <1>3, <1>6, LastSlot
<1>9. /\ \A i : i \in BlockSlots' <=> i \in BlockSlots \/ i = s
      /\ s \notin BlockSlots
  <2>1. taken \subseteq Threads \ {Collector}
    BY <1>1, PoolFacts DEF PoolTypeOK
  <2>2. \A m \in taken : held'[m] = held[m]
    BY <2>1, <1>6
  <2>3. \A m \in taken : held[m] # s
    BY <2>1, <1>3, <1>5, <1>6 DEF SlotsOK
  <2>4. s \notin BlockSlots
    BY <2>3, <1>6, InBlockSlots
  <2>5. ASSUME NEW i PROVE i \in BlockSlots' <=> i \in BlockSlots \/ i = s
    <3>1. taken' = taken /\ handleList' = handleList
      BY <1>4
    <3>2. i \in OnStack("fifo")' <=> i \in OnStack("fifo") \/ i = s
      BY <1>6
    <3> HIDE DEF s
    <3> QED
      BY <3>1, <3>2, <2>2, InBlockSlots
  <2> QED
    BY <2>4, <2>5
<1>10. FullSlots' = FullSlots \cup {s} /\ s \notin FullSlots
  BY <1>8, <1>9 DEF FullSlots
<1>11. x \in Piles /\ y \in Piles /\ x # y /\ top[y] = End /\ top[x] = prevUnqueued
  BY <1>3, <1>6, <1>10, PileNames DEF Tops
<1>12. PICK w2, top2 : /\ Piled(link, w2, p, top2)
                       /\ top2[y] = top[x] /\ top2[x] = End
                       /\ \A z \in Piles \ {x, y} : top2[z] = top[z]
                       /\ \A h \in HandleSet : w2[h] = IF w[h] = x THEN y ELSE w[h]
  <2> HIDE DEF x, y
  <2> QED
    BY <1>3, <1>11, Moved
<1>13. data \in [Indices -> HandleSet \cup {End}]
  BY <1>1 DEF PoolTypeOK
<1>14. data'[s] = prevUnqueued /\ \A i \in Indices \ {s} : data'[i] = data[i]
  BY <1>4, <1>6, <1>13
<1>15. PoolTypeOK'
  <2>1. data' \in [Indices -> HandleSet \cup {End}]
    BY <1>4, <1>7, <1>13
  <2>2. 0 \in 0 .. BlockSize
    BY PoolFacts
  <2> QED
    BY <2>1, <2>2, <1>1, <1>4, <1>6 DEF PoolTypeOK
<1> HIDE DEF s
<1>16. Tops(top2)'
  <2>1. /\ \A m \in Numbers : InList(m) \in Piles \ {x, y}
        /\ \A i \in Indices : InSlot(i) \in Piles /\ InSlot(i) # x /\ (InSlot(i) = y => i = s)
        /\ \A k \in Nat : InReleased(k) \in Piles \ {x, y}
        /\ InCursor \in Piles \ {x, y}
    BY PileNames
  <2>2. \A m \in Numbers : top2[InList(m)] = IF m \in given THEN End ELSE handleList[m]
    BY <2>1, <1>3, <1>12 DEF Tops
  <2>3. ASSUME NEW i \in Indices PROVE top2[InSlot(i)] = IF i \in FullSlots' THEN data'[i] ELSE End
    <3>1. CASE i = s
      BY <3>1, <1>10, <1>11, <1>12, <1>14
    <3>2. CASE i # s
      <4>1. InSlot(i) \in Piles \ {x, y}
        BY <3>2, <2>1
      <4>2. top2[InSlot(i)] = top[InSlot(i)] /\ data'[i] = data[i]
        BY <4>1, <3>2, <1>12, <1>14
      <4> QED
        BY <4>2, <3>2, <1>3, <1>10 DEF Tops
    <3> QED
      BY <3>1, <3>2
  <2>4. \A k \in Nat : top2[InReleased(k)] = Released(k)
    BY <2>1, <1>3, <1>12 DEF Tops
  <2>5. top2[InUnqueued] = End /\ top2[InCursor] = cursor
    BY <2>1, <1>3, <1>12 DEF Tops
  <2> QED
    BY <2>2, <2>3, <2>4, <2>5, <1>4 DEF Tops, Released
<1>17. /\ \A h \in HandleSet : w2[h] = InFirst <=> h \in 2 .. BlockSize
       /\ w2[1] = w[1]
       /\ \A h \in HandleSet : w2[h] = InObject <=> w[h] = InObject
  <2>1. x # InList(First)
    BY PileNames
  <2> HIDE DEF x, y
  <2> QED
    BY <2>1, <1>3, <1>11, <1>12, MovedFirst
<1>18. FirstBlock(w2, p)'
  <2>1. stack'["fifo"] # <<>> /\ stack'["fifo"][Len(stack'["fifo"])] = FirstSlot
    BY <1>1, <1>3, <1>6, LastSlot
  <2>2. data'[FirstSlot] = data[FirstSlot]
    BY <1>8, <1>14, Sizes
  <2> QED
    BY <2>1, <2>2, <1>3, <1>4, <1>17 DEF FirstBlock
<1>19. Owned(w2)'
  BY <1>3, <1>4, <1>17 DEF Owned
<1>20. BlocksOK(p)'
  <2>1. ASSUME NEW i \in FullSlots' PROVE data'[i] \in HandleSet /\ p[data'[i]] = BlockSize
    <3>1. CASE i = s
      BY <3>1, <1>7, <1>14
    <3>2. CASE i # s
      <4>1. i \in FullSlots /\ i \in Indices
        BY <3>2, <1>1, <1>10, SlotsInRange
      <4> QED
        BY <4>1, <3>2, <1>3, <1>14 DEF BlocksOK
    <3> QED
      BY <3>1, <3>2
  <2> QED
    BY <2>1, <1>4, <1>6, PoolFacts DEF BlocksOK
<1>21. HandsFull'
  <2>1. \A m \in Numbers : held'[m] = held[m]
    BY <1>6, PoolFacts
  <2> QED
    BY <2>1, <1>3, <1>4 DEF HandsFull
<1>22. Sound(w2, p, top2, lost)'
  <2>1. Piled(link', w2, p, top2)
    BY <1>4, <1>12
  <2> QED
    BY <2>1, <1>3, <1>6, <1>16, <1>18, <1>19, <1>20, <1>21 DEF Sound
<1>23. wild' = FALSE
  BY <1>1, <1>4 DEF PoolTypeOK
<1> QED
  BY <1>15, <1>22, <1>23 DEF PoolInv

\* What TakeTop and PutOnTop change, entry by entry.
LEMMA Taken ==
  ASSUME NEW lk, NEW w, NEW p, NEW top, Piled(lk, w, p, top),
         NEW x \in Piles, NEW h \in HandleSet, top[x] = h,
         NEW lk2, \A g \in HandleSet \ {h} : lk2[g] = lk[g]
  PROVE  /\ w[h] = x /\ lk[h] \in HandleSet \cup {End}
         /\ \E w2, top2 : /\ Piled(lk2, w2, p, top2)
                          /\ w2[h] = InObject /\ \A g \in HandleSet \ {h} : w2[g] = w[g]
                          /\ top2[x] = lk[h] /\ \A y \in Piles \ {x} : top2[y] = top[y]
<1> DEFINE w2 == [w EXCEPT ![h] = InObject]
           top2 == [top EXCEPT ![x] = lk[h]]
<1>1. /\ Piled(lk2, [w EXCEPT ![top[x]] = InObject], p, [top EXCEPT ![x] = lk[top[x]]])
      /\ w[top[x]] = x /\ lk[top[x]] \in HandleSet \cup {End}
  BY TakeTop
<1>2. Piled(lk2, w2, p, top2) /\ w[h] = x /\ lk[h] \in HandleSet \cup {End}
  BY <1>1
<1>3. top \in [Piles -> HandleSet \cup {End}] /\ w \in [HandleSet -> Piles \cup {InObject, InFirst}]
  BY DEF Piled
<1>4. /\ w2[h] = InObject /\ \A g \in HandleSet \ {h} : w2[g] = w[g]
      /\ top2[x] = lk[h] /\ \A y \in Piles \ {x} : top2[y] = top[y]
  BY <1>3
<1> HIDE DEF w2, top2
<1> QED
  BY <1>2, <1>4

LEMMA Put ==
  ASSUME NEW lk, NEW w, NEW p, NEW top, Piled(lk, w, p, top),
         NEW x \in Piles, NEW h \in HandleSet, w[h] \notin Piles,
         NEW lk2, lk2[h] = top[x], \A g \in HandleSet \ {h} : lk2[g] = lk[g]
  PROVE  \E w2, p2, top2 :
           /\ Piled(lk2, w2, p2, top2)
           /\ w2[h] = x /\ \A g \in HandleSet \ {h} : w2[g] = w[g]
           /\ p2[h] = IF top[x] = End THEN 1 ELSE p[top[x]] + 1
           /\ \A g \in HandleSet \ {h} : p2[g] = p[g]
           /\ top2[x] = h /\ \A y \in Piles \ {x} : top2[y] = top[y]
<1> DEFINE w2 == [w EXCEPT ![h] = x]
           p2 == Higher(p, top, x, h)
           top2 == [top EXCEPT ![x] = h]
<1>1. Piled(lk2, w2, p2, top2)
  BY PutOnTop
<1>2. /\ top \in [Piles -> HandleSet \cup {End}] /\ p \in [HandleSet -> Nat \ {0}]
      /\ w \in [HandleSet -> Piles \cup {InObject, InFirst}]
  BY DEF Piled
<1>3. /\ w2[h] = x /\ \A g \in HandleSet \ {h} : w2[g] = w[g]
      /\ p2[h] = IF top[x] = End THEN 1 ELSE p[top[x]] + 1
      /\ \A g \in HandleSet \ {h} : p2[g] = p[g]
      /\ top2[x] = h /\ \A y \in Piles \ {x} : top2[y] = top[y]
  BY <1>2 DEF Higher
<1> HIDE DEF w2, p2, top2
<1> QED
  BY <1>1, <1>3

LEMMA UseBlockSafe ==
  ASSUME PoolInv, ~wild, broken = {}, NEW n \in Numbers, UseBlock(n)
  PROVE  PoolInv'
<1> DEFINE s == held[n]
           next == data[s]
           x == InSlot(s)
           y == InList(n)
<1>1. PoolTypeOK
  BY DEF PoolInv
<1>2. PICK w, p, top, lost : Sound(w, p, top, lost)
  BY DEF PoolInv
<1>3. /\ Piled(link, w, p, top) /\ Tops(top) /\ FirstBlock(w, p) /\ Owned(w) /\ BlocksOK(p)
      /\ SlotsOK(lost) /\ lost \in [Numbers -> Indices] /\ HandsFull
  BY <1>2, SoundHas
<1>4. /\ n \in taken /\ s # -1 /\ handleList[n] = End /\ Push(n, "free")
      /\ link' = [link EXCEPT ![next] = Object]
      /\ objects' = [objects EXCEPT ![next] = objects[next] + 1]
      /\ listed' = listed \cup {n}
      /\ UNCHANGED <<data, released, taken, unqueued, prevUnqueued, gc, cursor, given, broken>>
  BY DEF UseBlock, Hand
<1>5. n \in Threads /\ n # Collector /\ Collector \in Threads /\ "free" \in Lists /\ "fifo" \in Lists \ {"free"}
  BY PoolFacts DEF Lists
<1>6. /\ stack' \in [Lists -> Seq(Indices)] /\ held' \in [Threads -> Indices \cup {-1}]
      /\ held'[n] = -1 /\ s \in Indices
      /\ \A v \in Threads \ {n} : held'[v] = held[v]
      /\ stack'["fifo"] = stack["fifo"] /\ OnStack("fifo")' = OnStack("fifo")
      /\ s \notin OnStack("fifo") \cup OnStack("free")
      /\ SlotsOK(lost)'
  BY <1>1, <1>3, <1>4, <1>5, PushSlot
<1>7. s \in BlockSlots /\ s # FirstSlot
  <2>1. s # FirstSlot
    BY <1>1, <1>3, <1>6, LastSlot
  <2> QED
    BY <2>1, <1>4, InBlockSlots
<1>8. s \in FullSlots /\ next \in HandleSet
  BY <1>3, <1>7 DEF FullSlots, BlocksOK
<1>9. n \notin given /\ (n = First => First \in listed)
  <2>1. n \notin given
    BY <1>1, <1>4 DEF PoolTypeOK
  <2>2. n = First => First \in listed
    <3>1. 1 \in HandleSet /\ 1 # End
      BY <1>3, FirstHandles, PoolFacts
    <3> QED
      BY <3>1, <1>3, <1>4 DEF FirstBlock
  <2> QED
    BY <2>1, <2>2
<1>10. /\ x \in Piles /\ y \in Piles /\ x # y /\ top[x] = next /\ top[y] = End
  BY <1>3, <1>4, <1>6, <1>8, <1>9, PileNames DEF Tops
<1>11. link \in [HandleSet -> HandleSet \cup {End, Object}] /\ objects \in [HandleSet -> Nat]
  BY <1>1 DEF PoolTypeOK
<1>12. \A g \in HandleSet \ {next} : link'[g] = link[g] /\ objects'[g] = objects[g]
  BY <1>4, <1>8, <1>11
<1>13. link'[next] = Object /\ objects'[next] = objects[next] + 1
  BY <1>4, <1>8, <1>11
<1>14. /\ w[next] = x /\ link[next] \in HandleSet \cup {End}
       /\ \E w1, top1 : /\ Piled(link', w1, p, top1)
                        /\ w1[next] = InObject /\ \A g \in HandleSet \ {next} : w1[g] = w[g]
                        /\ top1[x] = link[next] /\ \A z \in Piles \ {x} : top1[z] = top[z]
  <2> HIDE DEF x, next
  <2>1. \A g \in HandleSet \ {next} : link'[g] = link[g]
    BY <1>12
  <2> QED
    BY <2>1, <1>3, <1>8, <1>10, Taken
<1>15. PICK w1, top1 : /\ Piled(link', w1, p, top1)
                       /\ w1[next] = InObject /\ \A g \in HandleSet \ {next} : w1[g] = w[g]
                       /\ top1[x] = link[next] /\ \A z \in Piles \ {x} : top1[z] = top[z]
  BY <1>14
<1>16. PICK w2, top2 : /\ Piled(link', w2, p, top2)
                       /\ top2[y] = top1[x] /\ top2[x] = End
                       /\ \A z \in Piles \ {x, y} : top2[z] = top1[z]
                       /\ \A h \in HandleSet : w2[h] = IF w1[h] = x THEN y ELSE w1[h]
  <2> HIDE DEF x, y
  <2>1. top1[y] = End
    BY <1>10, <1>15
  <2> QED
    BY <2>1, <1>10, <1>15, Moved
<1>17. link[next] # Object /\ handleList' = [handleList EXCEPT ![n] = link[next]] /\ wild' = FALSE
  BY <1>1, <1>14, PoolFacts DEF UseBlock, Hand, PoolTypeOK
<1>18. /\ \A m \in Numbers \ {n} : handleList'[m] = handleList[m]
       /\ handleList'[n] = link[next] /\ handleList' \in [Numbers -> HandleSet \cup {End}]
  BY <1>1, <1>14, <1>17 DEF PoolTypeOK
<1>19. PoolTypeOK'
  <2>1. link' \in [HandleSet -> HandleSet \cup {End, Object}] /\ objects' \in [HandleSet -> Nat]
    BY <1>4, <1>8, <1>11
  <2> QED
    BY <2>1, <1>1, <1>4, <1>6, <1>17, <1>18 DEF PoolTypeOK
<1> HIDE DEF next, s
<1>20. FullSlots' = FullSlots \ {s} /\ FullSlots \subseteq Indices
  <2>1. taken \subseteq Numbers /\ Numbers \subseteq Threads
    BY <1>1, PoolFacts DEF PoolTypeOK
  <2>2. \A m \in taken \ {n} : held[m] # s
    BY <2>1, <1>3, <1>5, <1>6, <1>4 DEF SlotsOK, s
  <2>3. ASSUME NEW i PROVE i \in BlockSlots' <=> i \in BlockSlots /\ i # s
    <3>1. taken' = taken /\ (i \in OnStack("fifo")' <=> i \in OnStack("fifo")) /\ s \notin OnStack("fifo")
      BY <1>4, <1>6
    <3>2. ASSUME NEW m \in taken, m # n
          PROVE  held'[m] = i /\ i # -1 /\ handleList'[m] = End
                 <=> held[m] = i /\ i # -1 /\ handleList[m] = End
      <4>1. held'[m] = held[m] /\ handleList'[m] = handleList[m]
        BY <3>2, <2>1, <1>6, <1>18
      <4> QED
        BY <4>1
    <3>3. held'[n] = -1 /\ held[n] = s
      BY <1>6 DEF s
    <3>4. i \in BlockSlots' <=> \/ i \in OnStack("fifo")
                                \/ \E m \in taken : m # n /\ held[m] = i /\ i # -1 /\ handleList[m] = End
      BY <3>1, <3>2, <3>3, InBlockSlots
    <3>5. i \in BlockSlots <=> \/ i \in OnStack("fifo")
                               \/ \E m \in taken : held[m] = i /\ i # -1 /\ handleList[m] = End
      BY InBlockSlots
    <3> QED
      BY <3>1, <3>3, <3>4, <3>5, <2>2
  <2>4. FullSlots \subseteq Indices
    BY <1>1, SlotsInRange
  <2>5. \A i : i \in FullSlots' <=> i \in FullSlots /\ i # s
    BY <2>3 DEF FullSlots
  <2> QED
    BY <2>4, <2>5
<1>21. Tops(top2)'
  <2>1. /\ \A m \in Numbers : InList(m) \in Piles /\ InList(m) # x /\ (InList(m) = y => m = n)
        /\ \A i \in Indices : InSlot(i) \in Piles /\ InSlot(i) # y /\ (InSlot(i) = x => i = s)
        /\ \A k \in Nat : InReleased(k) \in Piles \ {x, y}
        /\ InCursor \in Piles \ {x, y} /\ InUnqueued \in Piles \ {x, y}
    BY PileNames
  <2>2. /\ top2[x] = End /\ top2[y] = link[next]
        /\ \A z \in Piles \ {x, y} : top2[z] = top[z]
    BY <1>15, <1>16
  <2>3. ASSUME NEW m \in Numbers PROVE top2[InList(m)] = IF m \in given THEN End ELSE handleList'[m]
    <3>1. CASE m = n
      BY <3>1, <2>2, <1>9, <1>18
    <3>2. CASE m # n
      <4>1. InList(m) \in Piles \ {x, y}
        BY <3>2, <2>1
      <4>2. top2[InList(m)] = top[InList(m)] /\ handleList'[m] = handleList[m]
        BY <4>1, <3>2, <2>2, <1>18
      <4> QED
        BY <4>2, <1>3 DEF Tops
    <3> QED
      BY <3>1, <3>2
  <2>4. ASSUME NEW i \in Indices PROVE top2[InSlot(i)] = IF i \in FullSlots' THEN data[i] ELSE End
    <3>1. CASE i = s
      BY <3>1, <2>2, <1>20
    <3>2. CASE i # s
      <4>1. InSlot(i) \in Piles \ {x, y}
        BY <3>2, <2>1
      <4>2. top2[InSlot(i)] = top[InSlot(i)] /\ (i \in FullSlots' <=> i \in FullSlots)
        BY <4>1, <3>2, <2>2, <1>20
      <4> QED
        BY <4>2, <1>3 DEF Tops
    <3> QED
      BY <3>1, <3>2
  <2>5. \A k \in Nat : top2[InReleased(k)] = Released(k)
    BY <2>1, <2>2, <1>3 DEF Tops
  <2>6. top2[InUnqueued] = prevUnqueued /\ top2[InCursor] = cursor
    BY <2>1, <2>2, <1>3 DEF Tops
  <2> QED
    BY <2>3, <2>4, <2>5, <2>6, <1>4 DEF Tops, Released
<1>22. /\ InFirst \notin Piles /\ InObject \notin Piles /\ InFirst # InObject
       /\ x # InList(First)
  BY PileNames
<1>23. /\ w2[next] = InObject
       /\ \A h \in HandleSet \ {next} : w2[h] = IF w[h] = x THEN y ELSE w[h]
  BY <1>8, <1>10, <1>15, <1>16, <1>22
<1>24. next # 1 /\ next \notin 2 .. BlockSize /\ 1 \in HandleSet /\ 2 .. BlockSize \subseteq HandleSet
  <2>1. /\ w[1] = InObject \/ w[1] = InList(First)
        /\ \A h \in 2 .. BlockSize : w[h] = InFirst
        /\ 1 \in HandleSet /\ 2 .. BlockSize \subseteq HandleSet
    BY <1>3, FirstHandles
  <2> QED
    BY <2>1, <1>10, <1>14, <1>22
<1>25. FirstBlock(w2, p)'
  <2>1. ASSUME NEW h \in HandleSet PROVE w2[h] = InFirst <=> h \in 2 .. BlockSize
    <3>1. w[h] = InFirst <=> h \in 2 .. BlockSize
      BY <1>3 DEF FirstBlock
    <3> QED
      BY <3>1, <1>10, <1>22, <1>23, <1>24
  <2>2. \A h \in 2 .. BlockSize : link'[h] = h - 1
    BY <1>3, <1>12, <1>24 DEF FirstBlock
  <2>3. w2[1] = w[1]
    <3>1. w[1] # x
      BY <1>3, <1>10, <1>22 DEF FirstBlock
    <3> QED
      BY <3>1, <1>23, <1>24
  <2>4. IF First \in listed' THEN w2[1] = InObject
        ELSE handleList'[First] = 1 /\ w2[1] = InList(First) /\ p[1] = 1
    BY <2>3, <1>3, <1>4, <1>9, <1>18, PoolFacts DEF FirstBlock
  <2> QED
    BY <2>1, <2>2, <2>4, <1>3, <1>4, <1>6 DEF FirstBlock
<1>26. Owned(w2)'
  <2>1. objects[next] = 0
    BY <1>3, <1>8, <1>10, <1>14, <1>22 DEF Owned
  <2>2. ASSUME NEW h \in HandleSet, h # next
        PROVE  /\ objects'[h] = IF w2[h] = InObject THEN 1 ELSE 0
               /\ w2[h] = InObject => link'[h] = Object
    <3>1. w2[h] = InObject <=> w[h] = InObject
      BY <2>2, <1>10, <1>22, <1>23
    <3> QED
      BY <3>1, <2>2, <1>3, <1>12 DEF Owned
  <2> QED
    BY <2>1, <2>2, <1>13, <1>23 DEF Owned
<1>27. BlocksOK(p)'
  BY <1>3, <1>4, <1>5, <1>6, <1>20 DEF BlocksOK
<1>28. HandsFull'
  <2>1. \A m \in Numbers \ {n} : held'[m] = held[m]
    BY <1>6, PoolFacts
  <2> QED
    BY <2>1, <1>3, <1>4, <1>6, <1>18 DEF HandsFull
<1>29. Sound(w2, p, top2, lost)'
  BY <1>3, <1>6, <1>16, <1>21, <1>25, <1>26, <1>27, <1>28 DEF Sound
<1> QED
  BY <1>17, <1>19, <1>29 DEF PoolInv

-----------------------------------------------------------------------------
(* The operations that free handles *)

\* DeallocHandleInGC counts the handle, and finds a slot when that completes a block.
LEMMA DeallocSlots ==
  ASSUME PoolTypeOK, ~wild, NEW w, NEW p, NEW top, NEW lost, Sound(w, p, top, lost),
         NEW h \in HandleSet, Dealloc(h), UNCHANGED <<data, handleList, taken, listed, given>>
  PROVE  /\ wild' = FALSE /\ stack' \in [Lists -> Seq(Indices)]
         /\ held' \in [Threads -> Indices \cup {-1}]
         /\ unqueued' = unqueued + 1 /\ unqueued' \in 0 .. BlockSize
         /\ held'[Collector] # -1 <=> unqueued' = BlockSize
         /\ stack'["fifo"] = stack["fifo"] /\ FullSlots' = FullSlots
         /\ SlotsOK(lost)' /\ HandsFull'
<1>1. /\ BlocksOK(p) /\ SlotsOK(lost) /\ HandsFull
      /\ Collector \in Threads /\ "free" \in Lists /\ "fifo" \in Lists \ {"free"}
      /\ BlockSize \in Nat
  BY SoundHas, PoolFacts DEF Lists
<1>2. held[Collector] = -1 /\ unqueued' = unqueued + 1
  BY DEF Dealloc
<1>3. unqueued \in 0 .. BlockSize /\ unqueued # BlockSize
  BY <1>1, <1>2 DEF BlocksOK, PoolTypeOK
<1>4. unqueued' \in 0 .. BlockSize
  BY <1>1, <1>2, <1>3
<1>5. taken \subseteq Threads /\ Collector \notin taken
  BY PoolFacts DEF PoolTypeOK
<1>6. CASE unqueued + 1 # BlockSize
  <2>1. stack' = stack /\ held' = held /\ wild' = wild
    BY <1>6 DEF Dealloc
  <2>2. FullSlots' = FullSlots
    BY <2>1 DEF FullSlots, BlockSlots
  <2>3. SlotsOK(lost)' /\ HandsFull'
    BY <2>1, <1>1, SlotsKept DEF HandsFull
  <2> QED
    BY <2>1, <2>2, <2>3, <1>1, <1>2, <1>4, <1>6 DEF PoolTypeOK
<1>7. CASE unqueued + 1 = BlockSize
  <2>1. stack["free"] # <<>>
    BY <1>2, FreeSlotThere
  <2>2. Pop(Collector, "free") /\ wild' = wild
    BY <2>1, <1>7 DEF Dealloc
  <2>3. /\ stack' \in [Lists -> Seq(Indices)] /\ held' \in [Threads -> Indices \cup {-1}]
        /\ held'[Collector] # -1
        /\ \A v \in Threads \ {Collector} : held'[v] = held[v]
        /\ stack'["fifo"] = stack["fifo"] /\ OnStack("fifo")' = OnStack("fifo")
        /\ SlotsOK(lost)'
    BY <2>2, <1>1, PopSlot
  <2>4. \A m \in taken : held'[m] = held[m]
    BY <2>3, <1>5
  <2>5. ASSUME NEW i PROVE i \in BlockSlots' <=> i \in BlockSlots
    BY <2>3, <2>4, InBlockSlots
  <2>6. FullSlots' = FullSlots
    BY <2>5 DEF FullSlots
  <2>7. HandsFull'
    <3>1. \A m \in Numbers : held'[m] = held[m]
      BY <2>3, PoolFacts
    <3> QED
      BY <3>1, <1>1 DEF HandsFull
  <2> QED
    BY <2>2, <2>3, <2>6, <2>7, <1>2, <1>4, <1>7 DEF PoolTypeOK
<1> QED
  BY <1>6, <1>7

\* A handle that is in no pile goes to the collector's.
LEMMA DeallocSound ==
  ASSUME PoolTypeOK, NEW w, NEW p, NEW top, NEW lost, Sound(w, p, top, lost), ~wild,
         NEW h \in HandleSet, h # 1, Dealloc(h), UNCHANGED <<data, handleList, taken, listed, given, released>>,
         NEW w1, NEW top1, Piled(link, w1, p, top1), w1[h] = InObject, w[h] \in {InObject, InCursor},
         \A g \in HandleSet \ {h} : w1[g] = w[g],
         \A x \in Piles \ {InCursor} : top1[x] = top[x],
         top1[InCursor] = cursor',
         objects'[h] = 0, \A g \in HandleSet \ {h} : objects'[g] = objects[g]
  PROVE  \E w2, p2, top2 : Sound(w2, p2, top2, lost)'
<1>1. /\ Piled(link, w, p, top) /\ Tops(top) /\ FirstBlock(w, p) /\ Owned(w) /\ BlocksOK(p)
      /\ lost \in [Numbers -> Indices]
  BY SoundHas
<1>2. /\ unqueued' = unqueued + 1 /\ (held'[Collector] # -1 <=> unqueued' = BlockSize)
      /\ stack'["fifo"] = stack["fifo"] /\ FullSlots' = FullSlots
      /\ SlotsOK(lost)' /\ HandsFull'
  BY DeallocSlots
<1>3. link \in [HandleSet -> HandleSet \cup {End, Object}]
  BY DEF PoolTypeOK
<1>4. /\ link' = [link EXCEPT ![h] = prevUnqueued] /\ prevUnqueued' = h
      /\ link'[h] = prevUnqueued /\ \A g \in HandleSet \ {h} : link'[g] = link[g]
  BY <1>3 DEF Dealloc
<1>5. /\ InUnqueued \in Piles \ {InCursor} /\ InCursor \in Piles \ {InUnqueued} /\ w1[h] \notin Piles
      /\ top1[InUnqueued] = prevUnqueued
  BY <1>1, PileNames DEF Tops
<1>6. PICK w2, p2, top2 :
           /\ Piled(link', w2, p2, top2)
           /\ w2[h] = InUnqueued /\ \A g \in HandleSet \ {h} : w2[g] = w1[g]
           /\ p2[h] = IF top1[InUnqueued] = End THEN 1 ELSE p[top1[InUnqueued]] + 1
           /\ \A g \in HandleSet \ {h} : p2[g] = p[g]
           /\ top2[InUnqueued] = h /\ \A y \in Piles \ {InUnqueued} : top2[y] = top1[y]
  <2> DEFINE x == InUnqueued
  <2>1. x \in Piles /\ w1[h] \notin Piles /\ link'[h] = top1[x] /\ \A g \in HandleSet \ {h} : link'[g] = link[g]
    BY <1>4, <1>5
  <2> HIDE DEF x
  <2>2. \E w2, p2, top2 :
           /\ Piled(link', w2, p2, top2)
           /\ w2[h] = x /\ \A g \in HandleSet \ {h} : w2[g] = w1[g]
           /\ p2[h] = IF top1[x] = End THEN 1 ELSE p[top1[x]] + 1
           /\ \A g \in HandleSet \ {h} : p2[g] = p[g]
           /\ top2[x] = h /\ \A y \in Piles \ {x} : top2[y] = top1[y]
    BY <2>1, Put
  <2> QED
    BY <2>2 DEF x
<1>7. Tops(top2)'
  <2>1. /\ \A m \in Numbers : InList(m) \in Piles \ {InUnqueued, InCursor}
        /\ \A i \in Indices : InSlot(i) \in Piles \ {InUnqueued, InCursor}
        /\ \A k \in Nat : InReleased(k) \in Piles \ {InUnqueued, InCursor}
    BY PileNames
  <2>2. \A x \in Piles \ {InUnqueued, InCursor} : top2[x] = top[x]
    BY <1>6
  <2>3. top2[InUnqueued] = h /\ top2[InCursor] = cursor'
    BY <1>5, <1>6
  <2> QED
    BY <2>1, <2>2, <2>3, <1>1, <1>2, <1>4 DEF Tops, Released
<1>8. /\ InFirst \notin Piles /\ InObject \notin Piles /\ InFirst # InObject
      /\ InUnqueued # InFirst /\ InUnqueued # InObject /\ InCursor # InFirst
      /\ \A i : InSlot(i) # InCursor
      /\ \A i \in Indices : InSlot(i) \in Piles /\ InSlot(i) # InObject
  BY PileNames
<1>9. \A g \in HandleSet \ {h} : w2[g] = w[g]
  BY <1>6
<1>10. FirstBlock(w2, p2)'
  <2>1. h \notin 2 .. BlockSize /\ 1 \in HandleSet \ {h} /\ 2 .. BlockSize \subseteq HandleSet \ {h}
    BY <1>1, <1>8, FirstHandles
  <2>2. ASSUME NEW g \in HandleSet PROVE w2[g] = InFirst <=> g \in 2 .. BlockSize
    BY <2>1, <1>1, <1>6, <1>8, <1>9 DEF FirstBlock
  <2>3. \A g \in 2 .. BlockSize : link'[g] = g - 1
    BY <2>1, <1>1, <1>4 DEF FirstBlock
  <2>4. w2[1] = w[1] /\ p2[1] = p[1]
    BY <2>1, <1>6, <1>9
  <2> QED
    BY <2>2, <2>3, <2>4, <1>1, <1>2 DEF FirstBlock
<1>11. Owned(w2)'
  BY <1>1, <1>4, <1>6, <1>8, <1>9 DEF Owned
<1>12. BlocksOK(p2)'
  <2>1. ASSUME NEW i \in FullSlots PROVE data[i] \in HandleSet /\ p2[data[i]] = BlockSize
    <3>1. data[i] \in HandleSet /\ p[data[i]] = BlockSize /\ i \in Indices
      BY <1>1, SlotsInRange DEF BlocksOK
    <3>2. top[InSlot(i)] = data[i] /\ InSlot(i) \in Piles
      BY <3>1, <1>1, <1>8 DEF Tops
    <3>3. w[data[i]] = InSlot(i)
      BY <3>1, <3>2, <1>1, PoolFacts DEF Piled, Stacked
    <3>4. data[i] # h
      BY <3>1, <3>3, <1>8
    <3> QED
      BY <3>1, <3>4, <1>6
  <2>2. h # End
    BY PoolFacts
  <2>3. unqueued + 1 = p2[h]
    <3>1. CASE prevUnqueued = End
      BY <3>1, <1>1, <1>5, <1>6 DEF BlocksOK
    <3>2. CASE prevUnqueued # End
      BY <3>2, <1>1, <1>5, <1>6 DEF BlocksOK
    <3> QED
      BY <3>1, <3>2
  <2> QED
    BY <2>1, <2>2, <2>3, <1>2, <1>4 DEF BlocksOK
<1>13. Sound(w2, p2, top2, lost)'
  BY <1>1, <1>2, <1>6, <1>7, <1>10, <1>11, <1>12 DEF Sound
<1> QED
  BY <1>13

LEMMA DeallocTyped ==
  ASSUME PoolTypeOK, ~wild, NEW w, NEW p, NEW top, NEW lost, Sound(w, p, top, lost),
         NEW h \in HandleSet, Dealloc(h), cursor' \in HandleSet \cup {End},
         objects' \in [HandleSet -> Nat],
         UNCHANGED <<data, handleList, released, taken, listed, gc, given, broken>>
  PROVE  PoolTypeOK'
<1>1. /\ wild' = FALSE /\ stack' \in [Lists -> Seq(Indices)]
      /\ held' \in [Threads -> Indices \cup {-1}] /\ unqueued' \in 0 .. BlockSize
  BY DeallocSlots
<1>2. link' \in [HandleSet -> HandleSet \cup {End, Object}] /\ prevUnqueued' \in HandleSet \cup {End}
  BY DEF PoolTypeOK, Dealloc
<1> QED
  BY <1>1, <1>2 DEF PoolTypeOK

LEMMA FreeReleasedSafe ==
  ASSUME PoolInv, ~wild, broken = {}, FreeReleased
  PROVE  PoolInv'
<1> DEFINE h == cursor
           x == InCursor
<1>1. PoolTypeOK
  BY DEF PoolInv
<1>2. PICK w, p, top, lost : Sound(w, p, top, lost)
  BY DEF PoolInv
<1>3. /\ Piled(link, w, p, top) /\ Tops(top) /\ FirstBlock(w, p) /\ Owned(w)
  BY <1>2, SoundHas
<1>4. h \in HandleSet /\ x \in Piles /\ top[x] = h
  BY <1>1, <1>3, PileNames DEF FreeReleased, PoolTypeOK, Tops
<1>5. /\ w[h] = x /\ link[h] \in HandleSet \cup {End}
      /\ \E w1, top1 : /\ Piled(link, w1, p, top1)
                       /\ w1[h] = InObject /\ \A g \in HandleSet \ {h} : w1[g] = w[g]
                       /\ top1[x] = link[h] /\ \A y \in Piles \ {x} : top1[y] = top[y]
  <2> HIDE DEF h, x
  <2> QED
    BY <1>3, <1>4, Taken
<1>6. PICK w1, top1 : /\ Piled(link, w1, p, top1)
                      /\ w1[h] = InObject /\ \A g \in HandleSet \ {h} : w1[g] = w[g]
                      /\ top1[x] = link[h] /\ \A y \in Piles \ {x} : top1[y] = top[y]
  BY <1>5
<1>7. /\ Dealloc(h) /\ cursor' = link[h]
      /\ UNCHANGED <<data, handleList, released, taken, listed, gc, objects, given, broken>>
  BY <1>5, PoolFacts DEF FreeReleased
<1>8. h # 1
  BY <1>3, <1>5, PileNames, FirstHandles
<1>9. objects'[h] = 0 /\ \A g \in HandleSet \ {h} : objects'[g] = objects[g]
  BY <1>3, <1>4, <1>5, <1>7, PileNames DEF Owned
<1> HIDE DEF h
<1>10. \E w2, p2, top2 : Sound(w2, p2, top2, lost)'
  BY <1>1, <1>2, <1>4, <1>5, <1>6, <1>7, <1>8, <1>9, DeallocSound
<1>11. PoolTypeOK'
  <2>1. objects' \in [HandleSet -> Nat]
    BY <1>1, <1>7 DEF PoolTypeOK
  <2> QED
    BY <2>1, <1>1, <1>2, <1>4, <1>5, <1>7, DeallocTyped
<1>12. wild' = FALSE
  BY <1>1, <1>2, <1>4, <1>7, DeallocSlots
<1> QED
  BY <1>10, <1>11, <1>12 DEF PoolInv

LEMMA FreeObjectSafe ==
  ASSUME PoolInv, ~wild, broken = {}, NEW h \in HandleSet, FreeObject(h)
  PROVE  PoolInv'
<1>1. PoolTypeOK
  BY DEF PoolInv
<1>2. PICK w, p, top, lost : Sound(w, p, top, lost)
  BY DEF PoolInv
<1>3. /\ Piled(link, w, p, top) /\ Tops(top) /\ FirstBlock(w, p) /\ Owned(w)
  BY <1>2, SoundHas
<1>4. /\ objects[h] > 0 /\ h # 1 /\ Dealloc(h)
      /\ objects' = [objects EXCEPT ![h] = objects[h] - 1]
      /\ UNCHANGED <<data, handleList, released, taken, listed, gc, cursor, given, broken>>
  BY DEF FreeObject
<1>5. w[h] = InObject /\ objects[h] = 1
  BY <1>3, <1>4 DEF Owned
<1>6. objects \in [HandleSet -> Nat] /\ cursor \in HandleSet \cup {End}
  BY <1>1 DEF PoolTypeOK
<1>7. /\ objects'[h] = 0 /\ \A g \in HandleSet \ {h} : objects'[g] = objects[g]
      /\ objects' \in [HandleSet -> Nat]
  BY <1>4, <1>5, <1>6
<1>8. top[InCursor] = cursor'
  BY <1>3, <1>4 DEF Tops
<1>9. \E w2, p2, top2 : Sound(w2, p2, top2, lost)'
  BY <1>1, <1>2, <1>3, <1>4, <1>5, <1>7, <1>8, DeallocSound
<1>10. PoolTypeOK'
  BY <1>1, <1>2, <1>4, <1>6, <1>7, DeallocTyped
<1>11. wild' = FALSE
  BY <1>1, <1>2, <1>4, DeallocSlots
<1> QED
  BY <1>9, <1>10, <1>11 DEF PoolInv

-----------------------------------------------------------------------------
(* HandlePool: the theorem *)

LEMMA PoolStepSafe ==
  ASSUME PoolInv, PoolNext
  PROVE  PoolInv'
<1>1. ~wild /\ broken = {}
  BY DEF PoolNext
<1>2. CASE \E n \in Numbers : Register(n)
  BY <1>1, <1>2, RegisterSafe
<1>3. CASE \E n \in Numbers : AllocateHandle(n)
  BY <1>1, <1>3, AllocateHandleSafe
<1>4. CASE \E n \in Numbers : GrabBlock(n)
  BY <1>1, <1>4, GrabBlockSafe
<1>5. CASE \E n \in Numbers : UseBlock(n)
  BY <1>1, <1>5, UseBlockSafe
<1>6. CASE \E n \in Numbers : ExitKeeping(n)
  BY <1>1, <1>6, ExitKeepingSafe
<1>7. CASE \E n \in Numbers : TakeReleaseSlot(n)
  BY <1>1, <1>7, TakeReleaseSlotSafe
<1>8. CASE \E n \in Numbers : ReleaseList(n)
  BY <1>1, <1>8, ReleaseListSafe
<1>9. CASE QueueBlock
  BY <1>1, <1>9, QueueBlockSafe
<1>10. CASE StartCollection \/ EndSweep
  BY <1>1, <1>10, StartCollectionSafe
<1>11. CASE TakeReleased
  BY <1>1, <1>11, TakeReleasedSafe
<1>12. CASE FreeReleased
  BY <1>1, <1>12, FreeReleasedSafe
<1>13. CASE \E h \in HandleSet : FreeObject(h)
  BY <1>1, <1>13, FreeObjectSafe
<1> QED
  BY <1>2, <1>3, <1>4, <1>5, <1>6, <1>7, <1>8, <1>9, <1>10, <1>11, <1>12, <1>13 DEF PoolNext

LEMMA PoolStutterSafe ==
  ASSUME PoolInv, UNCHANGED poolVars
  PROVE  PoolInv'
<1>1. UNCHANGED <<data, stack, held, link, handleList, released, taken, listed, unqueued,
                  prevUnqueued, gc, cursor, objects, given, broken, wild>>
  BY DEF poolVars, queue
<1>2. PoolTypeOK' = PoolTypeOK
  BY <1>1 DEF PoolTypeOK
<1>3. ASSUME NEW w, NEW p, NEW top, NEW lost, Sound(w, p, top, lost)
      PROVE  Sound(w, p, top, lost)'
  <2>1. /\ Piled(link, w, p, top) /\ Tops(top) /\ FirstBlock(w, p) /\ Owned(w) /\ BlocksOK(p)
        /\ SlotsOK(lost) /\ lost \in [Numbers -> Indices] /\ HandsFull
    BY <1>3, SoundHas
  <2>2. Piled(link', w, p, top)
    BY <2>1, <1>1
  <2>3. FullSlots' = FullSlots
    BY <1>1 DEF FullSlots, BlockSlots
  <2>4. /\ Tops(top)' /\ FirstBlock(w, p)' /\ Owned(w)' /\ BlocksOK(p)'
    BY <2>1, <2>3, <1>1 DEF Tops, Released, FirstBlock, Owned, BlocksOK
  <2>5. SlotsOK(lost)' /\ HandsFull'
    BY <2>1, <1>1, SlotsKept DEF HandsFull
  <2> QED
    BY <2>1, <2>2, <2>4, <2>5 DEF Sound
<1> QED
  BY <1>1, <1>2, <1>3 DEF PoolInv

\* The invariant leaves each handle one place.
LEMMA PoolInvOnePlace ==
  ASSUME PoolInv
  PROVE  OnePlace
<1>1. PoolTypeOK /\ (wild => broken # {})
  BY DEF PoolInv
<1>2. ASSUME broken = {}, NEW h \in HandleSet PROVE Places(h) = 1
  <2>1. PICK w, p, top, lost : Sound(w, p, top, lost)
    BY <1>2 DEF PoolInv
  <2>2. Piled(link, w, p, top) /\ Tops(top) /\ FirstBlock(w, p) /\ Owned(w)
    BY <2>1, SoundHas
  <2> QED
    BY <2>2, <1>1, PlacesOne
<1> QED
  BY <1>1, <1>2 DEF OnePlace

\* However many threads, blocks and handles there are, and whatever threads come, go and
\* allocate, a handle is with one object or in one list at any time, as long as no thread
\* number is taken over with its old list and the block queue lasts: AllocateHandle and
\* GrabHandleList take each handle once, DeallocHandleInGC finds a slot for every block it
\* fills, and FreeThreadHandles and FreeThreadHandlesInGC lose none of a thread's handles.
THEOREM HandlesInOnePlace == PoolSpec => []OnePlace
<1>1. PoolInit => PoolInv
  BY StartSound
<1>2. PoolInv /\ [PoolNext]_poolVars => PoolInv'
  BY PoolStepSafe, PoolStutterSafe
<1>3. PoolInv => OnePlace
  BY PoolInvOnePlace
<1> QED
  BY <1>1, <1>2, <1>3, PTL DEF PoolSpec
=============================================================================
