----------------------------- MODULE LifoProofs -----------------------------
(***************************************************************************)
(* Proofs about LockFreeLIFO, for any set of threads, any number of slots  *)
(* and any tag: the two lists are stacks on which each push and pop takes  *)
(* effect at one instant, and no slot is lost or in two places.            *)
(***************************************************************************)
EXTENDS LockFreeLIFO, DataInduction

-----------------------------------------------------------------------------
(* The inductive invariant *)

\* The links make these two sequences of slots.
LinkedAs(s) ==
  \A q \in Lists :
    /\ head[q] = IF Len(s[q]) = 0 THEN -1 ELSE s[q][1]
    /\ \A k \in 1 .. Len(s[q]) : next[s[q][k]] = IF k < Len(s[q]) THEN s[q][k + 1] ELSE -1

\* Every slot is in one place, a list or a hand.
Apart(s) ==
  /\ \A q, r \in Lists : \A k \in 1 .. Len(s[q]), l \in 1 .. Len(s[r]) :
       s[q][k] = s[r][l] => q = r /\ k = l
  /\ \A t \in Threads, q \in Lists : \A k \in 1 .. Len(s[q]) : held[t] # s[q][k]
  /\ \A t, u \in Threads : held[t] # -1 /\ held[t] = held[u] => t = u
  /\ \A i \in Indices : \/ \E t \in Threads : held[t] = i
                        \/ \E q \in Lists : \E k \in 1 .. Len(s[q]) : s[q][k] = i

\* As long as the tag has not moved, the slot that a pop has seen is on the list, wherever it
\* is in it by now, and the link that the pop has read is still the slot's.
Current(t) == pc[t] \in {"read", "take"} /\ seen[t].aba = aba[at[t]]
PopsOK(s) ==
  \A t \in Threads : Current(t) =>
    /\ \E k \in 1 .. Len(s[at[t]]) : s[at[t]][k] = seen[t].head
    /\ pc[t] = "take" => after[t] = next[seen[t].head]

\* What a thread in the middle of an operation has in hand.
HandsOK ==
  \A t \in Threads :
    /\ pc[t] \in {"link", "swing"} => held[t] # -1
    /\ pc[t] = "swing" => next[held[t]] = seen[t].head
    /\ pc[t] \in {"read", "take"} => held[t] = -1 /\ seen[t].head # -1

Stacked(s) == LinkedAs(s) /\ Apart(s) /\ PopsOK(s)
TwoLists == [Lists -> Seq(Indices)]
LifoInv == LlTypeOK /\ HandsOK /\ \E s \in TwoLists : Stacked(s)

-----------------------------------------------------------------------------
(* Sequences of slots *)

LEMMA PushFacts ==
  ASSUME NEW Items, NEW s \in Seq(Items), NEW h \in Items
  PROVE  /\ <<h>> \o s \in Seq(Items)
         /\ Len(<<h>> \o s) = Len(s) + 1
         /\ (<<h>> \o s)[1] = h
         /\ \A k \in 1 .. Len(s) : (<<h>> \o s)[k + 1] = s[k]
         /\ \A k \in 1 .. Len(s) + 1 : k = 1 \/ (k - 1 \in 1 .. Len(s) /\ (<<h>> \o s)[k] = s[k - 1])
OBVIOUS

LEMMA PopFacts ==
  ASSUME NEW Items, NEW s \in Seq(Items), Len(s) # 0
  PROVE  /\ Tail(s) \in Seq(Items)
         /\ Len(s) \in Nat /\ Len(s) >= 1
         /\ Len(Tail(s)) = Len(s) - 1
         /\ Head(s) = s[1] /\ s # <<>>
         /\ \A k \in 1 .. Len(s) - 1 : k + 1 \in 1 .. Len(s) /\ Tail(s)[k] = s[k + 1]
<1>1. s # <<>>
  OBVIOUS
<1> QED
  BY <1>1

LEMMA SlotFacts ==
  ASSUME NEW s \in TwoLists
  PROVE  /\ -1 \notin Indices
         /\ \A q \in Lists : /\ s[q] \in Seq(Indices) /\ Len(s[q]) \in Nat
                             /\ \A k \in 1 .. Len(s[q]) : s[q][k] \in Indices /\ s[q][k] # -1
<1>1. -1 \notin Indices
  BY LengthAssumption DEF Indices
<1>2. ASSUME NEW q \in Lists
      PROVE  /\ s[q] \in Seq(Indices) /\ Len(s[q]) \in Nat
             /\ \A k \in 1 .. Len(s[q]) : s[q][k] \in Indices
  <2>1. s[q] \in Seq(Indices)
    BY DEF TwoLists
  <2> QED
    BY <2>1
<1> QED
  BY <1>1, <1>2

LEMMA BumpFacts ==
  ASSUME NEW a \in 0 .. TagMod - 1
  PROVE  Bump(a) \in 0 .. TagMod - 1
BY LengthAssumption DEF Bump

-----------------------------------------------------------------------------
(* The steps *)

\* A step of t moves nobody else within an operation.
Moves(t) ==
  /\ \A u \in Threads \ {t} : /\ pc'[u] = pc[u] /\ at'[u] = at[u]
                              /\ seen'[u] = seen[u] /\ after'[u] = after[u]

\* A step of t that leaves the lists and hands alone.
LEMMA ListsStay ==
  ASSUME LlTypeOK, HandsOK, NEW s \in TwoLists, Stacked(s), NEW t \in Threads, Moves(t),
         UNCHANGED <<shared, held>>,
         pc'[t] \in {"link", "swing"} => held[t] # -1,
         pc'[t] # "swing",
         pc'[t] \in {"read", "take"} => held[t] = -1 /\ seen'[t].head # -1,
         Current(t)' => /\ \E k \in 1 .. Len(s[at'[t]]) : s[at'[t]][k] = seen'[t].head
                        /\ pc'[t] = "take" => after'[t] = next[seen'[t].head]
  PROVE  HandsOK' /\ Stacked(s)'
<1>1. head' = head /\ aba' = aba /\ next' = next /\ held' = held
  BY DEF shared
<1>2. HandsOK'
  <2> SUFFICES ASSUME NEW u \in Threads
               PROVE  /\ pc'[u] \in {"link", "swing"} => held[u] # -1
                      /\ pc'[u] = "swing" => next[held[u]] = seen'[u].head
                      /\ pc'[u] \in {"read", "take"} => held[u] = -1 /\ seen'[u].head # -1
    BY <1>1 DEF HandsOK
  <2>1. CASE u = t
    BY <2>1
  <2>2. CASE u # t
    BY <2>2 DEF Moves, HandsOK
  <2> QED
    BY <2>1, <2>2
<1>3. LinkedAs(s)' /\ Apart(s)'
  BY <1>1 DEF Stacked, LinkedAs, Apart
<1>4. PopsOK(s)'
  <2> SUFFICES ASSUME NEW u \in Threads, Current(u)'
               PROVE  /\ \E k \in 1 .. Len(s[at'[u]]) : s[at'[u]][k] = seen'[u].head
                      /\ pc'[u] = "take" => after'[u] = next[seen'[u].head]
    BY <1>1 DEF PopsOK
  <2>1. CASE u = t
    BY <2>1
  <2>2. CASE u # t
    <3>1. pc'[u] = pc[u] /\ at'[u] = at[u] /\ seen'[u] = seen[u] /\ after'[u] = after[u]
      BY <2>2 DEF Moves
    <3>2. Current(u)
      BY <1>1, <3>1 DEF Current
    <3> QED
      BY <3>1, <3>2 DEF Stacked, PopsOK
  <2> QED
    BY <2>1, <2>2
<1> QED
  BY <1>2, <1>3, <1>4 DEF Stacked

\* A list that is not empty has its head on it.
LEMMA HeadIsFirst ==
  ASSUME NEW s \in TwoLists, Stacked(s), NEW q \in Lists, head[q] # -1
  PROVE  Len(s[q]) # 0 /\ 1 \in 1 .. Len(s[q]) /\ s[q][1] = head[q]
<1>1. Len(s[q]) # 0 /\ s[q][1] = head[q]
  BY DEF Stacked, LinkedAs
<1> QED
  BY <1>1, SlotFacts

LEMMA StepLoadHead ==
  ASSUME LlTypeOK, HandsOK, NEW s \in TwoLists, Stacked(s), NEW t \in Threads, NEW q \in Lists, LoadHead(t, q)
  PROVE  LlTypeOK' /\ HandsOK' /\ Stacked(s)' /\ held' = held
<1>1. /\ pc'[t] = "link" /\ held[t] # -1 /\ held' = held
      /\ UNCHANGED <<shared, held>> /\ Moves(t)
  BY DEF LoadHead, LlTypeOK, Moves
<1>2. LlTypeOK'
  BY DEF LoadHead, LlTypeOK, shared
<1>3. ~Current(t)'
  BY <1>1 DEF Current
<1> QED
  BY <1>1, <1>2, <1>3, ListsStay

LEMMA StepLoadPair ==
  ASSUME LlTypeOK, HandsOK, NEW s \in TwoLists, Stacked(s), NEW t \in Threads, NEW q \in Lists, LoadPair(t, q)
  PROVE  LlTypeOK' /\ HandsOK' /\ Stacked(s)' /\ held' = held
<1>1. /\ pc'[t] = "read" /\ held[t] = -1 /\ held' = held /\ head[q] # -1
      /\ at'[t] = q /\ seen'[t].head = head[q]
      /\ UNCHANGED <<shared, held>> /\ Moves(t)
  BY DEF LoadPair, LlTypeOK, Moves
<1>2. LlTypeOK'
  BY DEF LoadPair, LlTypeOK, shared
<1>3. \E k \in 1 .. Len(s[q]) : s[q][k] = head[q]
  BY <1>1, HeadIsFirst
<1> QED
  BY <1>1, <1>2, <1>3, ListsStay

LEMMA StepReadNext ==
  ASSUME LlTypeOK, HandsOK, NEW s \in TwoLists, Stacked(s), NEW t \in Threads, ReadNext(t)
  PROVE  LlTypeOK' /\ HandsOK' /\ Stacked(s)' /\ held' = held
<1>1. /\ pc[t] = "read" /\ pc'[t] = "take" /\ held' = held /\ aba' = aba
      /\ at'[t] = at[t] /\ seen'[t] = seen[t] /\ after'[t] = next[seen[t].head]
      /\ UNCHANGED <<shared, held>> /\ Moves(t)
  BY DEF ReadNext, LlTypeOK, Moves, shared
<1>2. held[t] = -1 /\ seen[t].head # -1
  BY <1>1 DEF HandsOK
<1>3. LlTypeOK'
  <2>1. next[seen[t].head] \in Indices \cup {-1}
    BY <1>2 DEF LlTypeOK
  <2>2. PICK v \in Indices \cup {-1} : v = next[seen[t].head]
    BY <2>1
  <2>3. after' = [after EXCEPT ![t] = v]
    BY <2>2 DEF ReadNext
  <2> QED
    BY <2>3 DEF ReadNext, LlTypeOK, shared
<1>4. ASSUME Current(t)'
      PROVE  \E k \in 1 .. Len(s[at[t]]) : s[at[t]][k] = seen[t].head
  <2>1. Current(t)
    BY <1>1, <1>4 DEF Current
  <2> QED
    BY <2>1 DEF Stacked, PopsOK
<1> QED
  BY <1>1, <1>2, <1>3, <1>4, ListsStay

LEMMA StepLink ==
  ASSUME LlTypeOK, HandsOK, NEW s \in TwoLists, Stacked(s), NEW t \in Threads, Link(t)
  PROVE  LlTypeOK' /\ HandsOK' /\ Stacked(s)' /\ held' = held
<1>1. PICK h \in Indices, v \in Indices \cup {-1} : h = held[t] /\ v = seen[t].head
  <2>1. held[t] # -1
    BY DEF Link, HandsOK
  <2>2. held[t] \in Indices /\ seen[t].head \in Indices \cup {-1}
    BY <2>1 DEF LlTypeOK
  <2> QED
    BY <2>2
<1>2. /\ pc[t] = "link" /\ next' = [next EXCEPT ![h] = v] /\ pc' = [pc EXCEPT ![t] = "swing"]
      /\ head' = head /\ aba' = aba /\ at' = at /\ seen' = seen /\ after' = after /\ held' = held
  BY <1>1 DEF Link
<1>3. /\ next'[h] = v /\ \A i \in Indices : i # h => next'[i] = next[i]
      /\ pc'[t] = "swing" /\ \A u \in Threads : u # t => pc'[u] = pc[u]
      /\ LlTypeOK'
  BY <1>2 DEF LlTypeOK
<1>4. \A q \in Lists : \A k \in 1 .. Len(s[q]) : s[q][k] # h /\ next'[s[q][k]] = next[s[q][k]]
  <2> SUFFICES ASSUME NEW q \in Lists, NEW k \in 1 .. Len(s[q])
               PROVE  s[q][k] # h /\ next'[s[q][k]] = next[s[q][k]]
    OBVIOUS
  <2>1. s[q][k] \in Indices
    BY SlotFacts
  <2>2. s[q][k] # h
    BY <1>1 DEF Stacked, Apart
  <2> QED
    BY <2>1, <2>2, <1>3
<1>5. LinkedAs(s)'
  BY <1>2, <1>4 DEF Stacked, LinkedAs
<1>6. Apart(s)'
  BY <1>2 DEF Stacked, Apart
<1>7. PopsOK(s)'
  <2> SUFFICES ASSUME NEW u \in Threads, Current(u)'
               PROVE  /\ \E k \in 1 .. Len(s[at[u]]) : s[at[u]][k] = seen[u].head
                      /\ pc'[u] = "take" => after[u] = next'[seen[u].head]
    BY <1>2 DEF PopsOK
  <2>1. u # t /\ pc'[u] = pc[u]
    BY <1>3 DEF Current
  <2>2. Current(u)
    BY <2>1, <1>2 DEF Current
  <2>3. at[u] \in Lists
    BY DEF LlTypeOK
  <2>4. PICK k \in 1 .. Len(s[at[u]]) : s[at[u]][k] = seen[u].head
    BY <2>2 DEF Stacked, PopsOK
  <2>5. pc[u] = "take" => after[u] = next[seen[u].head]
    BY <2>2 DEF Stacked, PopsOK
  <2>6. next'[seen[u].head] = next[seen[u].head]
    BY <2>3, <2>4, <1>4
  <2> QED
    BY <2>1, <2>4, <2>5, <2>6
<1>8. HandsOK'
  <2> SUFFICES ASSUME NEW u \in Threads
               PROVE  /\ pc'[u] \in {"link", "swing"} => held[u] # -1
                      /\ pc'[u] = "swing" => next'[held[u]] = seen[u].head
                      /\ pc'[u] \in {"read", "take"} => held[u] = -1 /\ seen[u].head # -1
    BY <1>2 DEF HandsOK
  <2>1. CASE u = t
    BY <2>1, <1>1, <1>2, <1>3 DEF HandsOK
  <2>2. CASE u # t
    <3>1. pc'[u] = pc[u]
      BY <2>2, <1>3
    <3>2. pc[u] = "swing" => held[u] \in Indices /\ held[u] # h
      BY <2>2, <1>1 DEF HandsOK, LlTypeOK, Stacked, Apart
    <3> QED
      BY <3>1, <3>2, <1>3 DEF HandsOK
  <2> QED
    BY <2>1, <2>2
<1> QED
  BY <1>2, <1>3, <1>5, <1>6, <1>7, <1>8 DEF Stacked

\* Return clears what the thread has loaded.
LEMMA ReturnFacts ==
  ASSUME LlTypeOK, NEW t \in Threads, Return(t)
  PROVE  /\ pc'[t] = "idle" /\ Moves(t)
         /\ pc' \in [Threads -> {"idle", "link", "swing", "read", "take"}]
         /\ at' \in [Threads -> Lists]
         /\ seen' \in [Threads -> [head : Indices \cup {-1}, aba : 0 .. TagMod - 1]]
         /\ after' \in [Threads -> Indices \cup {-1}]
<1>1. Nothing \in [head : Indices \cup {-1}, aba : 0 .. TagMod - 1]
  BY LengthAssumption DEF Nothing
<1>2. "fifo" \in Lists
  BY DEF Lists
<1>3. pc'[t] = "idle" /\ Moves(t)
  BY DEF Return, LlTypeOK, Moves
<1> QED
  BY <1>1, <1>2, <1>3 DEF Return, LlTypeOK

Pushed(s, q, h) == [s EXCEPT ![q] = <<h>> \o @]
Popped(s, q) == [s EXCEPT ![q] = Tail(@)]

\* A push that finds the head as it has seen it.
LEMMA StepPush ==
  ASSUME LlTypeOK, HandsOK, NEW s \in TwoLists, Stacked(s), NEW t \in Threads, NEW q \in Lists, NEW h,
         q = at[t], h = held[t],
         pc[t] = "swing", head[q] = seen[t].head,
         head' = [head EXCEPT ![q] = h], held' = [held EXCEPT ![t] = -1], Return(t),
         UNCHANGED <<aba, next>>
  PROVE  /\ h \in Indices /\ Pushed(s, q, h) \in TwoLists
         /\ LlTypeOK' /\ HandsOK' /\ Stacked(Pushed(s, q, h))'
<1> DEFINE r == Pushed(s, q, h)
<1>1. h \in Indices /\ next[h] = head[q]
  BY DEF HandsOK, LlTypeOK
<1>2. /\ \A p \in Lists : s[p] \in Seq(Indices) /\ Len(s[p]) \in Nat
      /\ -1 \notin Indices
      /\ \A p \in Lists : \A k \in 1 .. Len(s[p]) : s[p][k] \in Indices /\ s[p][k] # h
  BY SlotFacts DEF Stacked, Apart
<1>3. /\ r \in TwoLists /\ r[q] = <<h>> \o s[q]
      /\ \A p \in Lists : p # q => r[p] = s[p]
  BY <1>1, <1>2, PushFacts DEF Pushed, TwoLists
<1>4. /\ Len(r[q]) = Len(s[q]) + 1 /\ r[q][1] = h
      /\ \A k \in 1 .. Len(s[q]) : k + 1 \in 1 .. Len(r[q]) /\ r[q][k + 1] = s[q][k]
      /\ \A k \in 1 .. Len(r[q]) : k = 1 \/ (k - 1 \in 1 .. Len(s[q]) /\ r[q][k] = s[q][k - 1])
      /\ 1 \in 1 .. Len(r[q])
  <2>1. /\ Len(r[q]) = Len(s[q]) + 1 /\ r[q][1] = h
        /\ \A k \in 1 .. Len(s[q]) : r[q][k + 1] = s[q][k]
        /\ \A k \in 1 .. Len(s[q]) + 1 : k = 1 \/ (k - 1 \in 1 .. Len(s[q]) /\ r[q][k] = s[q][k - 1])
    BY <1>1, <1>2, <1>3, PushFacts
  <2> HIDE DEF r
  <2>2. Len(s[q]) \in Nat
    BY <1>2
  <2> QED
    BY <2>1, <2>2
<1>5. /\ pc'[t] = "idle" /\ Moves(t)
      /\ pc' \in [Threads -> {"idle", "link", "swing", "read", "take"}]
      /\ at' \in [Threads -> Lists]
      /\ seen' \in [Threads -> [head : Indices \cup {-1}, aba : 0 .. TagMod - 1]]
      /\ after' \in [Threads -> Indices \cup {-1}]
  BY ReturnFacts
<1>6. /\ head'[q] = h /\ \A p \in Lists : p # q => head'[p] = head[p]
      /\ held'[t] = -1 /\ \A u \in Threads : u # t => held'[u] = held[u]
      /\ head' \in [Lists -> Indices \cup {-1}] /\ held' \in [Threads -> Indices \cup {-1}]
      /\ aba' = aba /\ next' = next
  BY <1>1 DEF LlTypeOK
<1> HIDE DEF r
<1>7. LlTypeOK'
  BY <1>5, <1>6 DEF LlTypeOK
<1>8. HandsOK'
  <2> SUFFICES ASSUME NEW u \in Threads
               PROVE  /\ pc'[u] \in {"link", "swing"} => held'[u] # -1
                      /\ pc'[u] = "swing" => next[held'[u]] = seen'[u].head
                      /\ pc'[u] \in {"read", "take"} => held'[u] = -1 /\ seen'[u].head # -1
    BY <1>6 DEF HandsOK
  <2>1. CASE u = t
    BY <2>1, <1>5
  <2>2. CASE u # t
    <3>1. pc'[u] = pc[u] /\ seen'[u] = seen[u] /\ held'[u] = held[u]
      BY <2>2, <1>5, <1>6 DEF Moves
    <3> QED
      BY <3>1 DEF HandsOK
  <2> QED
    BY <2>1, <2>2
<1>9. LinkedAs(r)'
  <2> SUFFICES ASSUME NEW p \in Lists
               PROVE  /\ head'[p] = IF Len(r[p]) = 0 THEN -1 ELSE r[p][1]
                      /\ \A k \in 1 .. Len(r[p]) : next[r[p][k]] = IF k < Len(r[p]) THEN r[p][k + 1] ELSE -1
    BY <1>6 DEF LinkedAs
  <2>0. /\ head[p] = IF Len(s[p]) = 0 THEN -1 ELSE s[p][1]
        /\ \A k \in 1 .. Len(s[p]) : next[s[p][k]] = IF k < Len(s[p]) THEN s[p][k + 1] ELSE -1
    BY DEF Stacked, LinkedAs
  <2>1. CASE p # q
    BY <2>0, <2>1, <1>3, <1>6
  <2>2. CASE p = q
    <3>1. head'[q] = r[q][1] /\ Len(r[q]) # 0
      BY <1>2, <1>4, <1>6
    <3>2. ASSUME NEW k \in 1 .. Len(r[q])
          PROVE  next[r[q][k]] = IF k < Len(r[q]) THEN r[q][k + 1] ELSE -1
      <4>1. CASE k = 1
        <5>1. next[r[q][k]] = head[q]
          BY <4>1, <1>1, <1>4
        <5>2. CASE Len(s[q]) = 0
          BY <5>1, <5>2, <4>1, <2>0, <2>2, <1>4
        <5>3. CASE Len(s[q]) # 0
          <6>1. 1 \in 1 .. Len(s[q]) /\ 1 < Len(r[q])
            BY <5>3, <1>2, <1>4
          <6>2. r[q][1 + 1] = s[q][1]
            BY <6>1, <1>4
          <6> QED
            BY <5>1, <5>3, <6>1, <6>2, <4>1, <2>0, <2>2
        <5> QED
          BY <5>2, <5>3
      <4>2. CASE k # 1
        <5>1. k - 1 \in 1 .. Len(s[q]) /\ r[q][k] = s[q][k - 1]
          BY <4>2, <1>4
        <5>2. next[s[q][k - 1]] = IF k - 1 < Len(s[q]) THEN s[q][(k - 1) + 1] ELSE -1
          BY <5>1, <2>0, <2>2
        <5>3. (k - 1) + 1 = k /\ (k - 1 < Len(s[q]) <=> k < Len(r[q]))
          BY <1>2, <1>4
        <5>4. k < Len(r[q]) => k \in 1 .. Len(s[q])
          BY <1>2, <1>4
        <5> QED
          BY <5>1, <5>2, <5>3, <5>4, <1>4
      <4> QED
        BY <4>1, <4>2
    <3> QED
      BY <2>2, <3>1, <3>2
  <2> QED
    BY <2>1, <2>2
<1>10. \A p \in Lists : \A k \in 1 .. Len(r[p]) :
         \/ p = q /\ k = 1 /\ r[p][k] = h
         \/ p = q /\ k # 1 /\ k - 1 \in 1 .. Len(s[p]) /\ r[p][k] = s[p][k - 1]
         \/ p # q /\ k \in 1 .. Len(s[p]) /\ r[p][k] = s[p][k]
  BY <1>3, <1>4
<1>11. Apart(r)'
  <2>1. ASSUME NEW p \in Lists, NEW w \in Lists, NEW k \in 1 .. Len(r[p]), NEW l \in 1 .. Len(r[w]),
               r[p][k] = r[w][l]
        PROVE  p = w /\ k = l
    <3>0. \A a, b \in Lists : \A m \in 1 .. Len(s[a]), n \in 1 .. Len(s[b]) :
            s[a][m] = s[b][n] => a = b /\ m = n
      BY DEF Stacked, Apart
    <3>1. CASE p = q /\ k = 1
      BY <2>1, <3>1, <1>2, <1>10
    <3>2. CASE w = q /\ l = 1
      BY <2>1, <3>2, <1>2, <1>10
    <3>3. CASE p = q /\ k # 1 /\ w = q /\ l # 1
      <4>1. k - 1 \in 1 .. Len(s[q]) /\ l - 1 \in 1 .. Len(s[q]) /\ s[q][k - 1] = s[q][l - 1]
        BY <2>1, <3>3, <1>10
      <4>2. k - 1 = l - 1
        BY <4>1, <3>0
      <4> QED
        BY <4>2, <3>3
    <3>4. CASE p = q /\ k # 1 /\ w # q
      <4>1. k - 1 \in 1 .. Len(s[p]) /\ l \in 1 .. Len(s[w]) /\ s[p][k - 1] = s[w][l]
        BY <2>1, <3>4, <1>10
      <4> QED
        BY <4>1, <3>0, <3>4
    <3>5. CASE p # q /\ w = q /\ l # 1
      <4>1. k \in 1 .. Len(s[p]) /\ l - 1 \in 1 .. Len(s[w]) /\ s[p][k] = s[w][l - 1]
        BY <2>1, <3>5, <1>10
      <4> QED
        BY <4>1, <3>0, <3>5
    <3>6. CASE p # q /\ w # q
      <4>1. k \in 1 .. Len(s[p]) /\ l \in 1 .. Len(s[w]) /\ s[p][k] = s[w][l]
        BY <2>1, <3>6, <1>10
      <4> QED
        BY <4>1, <3>0
    <3> QED
      BY <3>1, <3>2, <3>3, <3>4, <3>5, <3>6
  <2>2. ASSUME NEW u \in Threads, NEW p \in Lists, NEW k \in 1 .. Len(r[p])
        PROVE  held'[u] # r[p][k]
    <3>1. r[p][k] \in Indices
      BY <1>1, <1>2, <1>10
    <3>2. CASE u = t
      BY <3>1, <3>2, <1>2, <1>6
    <3>3. CASE u # t
      <4>1. held'[u] = held[u] /\ held[u] # h
        BY <3>3, <1>1, <1>2, <1>6 DEF Stacked, Apart
      <4>2. \A a \in Lists : \A m \in 1 .. Len(s[a]) : held[u] # s[a][m]
        BY DEF Stacked, Apart
      <4> QED
        BY <4>1, <4>2, <1>10
    <3> QED
      BY <3>2, <3>3
  <2>3. ASSUME NEW u \in Threads, NEW w \in Threads, held'[u] # -1, held'[u] = held'[w]
        PROVE  u = w
    BY <2>3, <1>6 DEF Stacked, Apart
  <2>4. ASSUME NEW i \in Indices
        PROVE  \/ \E u \in Threads : held'[u] = i
               \/ \E p \in Lists : \E k \in 1 .. Len(r[p]) : r[p][k] = i
    <3>1. CASE i = h
      BY <3>1, <1>4
    <3>2. CASE i # h /\ \E u \in Threads : held[u] = i
      BY <3>2, <1>6
    <3>3. CASE \E p \in Lists : \E k \in 1 .. Len(s[p]) : s[p][k] = i
      <4>0. PICK p \in Lists : \E k \in 1 .. Len(s[p]) : s[p][k] = i
        BY <3>3
      <4>1. PICK k \in 1 .. Len(s[p]) : s[p][k] = i
        BY <4>0
      <4>2. CASE p = q
        BY <4>1, <4>2, <1>4
      <4>3. CASE p # q
        BY <4>1, <4>3, <1>3
      <4> QED
        BY <4>2, <4>3
    <3>4. \/ \E u \in Threads : held[u] = i
          \/ \E p \in Lists : \E k \in 1 .. Len(s[p]) : s[p][k] = i
      BY DEF Stacked, Apart
    <3> QED
      BY <3>1, <3>2, <3>3, <3>4
  <2> QED
    BY <2>1, <2>2, <2>3, <2>4 DEF Apart
<1>12. PopsOK(r)'
  <2> SUFFICES ASSUME NEW u \in Threads, Current(u)'
               PROVE  /\ \E k \in 1 .. Len(r[at'[u]]) : r[at'[u]][k] = seen'[u].head
                      /\ pc'[u] = "take" => after'[u] = next[seen'[u].head]
    BY <1>6 DEF PopsOK
  <2>1. u # t
    BY <1>5 DEF Current
  <2>2. pc'[u] = pc[u] /\ at'[u] = at[u] /\ seen'[u] = seen[u] /\ after'[u] = after[u]
    BY <2>1, <1>5 DEF Moves
  <2>3. Current(u)
    BY <2>2, <1>6 DEF Current
  <2>4. /\ \E k \in 1 .. Len(s[at[u]]) : s[at[u]][k] = seen[u].head
        /\ pc[u] = "take" => after[u] = next[seen[u].head]
    BY <2>3 DEF Stacked, PopsOK
  <2>5. at[u] \in Lists
    BY DEF LlTypeOK
  <2>6. PICK k \in 1 .. Len(s[at[u]]) : s[at[u]][k] = seen[u].head
    BY <2>4
  <2>7. \E l \in 1 .. Len(r[at[u]]) : r[at[u]][l] = seen[u].head
    <3>1. CASE at[u] = q
      BY <2>6, <3>1, <1>4
    <3>2. CASE at[u] # q
      BY <2>5, <2>6, <3>2, <1>3
    <3> QED
      BY <3>1, <3>2
  <2> QED
    BY <2>2, <2>4, <2>7
<1> QED
  BY <1>1, <1>3, <1>7, <1>8, <1>9, <1>11, <1>12 DEF Stacked, r

\* A pop that finds the head and the tag as it has seen them.
Takes(t, q, h) ==
  /\ q = at[t] /\ h = seen[t].head
  /\ pc[t] = "take" /\ Matches(t, q) /\ NobodySleepsOver(q)
  /\ head' = [head EXCEPT ![q] = after[t]] /\ aba' = [aba EXCEPT ![q] = Bump(@)]
  /\ held' = [held EXCEPT ![t] = h] /\ Return(t) /\ next' = next

LEMMA StepPop ==
  ASSUME LlTypeOK, HandsOK, NEW s \in TwoLists, Stacked(s), NEW t \in Threads, NEW q \in Lists, NEW h,
         Takes(t, q, h)
  PROVE  /\ held[t] = -1 /\ Len(s[q]) # 0 /\ s[q][1] = h /\ Popped(s, q) \in TwoLists
         /\ LlTypeOK' /\ HandsOK' /\ Stacked(Popped(s, q))'
<1> SUFFICES ASSUME q = at[t], h = seen[t].head,
                    pc[t] = "take", Matches(t, q), NobodySleepsOver(q),
                    head' = [head EXCEPT ![q] = after[t]], aba' = [aba EXCEPT ![q] = Bump(@)],
                    held' = [held EXCEPT ![t] = h], Return(t), next' = next
             PROVE  /\ held[t] = -1 /\ Len(s[q]) # 0 /\ s[q][1] = h /\ Popped(s, q) \in TwoLists
                    /\ LlTypeOK' /\ HandsOK' /\ Stacked(Popped(s, q))'
  BY DEF Takes
<1> DEFINE r == Popped(s, q)
<1>1. h # -1 /\ held[t] = -1 /\ head[q] = h /\ after[t] = next[h]
  <2>1. Current(t) /\ head[q] = h
    BY DEF Current, Matches
  <2> QED
    BY <2>1 DEF HandsOK, Stacked, PopsOK
<1>2. /\ \A p \in Lists : s[p] \in Seq(Indices) /\ Len(s[p]) \in Nat
      /\ -1 \notin Indices
      /\ \A p \in Lists : \A k \in 1 .. Len(s[p]) : s[p][k] \in Indices
  BY SlotFacts
<1>3. Len(s[q]) # 0 /\ 1 \in 1 .. Len(s[q]) /\ s[q][1] = h
  BY <1>1, HeadIsFirst
<1>4. /\ r \in TwoLists /\ r[q] = Tail(s[q])
      /\ \A p \in Lists : p # q => r[p] = s[p]
  BY <1>2, <1>3, PopFacts DEF Popped, TwoLists
<1>5. /\ Len(r[q]) = Len(s[q]) - 1 /\ Len(r[q]) \in Nat
      /\ \A k \in 1 .. Len(r[q]) : k + 1 \in 1 .. Len(s[q]) /\ r[q][k] = s[q][k + 1]
      /\ \A m \in 1 .. Len(s[q]) : m = 1 \/ (m - 1 \in 1 .. Len(r[q]) /\ r[q][m - 1] = s[q][m])
  <2>1. /\ Len(r[q]) = Len(s[q]) - 1 /\ Len(s[q]) \in Nat /\ Len(s[q]) >= 1
        /\ \A k \in 1 .. Len(s[q]) - 1 : k + 1 \in 1 .. Len(s[q]) /\ r[q][k] = s[q][k + 1]
    BY <1>2, <1>3, <1>4, PopFacts
  <2> HIDE DEF r
  <2>2. ASSUME NEW m \in 1 .. Len(s[q]), m # 1
        PROVE  m - 1 \in 1 .. Len(r[q]) /\ r[q][m - 1] = s[q][m]
    <3>1. m - 1 \in 1 .. Len(s[q]) - 1 /\ (m - 1) + 1 = m
      BY <2>1, <2>2
    <3> QED
      BY <2>1, <3>1
  <2> QED
    BY <2>1, <2>2
<1>6. /\ pc'[t] = "idle" /\ Moves(t)
      /\ pc' \in [Threads -> {"idle", "link", "swing", "read", "take"}]
      /\ at' \in [Threads -> Lists]
      /\ seen' \in [Threads -> [head : Indices \cup {-1}, aba : 0 .. TagMod - 1]]
      /\ after' \in [Threads -> Indices \cup {-1}]
  BY ReturnFacts
<1>7. /\ head'[q] = next[h] /\ \A p \in Lists : p # q => head'[p] = head[p]
      /\ head' \in [Lists -> Indices \cup {-1}] /\ next' = next
  BY <1>1 DEF LlTypeOK
<1>8. /\ aba'[q] = Bump(aba[q]) /\ \A p \in Lists : p # q => aba'[p] = aba[p]
      /\ aba' \in [Lists -> 0 .. TagMod - 1]
  <2>1. aba[q] \in 0 .. TagMod - 1
    BY DEF LlTypeOK
  <2>2. PICK b \in 0 .. TagMod - 1 : b = Bump(aba[q])
    BY <2>1, BumpFacts
  <2>3. aba' = [aba EXCEPT ![q] = b]
    BY <2>2
  <2> QED
    BY <2>2, <2>3 DEF LlTypeOK
<1>9. /\ held'[t] = h /\ \A u \in Threads : u # t => held'[u] = held[u]
      /\ held' \in [Threads -> Indices \cup {-1}] /\ h \in Indices
  BY <1>1 DEF LlTypeOK
<1> HIDE DEF r
<1>10. LlTypeOK'
  BY <1>6, <1>7, <1>8, <1>9 DEF LlTypeOK
<1>11. HandsOK'
  <2> SUFFICES ASSUME NEW u \in Threads
               PROVE  /\ pc'[u] \in {"link", "swing"} => held'[u] # -1
                      /\ pc'[u] = "swing" => next[held'[u]] = seen'[u].head
                      /\ pc'[u] \in {"read", "take"} => held'[u] = -1 /\ seen'[u].head # -1
    BY <1>7 DEF HandsOK
  <2>1. CASE u = t
    BY <2>1, <1>6
  <2>2. CASE u # t
    <3>1. pc'[u] = pc[u] /\ seen'[u] = seen[u] /\ held'[u] = held[u]
      BY <2>2, <1>6, <1>9 DEF Moves
    <3> QED
      BY <3>1 DEF HandsOK
  <2> QED
    BY <2>1, <2>2
<1>12. LinkedAs(r)'
  <2> SUFFICES ASSUME NEW p \in Lists
               PROVE  /\ head'[p] = IF Len(r[p]) = 0 THEN -1 ELSE r[p][1]
                      /\ \A k \in 1 .. Len(r[p]) : next[r[p][k]] = IF k < Len(r[p]) THEN r[p][k + 1] ELSE -1
    BY <1>7 DEF LinkedAs
  <2>0. /\ head[p] = IF Len(s[p]) = 0 THEN -1 ELSE s[p][1]
        /\ \A k \in 1 .. Len(s[p]) : next[s[p][k]] = IF k < Len(s[p]) THEN s[p][k + 1] ELSE -1
    BY DEF Stacked, LinkedAs
  <2>1. CASE p # q
    BY <2>0, <2>1, <1>4, <1>7
  <2>2. CASE p = q
    <3>1. head'[q] = IF Len(r[q]) = 0 THEN -1 ELSE r[q][1]
      <4>1. head'[q] = IF 1 < Len(s[q]) THEN s[q][1 + 1] ELSE -1
        BY <2>0, <2>2, <1>3, <1>7
      <4>2. CASE Len(r[q]) = 0
        BY <4>1, <4>2, <1>2, <1>5
      <4>3. CASE Len(r[q]) # 0
        <5>0. Len(r[q]) \in Nat /\ Len(s[q]) \in Nat /\ Len(r[q]) = Len(s[q]) - 1
          BY <1>2, <1>5
        <5>a. \A m, n \in Nat : n # 0 /\ n = m - 1 => 1 \in 1 .. n /\ 1 < m
          OBVIOUS
        <5>1. 1 \in 1 .. Len(r[q]) /\ 1 < Len(s[q])
          BY <4>3, <5>0, <5>a
        <5> QED
          BY <4>1, <4>3, <5>1, <1>5
      <4> QED
        BY <4>2, <4>3
    <3>2. ASSUME NEW k \in 1 .. Len(r[q])
          PROVE  next[r[q][k]] = IF k < Len(r[q]) THEN r[q][k + 1] ELSE -1
      <4>1. k + 1 \in 1 .. Len(s[q]) /\ r[q][k] = s[q][k + 1]
        BY <1>5
      <4>2. next[s[q][k + 1]] = IF k + 1 < Len(s[q]) THEN s[q][(k + 1) + 1] ELSE -1
        BY <4>1, <2>0, <2>2
      <4>3. k + 1 < Len(s[q]) <=> k < Len(r[q])
        BY <1>2, <1>5
      <4>4. k < Len(r[q]) => k + 1 \in 1 .. Len(r[q])
        BY <1>5
      <4> QED
        BY <4>1, <4>2, <4>3, <4>4, <1>5
    <3> QED
      BY <2>2, <3>1, <3>2
  <2> QED
    BY <2>1, <2>2
<1>13. \A p \in Lists : \A k \in 1 .. Len(r[p]) :
         \/ p = q /\ k + 1 \in 1 .. Len(s[p]) /\ r[p][k] = s[p][k + 1]
         \/ p # q /\ k \in 1 .. Len(s[p]) /\ r[p][k] = s[p][k]
  <2>1. \A k \in 1 .. Len(r[q]) : k + 1 \in 1 .. Len(s[q]) /\ r[q][k] = s[q][k + 1]
    BY <1>5
  <2>2. \A p \in Lists : p # q => r[p] = s[p]
    BY <1>4
  <2> QED
    BY <2>1, <2>2
<1>14. \A a, b \in Lists : \A m \in 1 .. Len(s[a]), n \in 1 .. Len(s[b]) :
         s[a][m] = s[b][n] => a = b /\ m = n
  BY DEF Stacked, Apart
<1>15. Apart(r)'
  <2>1. ASSUME NEW p \in Lists, NEW w \in Lists, NEW k \in 1 .. Len(r[p]), NEW l \in 1 .. Len(r[w]),
               r[p][k] = r[w][l]
        PROVE  p = w /\ k = l
    <3>1. CASE p = q /\ w = q
      <4>1. k + 1 \in 1 .. Len(s[q]) /\ l + 1 \in 1 .. Len(s[q]) /\ s[q][k + 1] = s[q][l + 1]
        BY <2>1, <3>1, <1>13
      <4>2. k + 1 = l + 1
        BY <4>1, <1>14
      <4> QED
        BY <4>2, <3>1
    <3>2. CASE p = q /\ w # q
      <4>1. k + 1 \in 1 .. Len(s[p]) /\ l \in 1 .. Len(s[w]) /\ s[p][k + 1] = s[w][l]
        BY <2>1, <3>2, <1>13
      <4> QED
        BY <4>1, <3>2, <1>14
    <3>3. CASE p # q /\ w = q
      <4>1. k \in 1 .. Len(s[p]) /\ l + 1 \in 1 .. Len(s[w]) /\ s[p][k] = s[w][l + 1]
        BY <2>1, <3>3, <1>13
      <4> QED
        BY <4>1, <3>3, <1>14
    <3>4. CASE p # q /\ w # q
      <4>1. k \in 1 .. Len(s[p]) /\ l \in 1 .. Len(s[w]) /\ s[p][k] = s[w][l]
        BY <2>1, <3>4, <1>13
      <4> QED
        BY <4>1, <1>14
    <3> QED
      BY <3>1, <3>2, <3>3, <3>4
  <2>2. ASSUME NEW u \in Threads, NEW p \in Lists, NEW k \in 1 .. Len(r[p])
        PROVE  held'[u] # r[p][k]
    <3>1. CASE u = t
      <4>1. CASE p = q
        <5>1. k + 1 \in 1 .. Len(s[q]) /\ r[p][k] = s[q][k + 1] /\ k + 1 # 1
          BY <4>1, <1>13
        <5>2. s[q][k + 1] # s[q][1]
          BY <5>1, <1>3, <1>14
        <5> QED
          BY <5>1, <5>2, <3>1, <1>3, <1>9
      <4>2. CASE p # q
        <5>1. k \in 1 .. Len(s[p]) /\ r[p][k] = s[p][k]
          BY <4>2, <1>13
        <5>2. s[p][k] # s[q][1]
          BY <5>1, <4>2, <1>3, <1>14
        <5> QED
          BY <5>1, <5>2, <3>1, <1>3, <1>9
      <4> QED
        BY <4>1, <4>2
    <3>2. CASE u # t
      <4>1. held'[u] = held[u]
        BY <3>2, <1>9
      <4>2. \A a \in Lists : \A m \in 1 .. Len(s[a]) : held[u] # s[a][m]
        BY DEF Stacked, Apart
      <4> QED
        BY <4>1, <4>2, <1>13
    <3> QED
      BY <3>1, <3>2
  <2>3. ASSUME NEW u \in Threads, NEW w \in Threads, held'[u] # -1, held'[u] = held'[w]
        PROVE  u = w
    <3>1. \A v \in Threads : held[v] # h
      BY <1>3 DEF Stacked, Apart
    <3>2. \A a, b \in Threads : held[a] # -1 /\ held[a] = held[b] => a = b
      BY DEF Stacked, Apart
    <3> QED
      BY <2>3, <3>1, <3>2, <1>9
  <2>4. ASSUME NEW i \in Indices
        PROVE  \/ \E u \in Threads : held'[u] = i
               \/ \E p \in Lists : \E k \in 1 .. Len(r[p]) : r[p][k] = i
    <3>1. CASE i = h
      BY <3>1, <1>9
    <3>2. CASE \E u \in Threads : held[u] = i
      <4>1. PICK u \in Threads : held[u] = i
        BY <3>2
      <4>2. u # t
        BY <4>1, <1>1, <1>2
      <4> QED
        BY <4>1, <4>2, <1>9
    <3>3. CASE i # h /\ \E p \in Lists : \E k \in 1 .. Len(s[p]) : s[p][k] = i
      <4>0. PICK p \in Lists : \E k \in 1 .. Len(s[p]) : s[p][k] = i
        BY <3>3
      <4>1. PICK k \in 1 .. Len(s[p]) : s[p][k] = i
        BY <4>0
      <4>2. CASE p = q
        <5>1. k # 1
          BY <3>3, <4>1, <4>2, <1>3
        <5>2. k - 1 \in 1 .. Len(r[q]) /\ r[q][k - 1] = i
          BY <4>1, <4>2, <5>1, <1>5
        <5> QED
          BY <5>2
      <4>3. CASE p # q
        BY <4>1, <4>3, <1>4
      <4> QED
        BY <4>2, <4>3
    <3>4. \/ \E u \in Threads : held[u] = i
          \/ \E p \in Lists : \E k \in 1 .. Len(s[p]) : s[p][k] = i
      BY DEF Stacked, Apart
    <3> QED
      BY <3>1, <3>2, <3>3, <3>4
  <2> QED
    BY <2>1, <2>2, <2>3, <2>4 DEF Apart
<1>16. PopsOK(r)'
  <2> SUFFICES ASSUME NEW u \in Threads, Current(u)'
               PROVE  /\ \E k \in 1 .. Len(r[at'[u]]) : r[at'[u]][k] = seen'[u].head
                      /\ pc'[u] = "take" => after'[u] = next[seen'[u].head]
    BY <1>7 DEF PopsOK
  <2>1. u # t
    BY <1>6 DEF Current
  <2>2. pc'[u] = pc[u] /\ at'[u] = at[u] /\ seen'[u] = seen[u] /\ after'[u] = after[u]
    BY <2>1, <1>6 DEF Moves
  <2>3. pc[u] \in {"read", "take"} /\ seen[u].aba = aba'[at[u]] /\ at[u] \in Lists
    BY <2>2 DEF Current, LlTypeOK
  <2>4. at[u] # q
    BY <2>3, <1>8 DEF NobodySleepsOver
  <2>5. Current(u) /\ r[at[u]] = s[at[u]]
    BY <2>3, <2>4, <1>4, <1>8 DEF Current
  <2> QED
    BY <2>2, <2>5 DEF Stacked, PopsOK
<1> QED
  BY <1>1, <1>3, <1>4, <1>10, <1>11, <1>12, <1>15, <1>16 DEF Stacked, r

-----------------------------------------------------------------------------
(* Every step *)

\* What a step may do to the two stacks: nothing, a push, or a pop.
Moved(s, r) ==
  \/ r = s /\ held' = held
  \/ \E t \in Threads, q \in Lists :
       /\ held[t] # -1 /\ r = Pushed(s, q, held[t])
       /\ held' = [held EXCEPT ![t] = -1]
  \/ \E t \in Threads, q \in Lists :
       /\ held[t] = -1 /\ s[q] # <<>> /\ r = Popped(s, q)
       /\ held' = [held EXCEPT ![t] = Head(s[q])]

LEMMA StepSwing ==
  ASSUME LlTypeOK, HandsOK, NEW s \in TwoLists, Stacked(s), NEW t \in Threads, Swing(t)
  PROVE  LlTypeOK' /\ HandsOK' /\ \E r \in TwoLists : Stacked(r)' /\ Moved(s, r)
<1>1. at[t] \in Lists /\ held[t] # -1 /\ held[t] \in Indices \cup {-1} /\ pc[t] = "swing"
  BY DEF LlTypeOK, HandsOK, Swing
<1>2. PICK q \in Lists, h \in Indices \cup {-1} : q = at[t] /\ h = held[t]
  BY <1>1
<1>3. CASE /\ head[q] = seen[t].head
           /\ head' = [head EXCEPT ![q] = held[t]]
           /\ held' = [held EXCEPT ![t] = -1]
           /\ Return(t)
           /\ UNCHANGED <<aba, next>>
  <2>1. /\ Pushed(s, q, h) \in TwoLists /\ LlTypeOK' /\ HandsOK' /\ Stacked(Pushed(s, q, h))'
    BY <1>1, <1>2, <1>3, StepPush
  <2>2. Moved(s, Pushed(s, q, h))
    BY <1>1, <1>2, <1>3 DEF Moved
  <2> QED
    BY <2>1, <2>2
<1>4. CASE /\ head[q] # seen[t].head
           /\ seen' = [seen EXCEPT ![t].head = head[q]]
           /\ pc' = [pc EXCEPT ![t] = "link"]
           /\ UNCHANGED <<head, held, at, after>>
           /\ UNCHANGED <<aba, next>>
  <2>1. pc'[t] = "link" /\ UNCHANGED <<shared, held>> /\ Moves(t) /\ LlTypeOK' /\ held' = held
    BY <1>4 DEF LlTypeOK, Moves, shared
  <2>2. ~Current(t)'
    BY <2>1 DEF Current
  <2>3. HandsOK' /\ Stacked(s)'
    BY <1>1, <2>1, <2>2, ListsStay
  <2> QED
    BY <2>1, <2>3 DEF Moved
<1> QED
  BY <1>2, <1>3, <1>4 DEF Swing

LEMMA StepTake ==
  ASSUME LlTypeOK, HandsOK, NEW s \in TwoLists, Stacked(s), NEW t \in Threads, Take(t)
  PROVE  LlTypeOK' /\ HandsOK' /\ \E r \in TwoLists : Stacked(r)' /\ Moved(s, r)
<1>1. /\ at[t] \in Lists /\ held[t] = -1 /\ pc[t] = "take" /\ next' = next
      /\ seen[t].head \in Indices \cup {-1}
  BY DEF LlTypeOK, HandsOK, Take
<1>2. PICK q \in Lists, h \in Indices \cup {-1} : q = at[t] /\ h = seen[t].head
  BY <1>1
<1>3. CASE /\ Matches(t, q)
           /\ NobodySleepsOver(q)
           /\ head' = [head EXCEPT ![q] = after[t]]
           /\ aba' = [aba EXCEPT ![q] = Bump(@)]
           /\ held' = [held EXCEPT ![t] = seen[t].head]
           /\ Return(t)
  <2>1. /\ held[t] = -1 /\ Len(s[q]) # 0 /\ s[q][1] = h /\ Popped(s, q) \in TwoLists
        /\ LlTypeOK' /\ HandsOK' /\ Stacked(Popped(s, q))'
    <3>1. Takes(t, q, h)
      BY <1>1, <1>2, <1>3 DEF Takes
    <3> QED
      BY <3>1, StepPop
  <2>2. s[q] # <<>> /\ Head(s[q]) = h
    <3>1. s[q] \in Seq(Indices)
      BY SlotFacts
    <3> QED
      BY <2>1, <3>1, PopFacts
  <2>3. Moved(s, Popped(s, q))
    BY <1>2, <1>3, <2>1, <2>2 DEF Moved
  <2> QED
    BY <2>1, <2>3
<1>4. CASE /\ head[q] # -1
           /\ seen' = [seen EXCEPT ![t] = [head |-> head[q], aba |-> aba[q]]]
           /\ pc' = [pc EXCEPT ![t] = "read"]
           /\ UNCHANGED <<head, aba, held, at, after>>
  <2>1. /\ pc'[t] = "read" /\ UNCHANGED <<shared, held>> /\ Moves(t) /\ LlTypeOK' /\ held' = held
        /\ at'[t] = q /\ seen'[t].head = head[q]
    BY <1>1, <1>2, <1>4 DEF LlTypeOK, Moves, shared
  <2>2. \E k \in 1 .. Len(s[q]) : s[q][k] = head[q]
    BY <1>4, HeadIsFirst
  <2>3. HandsOK' /\ Stacked(s)'
    BY <1>1, <1>4, <2>1, <2>2, ListsStay
  <2> QED
    BY <2>1, <2>3 DEF Moved
<1>5. CASE Return(t) /\ UNCHANGED <<head, aba, held>>
  <2>1. /\ pc'[t] = "idle" /\ Moves(t) /\ LlTypeOK' /\ held' = held
        /\ UNCHANGED <<shared, held>>
    BY <1>1, <1>5, ReturnFacts DEF LlTypeOK, shared
  <2>2. ~Current(t)'
    BY <2>1 DEF Current
  <2>3. HandsOK' /\ Stacked(s)'
    BY <2>1, <2>2, ListsStay
  <2> QED
    BY <2>1, <2>3 DEF Moved
<1> QED
  BY <1>2, <1>3, <1>4, <1>5 DEF Take

LEMMA StacksMove ==
  ASSUME LlTypeOK, HandsOK, NEW s \in TwoLists, Stacked(s), [Next]_vars
  PROVE  LlTypeOK' /\ HandsOK' /\ \E r \in TwoLists : Stacked(r)' /\ Moved(s, r)
<1>1. held' = held => Moved(s, s)
  BY DEF Moved
<1>2. CASE UNCHANGED vars
  <2>1. LlTypeOK' /\ HandsOK' /\ Stacked(s)' /\ held' = held
    BY <1>2 DEF vars, shared, LlTypeOK, HandsOK, Stacked, LinkedAs, Apart, PopsOK, Current
  <2> QED
    BY <1>1, <2>1
<1>3. ASSUME NEW t \in Threads, NEW q \in Lists, LoadHead(t, q) \/ LoadPair(t, q)
      PROVE  LlTypeOK' /\ HandsOK' /\ \E r \in TwoLists : Stacked(r)' /\ Moved(s, r)
  BY <1>1, <1>3, StepLoadHead, StepLoadPair
<1>4. ASSUME NEW t \in Threads, Step(t)
      PROVE  LlTypeOK' /\ HandsOK' /\ \E r \in TwoLists : Stacked(r)' /\ Moved(s, r)
  <2>1. CASE Link(t) \/ ReadNext(t)
    BY <1>1, <2>1, StepLink, StepReadNext
  <2>2. CASE Swing(t) \/ Take(t)
    BY <2>2, StepSwing, StepTake
  <2> QED
    BY <1>4, <2>1, <2>2 DEF Step
<1> QED
  BY <1>2, <1>3, <1>4 DEF Next

\* At first every slot is on the free list, the highest on top.
AtFirst == [q \in Lists |-> IF q = "fifo" THEN <<>> ELSE [k \in 1 .. MaxLen |-> MaxLen - k]]

LEMMA InitStacked ==
  ASSUME Init
  PROVE  LlTypeOK /\ HandsOK /\ AtFirst \in TwoLists /\ Stacked(AtFirst)
<1>1. /\ "fifo" \in Lists /\ "free" \in Lists /\ \A q \in Lists : q = "fifo" \/ q = "free"
      /\ MaxLen \in Nat /\ MaxLen >= 1 /\ MaxLen - 1 \in Indices
      /\ \A i \in Indices : i \in Nat /\ i < MaxLen /\ i # -1
  BY LengthAssumption DEF Lists, Indices
<1>2. [k \in 1 .. MaxLen |-> MaxLen - k] \in Seq(Indices)
  <2>1. [k \in 1 .. MaxLen |-> MaxLen - k] \in [1 .. MaxLen -> Indices]
    BY <1>1 DEF Indices
  <2> QED
    BY <1>1, <2>1
<1>3. /\ AtFirst["fifo"] = <<>> /\ AtFirst["free"] = [k \in 1 .. MaxLen |-> MaxLen - k]
      /\ AtFirst \in TwoLists
  BY <1>1, <1>2 DEF AtFirst, TwoLists
<1>4. /\ Len(AtFirst["fifo"]) = 0 /\ Len(AtFirst["free"]) = MaxLen
      /\ \A k \in 1 .. MaxLen : AtFirst["free"][k] = MaxLen - k
  <2>1. Len(AtFirst["fifo"]) = 0
    BY <1>3
  <2>2. Len(AtFirst["free"]) = MaxLen
    BY <1>1, <1>2, <1>3
  <2> QED
    BY <1>3, <2>1, <2>2
<1> HIDE DEF AtFirst
<1>5. /\ head["fifo"] = -1 /\ head["free"] = MaxLen - 1
      /\ \A i \in Indices : next[i] = i - 1
      /\ \A t \in Threads : pc[t] = "idle" /\ held[t] = -1
  BY <1>1 DEF Init
<1>6. LlTypeOK
  <2>1. \A i \in Indices : i - 1 \in Indices \cup {-1}
    BY <1>1 DEF Indices
  <2>2. head \in [Lists -> Indices \cup {-1}]
    BY <1>1 DEF Init
  <2>3. next \in [Indices -> Indices \cup {-1}]
    BY <2>1 DEF Init
  <2>4. Nothing \in [head : Indices \cup {-1}, aba : 0 .. TagMod - 1] /\ 0 \in 0 .. TagMod - 1
    BY LengthAssumption DEF Nothing
  <2> QED
    BY <1>1, <2>2, <2>3, <2>4 DEF Init, LlTypeOK
<1>7. HandsOK /\ PopsOK(AtFirst)
  BY <1>5 DEF HandsOK, PopsOK, Current
<1>8. LinkedAs(AtFirst)
  <2>1. /\ head["free"] = AtFirst["free"][1]
        /\ \A k \in 1 .. MaxLen : next[AtFirst["free"][k]]
                                    = IF k < MaxLen THEN AtFirst["free"][k + 1] ELSE -1
    <3>1. head["free"] = AtFirst["free"][1]
      BY <1>1, <1>4, <1>5
    <3>2. ASSUME NEW k \in 1 .. MaxLen
          PROVE  next[AtFirst["free"][k]] = IF k < MaxLen THEN AtFirst["free"][k + 1] ELSE -1
      <4>1. MaxLen - k \in Indices /\ AtFirst["free"][k] = MaxLen - k
        BY <1>1, <1>4 DEF Indices
      <4>2. next[AtFirst["free"][k]] = (MaxLen - k) - 1
        BY <4>1, <1>5
      <4>3. CASE k < MaxLen
        <5>1. k + 1 \in 1 .. MaxLen
          BY <4>3, <1>1
        <5>2. AtFirst["free"][k + 1] = MaxLen - (k + 1)
          BY <5>1, <1>4
        <5> QED
          BY <4>2, <4>3, <5>2, <1>1
      <4>4. CASE k = MaxLen
        BY <4>2, <4>4, <1>1
      <4> QED
        BY <4>3, <4>4, <1>1
    <3> QED
      BY <3>1, <3>2
  <2> SUFFICES ASSUME NEW q \in Lists
               PROVE  /\ head[q] = IF Len(AtFirst[q]) = 0 THEN -1 ELSE AtFirst[q][1]
                      /\ \A k \in 1 .. Len(AtFirst[q]) : next[AtFirst[q][k]]
                                    = IF k < Len(AtFirst[q]) THEN AtFirst[q][k + 1] ELSE -1
    BY DEF LinkedAs
  <2>2. CASE q = "fifo"
    BY <2>2, <1>4, <1>5
  <2>3. CASE q = "free"
    BY <2>1, <2>3, <1>1, <1>4
  <2> QED
    BY <2>2, <2>3, <1>1
<1>9. Apart(AtFirst)
  <2>1. \A k, l \in 1 .. MaxLen : AtFirst["free"][k] = AtFirst["free"][l] => k = l
    BY <1>1, <1>4
  <2>2. \A i \in Indices : MaxLen - i \in 1 .. MaxLen /\ AtFirst["free"][MaxLen - i] = i
    BY <1>1, <1>4
  <2>3. \A q \in Lists : \A k \in 1 .. Len(AtFirst[q]) : AtFirst[q][k] # -1 /\ q = "free" /\ k \in 1 .. MaxLen
    BY <1>1, <1>4
  <2>4. ASSUME NEW q \in Lists, NEW r \in Lists, NEW k \in 1 .. Len(AtFirst[q]), NEW l \in 1 .. Len(AtFirst[r]),
               AtFirst[q][k] = AtFirst[r][l]
        PROVE  q = r /\ k = l
    BY <2>1, <2>3, <2>4
  <2>5. \A t \in Threads, q \in Lists : \A k \in 1 .. Len(AtFirst[q]) : held[t] # AtFirst[q][k]
    BY <2>3, <1>5
  <2>6. \A i \in Indices : \E q \in Lists : \E k \in 1 .. Len(AtFirst[q]) : AtFirst[q][k] = i
    BY <2>2, <1>1, <1>4
  <2> QED
    BY <2>4, <2>5, <2>6, <1>5 DEF Apart
<1> QED
  BY <1>3, <1>6, <1>7, <1>8, <1>9 DEF Stacked

-----------------------------------------------------------------------------
(* The chains of links are those two stacks *)

Nodes == Indices \cup {-1}

\* f is the function that Chain is computed with.
IsChain(f) == f = [n \in 0 .. MaxLen |-> [i \in Nodes |->
                     IF n = 0 \/ i = -1 THEN <<>> ELSE <<i>> \o f[n - 1][next[i]]]]

\* Its values, up to m links.
ChainTo(f, m) == f = [n \in 0 .. m |-> [i \in Nodes |->
                        IF n = 0 \/ i = -1 THEN <<>> ELSE <<i>> \o f[n - 1][next[i]]]]

LEMMA ChainExists ==
  ASSUME LlTypeOK
  PROVE  \E f : IsChain(f)
<1> DEFINE T == {m \in Nat : \E f : ChainTo(f, m)}
<1>0. /\ \A i \in Nodes : i = -1 \/ next[i] \in Nodes
      /\ MaxLen \in Nat
  BY LengthAssumption DEF LlTypeOK, Nodes
<1>1. 0 \in T
  <2> DEFINE f == [n \in 0 .. 0 |-> [i \in Nodes |-> <<>>]]
  <2>1. ChainTo(f, 0)
    BY DEF ChainTo
  <2> QED
    BY <2>1
<1>2. T \in SUBSET Nat
  OBVIOUS
<1>3. ASSUME NEW m \in T PROVE m + 1 \in T
  <2>1. PICK f : ChainTo(f, m)
    BY <1>3
  <2> DEFINE g == [n \in 0 .. m + 1 |-> [i \in Nodes |->
                     IF n = 0 \/ i = -1 THEN <<>> ELSE <<i>> \o f[n - 1][next[i]]]]
  <2>2. ASSUME NEW n \in 0 .. m PROVE g[n] = f[n]
    <3>1. f = [k \in 0 .. m |-> [i \in Nodes |->
                 IF k = 0 \/ i = -1 THEN <<>> ELSE <<i>> \o f[k - 1][next[i]]]]
      BY <2>1 DEF ChainTo
    <3>2. f[n] = [i \in Nodes |-> IF n = 0 \/ i = -1 THEN <<>> ELSE <<i>> \o f[n - 1][next[i]]]
      BY <3>1
    <3>3. n \in 0 .. m + 1
      BY <1>2
    <3>4. g[n] = [i \in Nodes |-> IF n = 0 \/ i = -1 THEN <<>> ELSE <<i>> \o f[n - 1][next[i]]]
      BY <3>3
    <3> QED
      BY <3>2, <3>4
  <2>3. ASSUME NEW n \in 0 .. m + 1
        PROVE  g[n] = [i \in Nodes |-> IF n = 0 \/ i = -1 THEN <<>> ELSE <<i>> \o g[n - 1][next[i]]]
    <3>1. CASE n = 0
      BY <3>1
    <3>2. CASE n # 0
      <4>1. n - 1 \in 0 .. m
        BY <3>2
      <4>2. g[n - 1] = f[n - 1]
        BY <4>1, <2>2
      <4>3. g[n] = [i \in Nodes |-> IF n = 0 \/ i = -1 THEN <<>> ELSE <<i>> \o f[n - 1][next[i]]]
        OBVIOUS
      <4> QED
        BY <4>2, <4>3
    <3> QED
      BY <3>1, <3>2
  <2>4. ChainTo(g, m + 1)
    BY <2>3 DEF ChainTo
  <2> QED
    BY <2>4
<1> HIDE DEF T
<1>4. MaxLen \in T
  BY <1>0, <1>1, <1>2, <1>3, CountUp
<1> QED
  BY <1>4 DEF T, IsChain, ChainTo

LEMMA ChainDef ==
  ASSUME LlTypeOK
  PROVE  \E f : IsChain(f) /\ Chain = [q \in Lists |-> f[MaxLen][head[q]]]
<1> DEFINE f == CHOOSE f : IsChain(f)
<1>1. IsChain(f)
  BY ChainExists
<1>2. Chain = [q \in Lists |-> f[MaxLen][head[q]]]
  BY DEF Chain, IsChain, Nodes
<1> QED
  BY <1>1, <1>2

\* The rest of a list from the k-th slot on.
Rest(w, k) == [j \in 1 .. Len(w) - k + 1 |-> w[j + k - 1]]

LEMMA RestFacts ==
  ASSUME NEW Items, NEW w \in Seq(Items)
  PROVE  /\ Rest(w, Len(w) + 1) = <<>>
         /\ Rest(w, 1) = w
         /\ \A k \in 1 .. Len(w) : <<w[k]>> \o Rest(w, k + 1) = Rest(w, k)
<1>1. Len(w) \in Nat /\ w \in [1 .. Len(w) -> Items]
  OBVIOUS
<1>2. Rest(w, Len(w) + 1) = <<>>
  <2>1. 1 .. Len(w) - (Len(w) + 1) + 1 = {}
    BY <1>1
  <2> QED
    BY <2>1 DEF Rest
<1>3. Rest(w, 1) = w
  <2>1. Len(w) - 1 + 1 = Len(w) /\ \A j \in 1 .. Len(w) : j + 1 - 1 = j
    BY <1>1
  <2>2. Rest(w, 1) = [j \in 1 .. Len(w) |-> w[j]]
    BY <2>1 DEF Rest
  <2> QED
    BY <1>1, <2>2
<1>4. ASSUME NEW k \in 1 .. Len(w)
      PROVE  <<w[k]>> \o Rest(w, k + 1) = Rest(w, k)
  <2> DEFINE n == Len(w) - k
             u == <<w[k]>> \o Rest(w, k + 1)
  <2>1. n \in Nat /\ Len(w) - (k + 1) + 1 = n /\ Len(w) - k + 1 = n + 1
    BY <1>1
  <2>2. /\ Rest(w, k + 1) = [j \in 1 .. n |-> w[j + (k + 1) - 1]]
        /\ Rest(w, k) = [j \in 1 .. n + 1 |-> w[j + k - 1]]
    BY <2>1 DEF Rest
  <2> HIDE DEF n
  <2>3. \A j \in 1 .. n : j + (k + 1) - 1 \in 1 .. Len(w) /\ j + (k + 1) - 1 = (j + 1) + k - 1
    BY <1>1, <2>1 DEF n
  <2>4. Rest(w, k + 1) \in Seq(Items) /\ Len(Rest(w, k + 1)) = n
    <3>1. [j \in 1 .. n |-> w[j + (k + 1) - 1]] \in [1 .. n -> Items]
      BY <1>1, <2>3
    <3> QED
      BY <2>1, <2>2, <3>1
  <2>5. /\ u \in Seq(Items) /\ Len(u) = n + 1 /\ u[1] = w[k]
        /\ \A j \in 1 .. n + 1 : j = 1 \/ (j - 1 \in 1 .. n /\ u[j] = Rest(w, k + 1)[j - 1])
    BY <1>1, <2>4, PushFacts
  <2> HIDE DEF u
  <2>6. u = [j \in 1 .. n + 1 |-> u[j]]
    BY <2>1, <2>5
  <2>7. ASSUME NEW j \in 1 .. n + 1 PROVE u[j] = w[j + k - 1]
    <3>1. CASE j = 1
      <4>1. 1 + k - 1 = k
        OBVIOUS
      <4> QED
        BY <3>1, <4>1, <2>5
    <3>2. CASE j # 1
      <4>1. j - 1 \in 1 .. n /\ u[j] = Rest(w, k + 1)[j - 1]
        BY <3>2, <2>5
      <4>2. Rest(w, k + 1)[j - 1] = w[(j - 1) + (k + 1) - 1]
        BY <4>1, <2>2
      <4>3. (j - 1) + (k + 1) - 1 = j + k - 1
        BY <2>1
      <4> QED
        BY <4>1, <4>2, <4>3
    <3> QED
      BY <3>1, <3>2
  <2> QED
    BY <2>2, <2>6, <2>7 DEF u
<1> QED
  BY <1>2, <1>3, <1>4

LEMMA ListIsShort ==
  ASSUME NEW s \in TwoLists, Stacked(s), NEW q \in Lists
  PROVE  Len(s[q]) \in Nat /\ Len(s[q]) <= MaxLen
<1> DEFINE n == Len(s[q])
<1>1. s[q] \in Seq(Indices) /\ n \in Nat
  BY SlotFacts
<1>2. \A k, l \in 1 .. n : s[q][k] = s[q][l] => k = l
  BY DEF Stacked, Apart
<1>3. s[q] \in Injection(1 .. n, Indices)
  BY <1>1, <1>2 DEF Injection, IsInjective
<1>4. IsFiniteSet(Indices) /\ Cardinality(Indices) = MaxLen
  <2>1. IsFiniteSet(0 .. MaxLen - 1) /\ Cardinality(0 .. MaxLen - 1) = (MaxLen - 1) - 0 + 1
    BY LengthAssumption, FS_Interval
  <2> QED
    BY <2>1, LengthAssumption DEF Indices
<1>5. Cardinality(1 .. n) = n
  BY <1>1, FS_Interval
<1>6. Cardinality(1 .. n) <= Cardinality(Indices)
  BY <1>3, <1>4, FS_Injection
<1> QED
  BY <1>1, <1>4, <1>5, <1>6

\* Following the links from the k-th slot of a list gives the rest of it.
LEMMA ChainFollows ==
  ASSUME LlTypeOK, NEW s \in TwoLists, Stacked(s), NEW q \in Lists, NEW f, IsChain(f)
  PROVE  f[MaxLen][head[q]] = s[q]
<1> DEFINE w == s[q]
           Node(k) == IF k <= Len(w) THEN w[k] ELSE -1
           T == {m \in Nat : m <= MaxLen =>
                  \A k \in 1 .. Len(w) + 1 : Len(w) - k + 1 <= m => f[m][Node(k)] = Rest(w, k)}
<1>1. /\ w \in Seq(Indices) /\ Len(w) \in Nat /\ Len(w) <= MaxLen /\ MaxLen \in Nat
      /\ \A k \in 1 .. Len(w) : w[k] \in Indices /\ w[k] # -1
  BY SlotFacts, ListIsShort, LengthAssumption
<1>2. /\ Rest(w, Len(w) + 1) = <<>> /\ Rest(w, 1) = w
      /\ \A k \in 1 .. Len(w) : <<w[k]>> \o Rest(w, k + 1) = Rest(w, k)
  BY <1>1, RestFacts
<1>3. /\ head[q] = IF Len(w) = 0 THEN -1 ELSE w[1]
      /\ \A k \in 1 .. Len(w) : next[w[k]] = IF k < Len(w) THEN w[k + 1] ELSE -1
  BY DEF Stacked, LinkedAs
<1> HIDE DEF w
<1>4. \A k \in 1 .. Len(w) + 1 : Node(k) \in Nodes /\ (k = Len(w) + 1 <=> Node(k) = -1)
  <2> SUFFICES ASSUME NEW k \in 1 .. Len(w) + 1
               PROVE  Node(k) \in Nodes /\ (k = Len(w) + 1 <=> Node(k) = -1)
    OBVIOUS
  <2>1. CASE k \in 1 .. Len(w)
    <3>1. Node(k) = w[k] /\ k # Len(w) + 1
      BY <2>1, <1>1
    <3> QED
      BY <2>1, <3>1, <1>1 DEF Nodes
  <2>2. CASE k = Len(w) + 1
    BY <2>2, <1>1 DEF Nodes
  <2> QED
    BY <2>1, <2>2, <1>1
<1>5. /\ head[q] = Node(1)
      /\ \A k \in 1 .. Len(w) : Node(k) = w[k] /\ next[w[k]] = Node(k + 1)
  <2>1. head[q] = Node(1)
    BY <1>1, <1>3
  <2>2. ASSUME NEW k \in 1 .. Len(w) PROVE Node(k) = w[k] /\ next[w[k]] = Node(k + 1)
    <3>1. k <= Len(w) /\ (k < Len(w) <=> k + 1 <= Len(w))
      BY <1>1
    <3> QED
      BY <3>1, <1>3
  <2> QED
    BY <2>1, <2>2
<1>6. ASSUME NEW m \in 0 .. MaxLen, NEW i \in Nodes
      PROVE  f[m][i] = IF m = 0 \/ i = -1 THEN <<>> ELSE <<i>> \o f[m - 1][next[i]]
  <2>1. f = [n \in 0 .. MaxLen |-> [j \in Nodes |->
              IF n = 0 \/ j = -1 THEN <<>> ELSE <<j>> \o f[n - 1][next[j]]]]
    BY DEF IsChain
  <2>2. f[m] = [j \in Nodes |-> IF m = 0 \/ j = -1 THEN <<>> ELSE <<j>> \o f[m - 1][next[j]]]
    BY <2>1
  <2> QED
    BY <2>2
<1> HIDE DEF Node
<1>7. \A m \in 0 .. MaxLen : f[m][Node(Len(w) + 1)] = <<>>
  <2>1. Len(w) + 1 \in 1 .. Len(w) + 1
    BY <1>1
  <2>2. Node(Len(w) + 1) = -1 /\ Node(Len(w) + 1) \in Nodes
    BY <2>1, <1>4
  <2> QED
    BY <2>2, <1>6
<1>8. 0 \in T
  <2> SUFFICES ASSUME NEW k \in 1 .. Len(w) + 1, Len(w) - k + 1 <= 0
               PROVE  f[0][Node(k)] = Rest(w, k)
    OBVIOUS
  <2>1. k = Len(w) + 1 /\ 0 \in 0 .. MaxLen
    BY <1>1
  <2> QED
    BY <2>1, <1>2, <1>7
<1>9. ASSUME NEW m \in Nat, m \in T PROVE m + 1 \in T
  <2> SUFFICES ASSUME m + 1 <= MaxLen, NEW k \in 1 .. Len(w) + 1, Len(w) - k + 1 <= m + 1
               PROVE  f[m + 1][Node(k)] = Rest(w, k)
    OBVIOUS
  <2>1. m <= MaxLen /\ m + 1 \in 0 .. MaxLen
    BY <1>1
  <2>2. CASE k = Len(w) + 1
    BY <2>1, <2>2, <1>2, <1>7
  <2>3. CASE k \in 1 .. Len(w)
    <3>1. k + 1 \in 1 .. Len(w) + 1 /\ Len(w) - (k + 1) + 1 <= m
      BY <2>3, <1>1
    <3>2. f[m][Node(k + 1)] = Rest(w, k + 1)
      BY <3>1, <2>1, <1>9
    <3>3. Node(k) = w[k] /\ next[w[k]] = Node(k + 1) /\ w[k] # -1 /\ w[k] \in Nodes
      BY <2>3, <1>1, <1>5 DEF Nodes
    <3>4. \A n \in 0 .. MaxLen : n # 0 => f[n][w[k]] = <<w[k]>> \o f[n - 1][next[w[k]]]
      BY <3>3, <1>6
    <3>5. m + 1 # 0 /\ (m + 1) - 1 = m
      OBVIOUS
    <3>6. f[m + 1][w[k]] = <<w[k]>> \o f[m][next[w[k]]]
      BY <2>1, <3>4, <3>5
    <3> QED
      BY <2>3, <3>2, <3>3, <3>6, <1>2
  <2> QED
    BY <2>2, <2>3, <1>1
<1>10. MaxLen \in T
  <2> HIDE DEF T
  <2> QED
    BY <1>1, <1>8, <1>9, CountUp
<1>11. 1 \in 1 .. Len(w) + 1 /\ Len(w) - 1 + 1 <= MaxLen /\ MaxLen <= MaxLen
  BY <1>1
<1>12. f[MaxLen][Node(1)] = Rest(w, 1)
  BY <1>10, <1>11
<1> QED
  BY <1>12, <1>2, <1>5 DEF w

LEMMA ChainIs ==
  ASSUME LlTypeOK, NEW s \in TwoLists, Stacked(s)
  PROVE  Chain = s
<1>1. PICK f : IsChain(f) /\ Chain = [q \in Lists |-> f[MaxLen][head[q]]]
  BY ChainDef
<1>2. \A q \in Lists : f[MaxLen][head[q]] = s[q]
  BY <1>1, ChainFollows
<1>3. s = [q \in Lists |-> s[q]]
  BY DEF TwoLists
<1> QED
  BY <1>1, <1>2, <1>3

-----------------------------------------------------------------------------
(* The theorems *)

LEMMA LifoInvInit == Init => LifoInv
BY InitStacked DEF LifoInv

LEMMA LifoInvStep == LifoInv /\ [Next]_vars => LifoInv'
<1> SUFFICES ASSUME LifoInv, [Next]_vars PROVE LifoInv'
  OBVIOUS
<1>1. PICK s \in TwoLists : LlTypeOK /\ HandsOK /\ Stacked(s)
  BY DEF LifoInv
<1>2. LlTypeOK' /\ HandsOK' /\ \E r \in TwoLists : Stacked(r)' /\ Moved(s, r)
  BY <1>1, StacksMove
<1> QED
  BY <1>2 DEF LifoInv

LEMMA LifoInvHolds == Spec => []LifoInv
BY LifoInvInit, LifoInvStep, PTL DEF Spec

\* Whatever the interleaving, the links, the heads, the tags and what the threads have loaded
\* stay within their ranges (LockFreeLIFO.h).
THEOREM LlTypeCorrect == Spec => []LlTypeOK
<1>1. LifoInv => LlTypeOK
  BY DEF LifoInv
<1> QED
  BY <1>1, LifoInvHolds, PTL

LEMMA ConservedBy == LifoInv => Conserved
<1> SUFFICES ASSUME LifoInv, NEW i \in Indices
             PROVE  LET Places == {p \in Lists \X (1 .. MaxLen) :
                                     p[2] \in DOMAIN Chain[p[1]] /\ Chain[p[1]][p[2]] = i}
                                  \cup {t \in Threads : held[t] = i}
                    IN  \E p \in Places : Places = {p}
  BY DEF Conserved
<1>1. PICK s \in TwoLists : LlTypeOK /\ Stacked(s)
  BY DEF LifoInv
<1>2. Chain = s
  BY <1>1, ChainIs
<1> DEFINE OnLists == {p \in Lists \X (1 .. MaxLen) : p[2] \in DOMAIN s[p[1]] /\ s[p[1]][p[2]] = i}
           InHands == {t \in Threads : held[t] = i}
<1>3. \A q \in Lists : /\ Len(s[q]) \in Nat /\ Len(s[q]) <= MaxLen /\ DOMAIN s[q] = 1 .. Len(s[q])
  BY <1>1, ListIsShort, SlotFacts
<1>4. /\ \A q, r \in Lists : \A k \in 1 .. Len(s[q]), l \in 1 .. Len(s[r]) :
           s[q][k] = s[r][l] => q = r /\ k = l
      /\ \A t \in Threads, q \in Lists : \A k \in 1 .. Len(s[q]) : held[t] # s[q][k]
      /\ \A t, u \in Threads : held[t] # -1 /\ held[t] = held[u] => t = u
      /\ \/ \E t \in Threads : held[t] = i
         \/ \E q \in Lists : \E k \in 1 .. Len(s[q]) : s[q][k] = i
      /\ i # -1
  BY <1>1, SlotFacts DEF Stacked, Apart
<1>5. ASSUME NEW a \in OnLists
      PROVE  /\ a = <<a[1], a[2]>> /\ a[1] \in Lists /\ a[2] \in 1 .. Len(s[a[1]])
             /\ s[a[1]][a[2]] = i
  BY <1>3
<1>6. \A a, b \in OnLists : a = b
  <2> SUFFICES ASSUME NEW a \in OnLists, NEW b \in OnLists PROVE a = b
    OBVIOUS
  <2>1. a[1] = b[1] /\ a[2] = b[2]
    BY <1>4, <1>5
  <2> QED
    BY <1>5, <2>1
<1>7. \A a, b \in InHands : a = b
  BY <1>4
<1>8. \A a \in OnLists, b \in InHands : FALSE
  BY <1>4, <1>5
<1>9. \E a : a \in OnLists \cup InHands
  <2>1. CASE \E t \in Threads : held[t] = i
    BY <2>1
  <2>2. CASE \E q \in Lists : \E k \in 1 .. Len(s[q]) : s[q][k] = i
    <3>1. PICK q \in Lists : \E k \in 1 .. Len(s[q]) : s[q][k] = i
      BY <2>2
    <3>2. PICK k \in 1 .. Len(s[q]) : s[q][k] = i
      BY <3>1
    <3>3. k \in 1 .. MaxLen /\ k \in DOMAIN s[q]
      <4>1. Len(s[q]) \in Nat /\ Len(s[q]) <= MaxLen /\ DOMAIN s[q] = 1 .. Len(s[q]) /\ MaxLen \in Nat
        BY <1>3, LengthAssumption
      <4>2. k <= MaxLen
        BY <4>1
      <4> QED
        BY <4>1, <4>2
    <3>4. <<q, k>> \in OnLists
      BY <3>2, <3>3
    <3> QED
      BY <3>4
  <2> QED
    BY <1>4, <2>1, <2>2
<1> HIDE DEF OnLists, InHands
<1>10. PICK a : a \in OnLists \cup InHands
  BY <1>9
<1>11. OnLists \cup InHands = {a}
  BY <1>6, <1>7, <1>8, <1>10
<1> QED
  BY <1>2, <1>11 DEF OnLists, InHands

\* However the pushes and pops of the threads interleave, no slot is lost and none is on two
\* lists, twice on one, or in two hands: no two threads get the same block of handles
\* (GCState.h 66-78), for any number of threads and slots and any width of the tag.
THEOREM NoSlotIsLost == Spec => []Conserved
BY ConservedBy, LifoInvHolds, PTL

LEMMA ChainIsAfter ==
  \A s \in TwoLists : LlTypeOK' /\ Stacked(s)' => Chain' = s
<1>0. \A s \in TwoLists : LlTypeOK /\ Stacked(s) => Chain = s
  BY ChainIs
<1>1. (\A s \in TwoLists : LlTypeOK /\ Stacked(s) => Chain = s)'
  BY <1>0, PTL
<1> QED
  BY <1>1

LEMMA StacksInit == Init => S!StInit
<1> SUFFICES ASSUME Init PROVE S!StInit
  OBVIOUS
<1>1. Chain = AtFirst
  BY InitStacked, ChainIs
<1> QED
  BY <1>1 DEF S!StInit, AtFirst, Init, Lists, S!Lists

LEMMA StacksStep == LifoInv /\ [Next]_vars => [S!StNext]_S!stVars
<1> SUFFICES ASSUME LifoInv, [Next]_vars PROVE [S!StNext]_S!stVars
  OBVIOUS
<1>1. PICK s \in TwoLists : LlTypeOK /\ HandsOK /\ Stacked(s)
  BY DEF LifoInv
<1>2. PICK r \in TwoLists : LlTypeOK' /\ Stacked(r)' /\ Moved(s, r)
  BY <1>1, StacksMove
<1>3. Chain = s /\ Chain' = r
  BY <1>1, <1>2, ChainIs, ChainIsAfter
<1>4. CASE r = s /\ held' = held
  BY <1>3, <1>4 DEF S!stVars
<1>5. ASSUME NEW t \in Threads, NEW q \in Lists,
             held[t] # -1, r = Pushed(s, q, held[t]), held' = [held EXCEPT ![t] = -1]
      PROVE  S!Push(t, q)
  BY <1>3, <1>5 DEF S!Push, Pushed
<1>6. ASSUME NEW t \in Threads, NEW q \in Lists,
             held[t] = -1, s[q] # <<>>, r = Popped(s, q), held' = [held EXCEPT ![t] = Head(s[q])]
      PROVE  S!Pop(t, q)
  BY <1>3, <1>6 DEF S!Pop, Popped
<1> QED
  BY <1>2, <1>4, <1>5, <1>6 DEF Moved, S!StNext, S!Lists, Lists

\* The code's lists are two stacks: every push and pop takes effect in one step, the swap that
\* succeeds, and every other access changes neither stack; the tag keeps a pop from putting
\* back a link it has read too early (LockFreeLIFO.h 51-120).
THEOREM ListsAreStacks == Spec => ImplementsStacks
<1>1. Spec => [][S!StNext]_S!stVars
  <2>1. LifoInv /\ [Next]_vars => [S!StNext]_S!stVars
    BY StacksStep
  <2> QED
    BY <2>1, LifoInvHolds, PTL DEF Spec
<1>2. Spec => S!StInit
  BY StacksInit DEF Spec
<1> QED
  BY <1>1, <1>2 DEF ImplementsStacks, S!StSpec
=============================================================================
