---------------------------- MODULE TriggerProofs ----------------------------
(***************************************************************************)
(* Proofs about CollectionTrigger with SingleThread, for any number of     *)
(* threads and any trigger point: no byte that was allocated is lost to    *)
(* the count, and the phase of a single-thread program is the one its      *)
(* thread has.                                                             *)
(***************************************************************************)
EXTENDS CollectionTrigger, DataInduction

-----------------------------------------------------------------------------
(* Single-thread mode *)

\* Counting on a counter that wraps: it stays in range, and back and forth is where it was.
LEMMA CountWraps ==
  /\ \A x, by \in Int : Count(x, by) \in 0 .. CounterMod - 1
  /\ Count(0, 0) = 0 /\ Count(0, 1) = 1 /\ Count(0, -1) = CounterMod - 1
  /\ Count(CounterMod - 1, 1) = 0
BY SingleAssumption DEF Count

LEMMA PhasesTurn ==
  ASSUME NEW p \in Phases
  PROVE  /\ Succ(p) \in Phases /\ Pred(p) \in Phases /\ Pred(Succ(p)) = p
         /\ Succ(p) # p /\ Pred(p) # p /\ p # "NOT_MUTATING"
         /\ p = "NOT_COLLECTING" => Succ(p) = "COLLECTING"
BY DEF Phases, Succ, Pred

\* What is in which variable.
SingleTypeOK ==
  /\ phase \in Phases /\ counter \in [Phases -> 0 .. CounterMod - 1]
  /\ notMutating \in 0 .. CounterMod - 1
  /\ ThreadState \in Phases \cup {"NOT_MUTATING"} /\ NotMutatingCount \in -1 .. MaxNesting
  /\ stage \in {"out", "announce", "gather", "work"} /\ unbalanced \in BOOLEAN

\* The counters of a thread that has left mutation as often as it has entered it: in the
\* phase before one that is being gathered the collector counts too.
Counts == \A p \in Phases :
  counter[p] = IF stage = "gather" /\ p = Pred(phase)
               THEN IF p = "NOT_COLLECTING" /\ NotMutatingCount > 0 THEN 0 ELSE 1
               ELSE Count(0, IF p = "NOT_COLLECTING" /\ NotMutatingCount > 0 THEN -1 ELSE 0)
HasBarrier ==
  ThreadState = IF NotMutatingCount > 0 THEN "NOT_MUTATING"
                ELSE IF stage = "gather" THEN Pred(phase)
                ELSE phase

SingleInv ==
  /\ SingleTypeOK
  /\ stage = "out" => phase = "NOT_COLLECTING"
  /\ ~unbalanced => NotMutatingCount >= 0 /\ HasBarrier /\ Counts

LEMMA SingleBegins == SingleInit => SingleInv
<1> SUFFICES ASSUME SingleInit PROVE SingleInv
  OBVIOUS
<1>1. SingleTypeOK
  <2>1. 0 \in 0 .. CounterMod - 1 /\ 0 \in -1 .. MaxNesting
    BY SingleAssumption
  <2>2. counter \in [Phases -> 0 .. CounterMod - 1]
    BY <2>1 DEF SingleInit
  <2> QED
    BY <2>1, <2>2 DEF SingleInit, SingleTypeOK, Phases
<1>2. HasBarrier /\ Counts
  BY CountWraps DEF SingleInit, HasBarrier, Counts
<1> QED
  BY <1>1, <1>2 DEF SingleInit, SingleInv

LEMMA SingleStays == SingleInv /\ UNCHANGED single => SingleInv'
BY DEF single, word, locals, SingleInv, SingleTypeOK, HasBarrier, Counts

LEMMA SingleOneCollect ==
  ASSUME SingleInv, OneCollect
  PROVE  SingleInv'
BY DEF OneCollect, word, locals, SingleInv, SingleTypeOK, HasBarrier, Counts

LEMMA SingleCollectStep ==
  ASSUME SingleInv, CollectStep
  PROVE  SingleInv'
<1>0. SingleTypeOK
  BY DEF SingleInv
<1>1. CASE Announce
  <2>1. Succ(phase) \in Phases /\ Pred(Succ(phase)) = phase /\ Succ(phase) # phase
    BY <1>0, PhasesTurn DEF SingleTypeOK
  <2>2. /\ stage = "announce" /\ stage' = "gather" /\ phase' = Succ(phase)
        /\ counter' = [counter EXCEPT ![phase] = Count(@, 1)]
        /\ UNCHANGED <<notMutating, ThreadState, NotMutatingCount, unbalanced>>
    BY <1>1 DEF Announce, locals
  <2>3. SingleTypeOK'
    <3>1. Count(counter[phase], 1) \in 0 .. CounterMod - 1
      BY <1>0, CountWraps DEF SingleTypeOK
    <3> QED
      BY <1>0, <2>1, <2>2, <3>1 DEF SingleTypeOK
  <2>4. ASSUME ~unbalanced PROVE HasBarrier' /\ Counts'
    <3>1. HasBarrier /\ Counts
      BY <2>4 DEF SingleInv
    <3>2. HasBarrier'
      BY <2>1, <2>2, <3>1 DEF HasBarrier
    <3>3. \A p \in Phases : counter'[p] = IF p = phase THEN Count(counter[p], 1) ELSE counter[p]
      BY <1>0, <2>2 DEF SingleTypeOK
    <3>4. Counts'
      BY <1>0, <2>1, <2>2, <3>1, <3>3, CountWraps DEF Counts, SingleTypeOK
    <3> QED
      BY <3>2, <3>4
  <2> QED
    BY <2>2, <2>3, <2>4 DEF SingleInv
<1>2. CASE Release
  <2>1. Pred(phase) \in Phases /\ Pred(phase) # phase /\ phase # "NOT_MUTATING"
    BY <1>0, PhasesTurn DEF SingleTypeOK
  <2>2. /\ stage = "gather" /\ stage' = "work" /\ counter[Pred(phase)] = 1
        /\ counter' = [counter EXCEPT ![Pred(phase)] = 0]
        /\ ThreadState' = IF ThreadState = "NOT_MUTATING" THEN ThreadState ELSE phase
        /\ UNCHANGED <<phase, notMutating, NotMutatingCount, unbalanced>>
    BY <1>2 DEF Release
  <2>3. SingleTypeOK'
    BY <1>0, <2>1, <2>2, SingleAssumption DEF SingleTypeOK
  <2>4. ASSUME ~unbalanced PROVE HasBarrier' /\ Counts'
    <3>1. HasBarrier /\ Counts
      BY <2>4 DEF SingleInv
    <3>2. HasBarrier'
      <4>1. Pred(phase) # "NOT_MUTATING"
        BY <2>1, PhasesTurn
      <4> QED
        BY <2>1, <2>2, <3>1, <4>1 DEF HasBarrier
    <3>3. \A p \in Phases : counter'[p] = IF p = Pred(phase) THEN 0 ELSE counter[p]
      BY <1>0, <2>2 DEF SingleTypeOK
    <3>4. ~(Pred(phase) = "NOT_COLLECTING" /\ NotMutatingCount > 0)
      BY <2>1, <2>2, <3>1 DEF Counts
    <3>5. Counts'
      BY <2>1, <2>2, <3>1, <3>3, <3>4, CountWraps DEF Counts
    <3> QED
      BY <3>2, <3>5
  <2> QED
    BY <2>2, <2>3, <2>4 DEF SingleInv
<1>3. CASE FinishWork
  BY <1>3 DEF FinishWork, word, locals, SingleInv, SingleTypeOK, HasBarrier, Counts
<1> QED
  BY <1>1, <1>2, <1>3 DEF CollectStep

\* A thread that leaves mutation once too few is not followed further.
LEMMA SingleOptStep ==
  ASSUME SingleInv, OptStep
  PROVE  SingleInv'
<1>0. SingleTypeOK /\ phase = "NOT_COLLECTING"
  BY DEF SingleInv, OptStep, LeaveMutation, EnterMutation
<1>1. CASE LeaveMutation
  <2>1. /\ stage = "out" /\ NotMutatingCount < MaxNesting
        /\ NotMutatingCount' = NotMutatingCount + 1
        /\ UNCHANGED <<phase, stage, unbalanced>>
        /\ IF NotMutatingCount + 1 > 1 THEN UNCHANGED <<counter, notMutating, ThreadState>>
           ELSE /\ counter' = [counter EXCEPT ![phase] = Count(@, -1)]
                /\ notMutating' = Count(notMutating, 1)
                /\ ThreadState' = "NOT_MUTATING"
    BY <1>1 DEF LeaveMutation
  <2>2. SingleTypeOK'
    <3>1. /\ Count(counter[phase], -1) \in 0 .. CounterMod - 1
          /\ Count(notMutating, 1) \in 0 .. CounterMod - 1
      <4>1. counter[phase] \in Int /\ notMutating \in Int /\ 1 \in Int /\ -1 \in Int
        BY <1>0, SingleAssumption DEF SingleTypeOK
      <4> QED
        BY <4>1, CountWraps
    <3>2. NotMutatingCount' \in -1 .. MaxNesting
      BY <1>0, <2>1, SingleAssumption DEF SingleTypeOK
    <3> QED
      BY <1>0, <2>1, <3>1, <3>2 DEF SingleTypeOK
  <2>3. ASSUME ~unbalanced PROVE NotMutatingCount' >= 0 /\ HasBarrier' /\ Counts'
    <3>1. NotMutatingCount >= 0 /\ HasBarrier /\ Counts
      BY <2>3 DEF SingleInv
    <3>2. CASE NotMutatingCount > 0
      BY <1>0, <2>1, <3>1, <3>2 DEF SingleTypeOK, HasBarrier, Counts
    <3>3. CASE NotMutatingCount = 0
      <4>1. \A p \in Phases :
              counter'[p] = IF p = "NOT_COLLECTING" THEN Count(counter[p], -1) ELSE counter[p]
        BY <1>0, <2>1, <3>3 DEF SingleTypeOK
      <4>2. HasBarrier'
        BY <1>0, <2>1, <3>3 DEF HasBarrier
      <4>3. \A p \in Phases : counter[p] = IF p = "NOT_COLLECTING" THEN 0 ELSE 0
        BY <2>1, <3>1, <3>3, CountWraps DEF Counts
      <4>4. \A p \in Phases : counter'[p] = IF p = "NOT_COLLECTING" THEN CounterMod - 1 ELSE 0
        BY <4>1, <4>3, CountWraps
      <4>5. Counts'
        <5>1. NotMutatingCount' = 1 /\ stage' # "gather"
          BY <2>1, <3>3
        <5>2. Count(0, -1) = CounterMod - 1 /\ Count(0, 0) = 0
          BY CountWraps
        <5>3. \A p \in Phases :
                counter'[p] = Count(0, IF p = "NOT_COLLECTING" /\ NotMutatingCount' > 0 THEN -1 ELSE 0)
          BY <4>4, <5>1, <5>2
        <5> QED
          BY <5>1, <5>3 DEF Counts
      <4> QED
        BY <2>1, <3>3, <4>2, <4>5
    <3> QED
      BY <1>0, <3>1, <3>2, <3>3 DEF SingleTypeOK
  <2> QED
    BY <1>0, <2>1, <2>2, <2>3 DEF SingleInv
<1>2. CASE EnterMutation
  <2>1. /\ stage = "out" /\ NotMutatingCount >= 0
        /\ NotMutatingCount' = NotMutatingCount - 1
        /\ unbalanced' = (unbalanced \/ NotMutatingCount = 0)
        /\ UNCHANGED <<phase, stage>>
        /\ IF NotMutatingCount - 1 # 0 THEN UNCHANGED <<counter, notMutating, ThreadState>>
           ELSE /\ counter' = [counter EXCEPT ![phase] = Count(@, 1)]
                /\ notMutating' = Count(notMutating, -1)
                /\ ThreadState' = phase
    BY <1>2 DEF EnterMutation
  <2>2. SingleTypeOK'
    <3>1. /\ Count(counter[phase], 1) \in 0 .. CounterMod - 1
          /\ Count(notMutating, -1) \in 0 .. CounterMod - 1
      <4>1. counter[phase] \in Int /\ notMutating \in Int /\ 1 \in Int /\ -1 \in Int
        BY <1>0, SingleAssumption DEF SingleTypeOK
      <4> QED
        BY <4>1, CountWraps
    <3>2. NotMutatingCount' \in -1 .. MaxNesting
      BY <1>0, <2>1, SingleAssumption DEF SingleTypeOK
    <3> QED
      BY <1>0, <2>1, <3>1, <3>2 DEF SingleTypeOK
  <2>3. ASSUME ~unbalanced' PROVE NotMutatingCount' >= 0 /\ HasBarrier' /\ Counts'
    <3>0. ~unbalanced /\ NotMutatingCount # 0
      BY <2>1, <2>3
    <3>1. NotMutatingCount > 0 /\ HasBarrier /\ Counts /\ NotMutatingCount \in Int
      BY <1>0, <2>1, <3>0 DEF SingleInv, SingleTypeOK
    <3>2. CASE NotMutatingCount > 1
      BY <1>0, <2>1, <3>1, <3>2 DEF SingleTypeOK, HasBarrier, Counts
    <3>3. CASE NotMutatingCount = 1
      <4>1. \A p \in Phases :
              counter'[p] = IF p = "NOT_COLLECTING" THEN Count(counter[p], 1) ELSE counter[p]
        BY <1>0, <2>1, <3>3 DEF SingleTypeOK
      <4>2. HasBarrier'
        BY <1>0, <2>1, <3>3 DEF HasBarrier
      <4>3. \A p \in Phases : counter[p] = IF p = "NOT_COLLECTING" THEN CounterMod - 1 ELSE 0
        BY <2>1, <3>1, <3>3, CountWraps DEF Counts
      <4>4. \A p \in Phases : counter'[p] = IF p = "NOT_COLLECTING" THEN 0 ELSE 0
        BY <4>1, <4>3, CountWraps
      <4>5. Counts'
        BY <2>1, <3>3, <4>4, CountWraps DEF Counts
      <4> QED
        BY <2>1, <3>3, <4>2, <4>5
    <3> QED
      BY <3>1, <3>2, <3>3
  <2> QED
    BY <1>0, <2>1, <2>2, <2>3 DEF SingleInv
<1> QED
  BY <1>1, <1>2 DEF OptStep

-----------------------------------------------------------------------------
(* Counting bytes *)

Places == {"run", "add", "look", "take", "giveback", "send", "notify", "join", "gone"}
Stations == {"none", "top", "lock", "test", "sleep", "blocked", "woken", "collect", "ended"}

TriggerTypeOK ==
  /\ threadAllocated \in [Threads -> Nat] /\ aggregate \in [Threads -> 0 .. LogEvery]
  /\ handlesUsed \in [Threads -> Nat] /\ temp \in [Threads -> Int]
  /\ allocated \in Int /\ owed \in Int /\ truncated \in BOOLEAN
  /\ pending \in BOOLEAN
  /\ collector \in Stations
  /\ pc \in [Senders -> Places]
  /\ ending \subseteq Threads
  /\ exitFlag \in BOOLEAN /\ combined \in BOOLEAN /\ singleEvent \in BOOLEAN

\* Only a thread that is about to give bytes back has any to give back.
OnlyGivers == \A t \in Threads : pc[t] # "giveback" => temp[t] = 0

\* No byte is lost between the three places.
Balanced == ~truncated => owed = allocated + PairSum(threadAllocated, temp, Threads)

TriggerInv == TriggerTypeOK /\ OnlyGivers /\ Balanced

LEMMA BackIsPlace ==
  ASSUME NEW t PROVE Back(t) \in {"run", "gone"} /\ Back(t) \in Places /\ Back(t) # "giveback"
BY DEF Back, Places

\* A thread that goes anywhere but to giving back, having nothing to give back.
LEMMA GoesOn ==
  ASSUME TriggerTypeOK, OnlyGivers, NEW t \in Senders, NEW place \in Places, Goto(t, place),
         place # "giveback", temp' = temp, pc[t] # "giveback"
  PROVE  pc' \in [Senders -> Places] /\ OnlyGivers'
<1>1. pc' \in [Senders -> Places] /\ \A u \in Senders : pc'[u] = IF u = t THEN place ELSE pc[u]
  BY DEF TriggerTypeOK, Goto
<1>2. Threads \subseteq Senders
  BY DEF Senders
<1> QED
  BY <1>1, <1>2 DEF OnlyGivers

\* Steps that touch no bytes.
LEMMA KeepsBytes ==
  ASSUME TriggerInv, UNCHANGED merge, pc' \in [Senders -> Places], OnlyGivers',
         collector' \in Stations, pending' \in BOOLEAN, ending' \subseteq Threads,
         exitFlag' \in BOOLEAN, combined' \in BOOLEAN, singleEvent' \in BOOLEAN
  PROVE  TriggerInv'
BY DEF TriggerInv, TriggerTypeOK, Balanced, merge

LEMMA TriggerBegins == Init => TriggerInv
<1> SUFFICES ASSUME Init PROVE TriggerInv
  OBVIOUS
<1>1. TriggerTypeOK
  <2>1. 0 \in 0 .. LogEvery
    BY TriggerAssumption
  <2>2. /\ threadAllocated \in [Threads -> Nat] /\ aggregate \in [Threads -> 0 .. LogEvery]
        /\ handlesUsed \in [Threads -> Nat] /\ temp \in [Threads -> Int]
    BY <2>1 DEF Init
  <2>3. pc \in [Senders -> Places] /\ collector \in Stations
    BY DEF Init, Places, Stations
  <2>4. combined \in BOOLEAN /\ ending \subseteq Threads /\ allocated = 0 /\ owed = 0
    BY DEF Init
  <2>5. /\ truncated \in BOOLEAN /\ pending \in BOOLEAN
        /\ exitFlag \in BOOLEAN /\ singleEvent \in BOOLEAN
    BY Zenon DEF Init
  <2> QED
    BY <2>2, <2>3, <2>4, <2>5 DEF TriggerTypeOK
<1>2. OnlyGivers
  BY DEF Init, OnlyGivers
<1>3. Balanced
  <2>1. \A t \in Threads : threadAllocated[t] = 0 /\ temp[t] = 0
    BY DEF Init
  <2>2. PairSum(threadAllocated, temp, Threads) = 0
    BY <2>1, TriggerAssumption, PairSumOfZeros
  <2> QED
    BY <2>2 DEF Init, Balanced
<1> QED
  BY <1>1, <1>2, <1>3 DEF TriggerInv

LEMMA BytesAreInt ==
  ASSUME TriggerTypeOK
  PROVE  PairSum(threadAllocated, temp, Threads) \in Int
<1>1. \A u \in Threads : threadAllocated[u] \in Int /\ temp[u] \in Int
  BY DEF TriggerTypeOK
<1>2. IsFiniteSet(Threads) /\ \E t : t \in Threads
  BY TriggerAssumption
<1>3. PICK t \in Threads : TRUE
  BY <1>2
<1>4. DifferAt(Threads, threadAllocated, temp, threadAllocated, temp, t)
  BY <1>1, <1>2 DEF DifferAt
<1> QED
  BY <1>4, PairSumChanges

\* How the sum follows a change of one thread's part.
LEMMA BytesMove ==
  ASSUME TriggerTypeOK, NEW t \in Threads,
         threadAllocated' \in [Threads -> Nat], temp' \in [Threads -> Int],
         \A u \in Threads \ {t} : threadAllocated'[u] = threadAllocated[u] /\ temp'[u] = temp[u]
  PROVE  /\ PairSum(threadAllocated, temp, Threads) \in Int
         /\ PairSum(threadAllocated', temp', Threads)
            = PairSum(threadAllocated, temp, Threads)
              + (threadAllocated'[t] - threadAllocated[t]) + (temp'[t] - temp[t])
<1>1. \A u \in Threads : /\ threadAllocated[u] \in Int /\ temp[u] \in Int
                         /\ threadAllocated'[u] \in Int /\ temp'[u] \in Int
  BY DEF TriggerTypeOK
<1>2. IsFiniteSet(Threads)
  BY TriggerAssumption
<1> DEFINE a == threadAllocated
           b == temp
           d == threadAllocated'
           e == temp'
<1>3. /\ \A u \in Threads : a[u] \in Int /\ b[u] \in Int /\ d[u] \in Int /\ e[u] \in Int
      /\ \A u \in Threads \ {t} : d[u] = a[u] /\ e[u] = b[u]
  BY <1>1
<1> HIDE DEF a, b, d, e
<1>4. /\ PairSum(a, b, Threads) \in Int
      /\ PairSum(d, e, Threads) = PairSum(a, b, Threads) + (d[t] - a[t]) + (e[t] - b[t])
  <2>1. DifferAt(Threads, a, b, d, e, t)
    BY <1>2, <1>3 DEF DifferAt
  <2> QED
    BY ONLY <2>1, PairSumChanges
<1> QED
  BY <1>4 DEF a, b, d, e

LEMMA InvLogAlloc ==
  ASSUME TriggerInv, NEW t \in Threads, NEW a \in Sizes, LogAlloc(t, a)
  PROVE  TriggerInv'
<1>0. TriggerTypeOK /\ OnlyGivers /\ Balanced /\ a \in Nat /\ t \in Senders
  BY TriggerAssumption DEF TriggerInv, Senders
<1>1. /\ pc[t] = "run" /\ threadAllocated' = [threadAllocated EXCEPT ![t] = @ + a]
      /\ owed' = owed + a
      /\ UNCHANGED <<temp, allocated, truncated, pending, collector, ending, exitFlag, combined,
                     singleEvent>>
  BY DEF LogAlloc, event
<1>2. threadAllocated' \in [Threads -> Nat] /\ owed' \in Int
  BY <1>0, <1>1 DEF TriggerTypeOK
<1>3. /\ aggregate' \in [Threads -> 0 .. LogEvery] /\ handlesUsed' \in [Threads -> Nat]
      /\ pc' \in [Senders -> Places] /\ OnlyGivers'
  <2>1. aggregate[t] \in Nat /\ aggregate[t] + 1 \in Nat /\ handlesUsed[t] \in Nat
    BY <1>0, TriggerAssumption DEF TriggerTypeOK
  <2>2. CASE BeginMerge(t, aggregate[t] + 1)
    <3>1. /\ handlesUsed' = [handlesUsed EXCEPT ![t] = @ + 2 * (aggregate[t] + 1)]
          /\ aggregate' = [aggregate EXCEPT ![t] = 0] /\ Goto(t, "add")
      BY <2>2 DEF BeginMerge
    <3>2. 0 \in 0 .. LogEvery /\ 2 * (aggregate[t] + 1) \in Nat
      BY <2>1, TriggerAssumption
    <3>3. aggregate' \in [Threads -> 0 .. LogEvery] /\ handlesUsed' \in [Threads -> Nat]
      BY <1>0, <2>1, <3>1, <3>2 DEF TriggerTypeOK
    <3>4. "add" \in Places
      BY DEF Places
    <3> QED
      BY <1>0, <1>1, <3>1, <3>3, <3>4, GoesOn
  <2>3. CASE /\ ~(aggregate[t] + 1 > LogEvery)
             /\ aggregate' = [aggregate EXCEPT ![t] = @ + 1] /\ UNCHANGED <<handlesUsed, pc>>
    <3>1. aggregate[t] + 1 \in 0 .. LogEvery
      BY <2>1, <2>3, TriggerAssumption
    <3>2. aggregate' \in [Threads -> 0 .. LogEvery]
      BY <1>0, <2>3, <3>1 DEF TriggerTypeOK
    <3> QED
      BY <1>0, <1>1, <2>3, <3>2 DEF TriggerTypeOK, OnlyGivers
  <2> QED
    BY <2>2, <2>3 DEF LogAlloc
<1>4. Balanced'
  <2>1. /\ PairSum(threadAllocated, temp, Threads) \in Int
        /\ PairSum(threadAllocated', temp', Threads)
            = PairSum(threadAllocated, temp, Threads)
              + (threadAllocated'[t] - threadAllocated[t]) + (temp'[t] - temp[t])
    BY <1>0, <1>1, <1>2, BytesMove DEF TriggerTypeOK
  <2>2. threadAllocated'[t] - threadAllocated[t] = a /\ temp'[t] - temp[t] = 0
    BY <1>0, <1>1 DEF TriggerTypeOK
  <2> QED
    BY <1>0, <1>1, <2>1, <2>2 DEF Balanced, TriggerTypeOK
<1> QED
  BY <1>0, <1>1, <1>2, <1>3, <1>4 DEF TriggerInv, TriggerTypeOK

LEMMA InvEndThread ==
  ASSUME TriggerInv, NEW t \in Threads, EndThread(t)
  PROVE  TriggerInv'
<1>0. TriggerTypeOK /\ OnlyGivers /\ Balanced /\ t \in Senders
  BY DEF TriggerInv, Senders
<1>1. /\ pc[t] = "run" /\ ending' = ending \cup {t}
      /\ handlesUsed' = [handlesUsed EXCEPT ![t] = @ + 2 * aggregate[t]]
      /\ aggregate' = [aggregate EXCEPT ![t] = 0] /\ Goto(t, "add")
      /\ UNCHANGED <<threadAllocated, temp, allocated, owed, truncated, pending, collector,
                     exitFlag, combined, singleEvent>>
  BY DEF EndThread, BeginMerge, event
<1>2. aggregate' \in [Threads -> 0 .. LogEvery] /\ handlesUsed' \in [Threads -> Nat]
  <2>1. 0 \in 0 .. LogEvery /\ 2 * aggregate[t] \in Nat
    BY <1>0, TriggerAssumption DEF TriggerTypeOK
  <2> QED
    BY <1>0, <1>1, <2>1 DEF TriggerTypeOK
<1>3. pc' \in [Senders -> Places] /\ OnlyGivers'
  <2>1. "add" \in Places
    BY DEF Places
  <2> QED
    BY <1>0, <1>1, <2>1, GoesOn
<1> QED
  BY <1>0, <1>1, <1>2, <1>3 DEF TriggerInv, TriggerTypeOK, Balanced

LEMMA InvStartThread ==
  ASSUME TriggerInv, NEW t \in Threads, StartThread(t)
  PROVE  TriggerInv'
<1>0. TriggerTypeOK /\ OnlyGivers /\ Balanced /\ t \in Senders
  BY DEF TriggerInv, Senders
<1>1. /\ pc[t] = "gone" /\ ending' = ending \ {t}
      /\ handlesUsed' = [handlesUsed EXCEPT ![t] = 0] /\ Goto(t, "run")
      /\ UNCHANGED <<threadAllocated, aggregate, temp, allocated, owed, truncated, pending,
                     collector, exitFlag, combined, singleEvent>>
  BY DEF StartThread, event
<1>2. handlesUsed' \in [Threads -> Nat]
  BY <1>0, <1>1 DEF TriggerTypeOK
<1>3. pc' \in [Senders -> Places] /\ OnlyGivers'
  <2>1. "run" \in Places
    BY DEF Places
  <2> QED
    BY <1>0, <1>1, <2>1, GoesOn
<1> QED
  BY <1>0, <1>1, <1>2, <1>3 DEF TriggerInv, TriggerTypeOK, Balanced

LEMMA InvAdd ==
  ASSUME TriggerInv, NEW t \in Threads, Add(t)
  PROVE  TriggerInv'
<1>0. TriggerTypeOK /\ OnlyGivers /\ Balanced /\ t \in Senders
  BY DEF TriggerInv, Senders
<1>1. /\ pc[t] = "add" /\ allocated' = allocated + threadAllocated[t]
      /\ threadAllocated' = [threadAllocated EXCEPT ![t] = 0] /\ Goto(t, "look")
      /\ UNCHANGED <<aggregate, handlesUsed, temp, owed, truncated, pending, collector, ending,
                     exitFlag, combined, singleEvent>>
  BY DEF Add, event
<1>2. threadAllocated' \in [Threads -> Nat] /\ allocated' \in Int
  BY <1>0, <1>1 DEF TriggerTypeOK
<1>3. pc' \in [Senders -> Places] /\ OnlyGivers'
  <2>1. "look" \in Places
    BY DEF Places
  <2> QED
    BY <1>0, <1>1, <2>1, GoesOn
<1>4. Balanced'
  <2>1. /\ PairSum(threadAllocated, temp, Threads) \in Int
        /\ PairSum(threadAllocated', temp', Threads)
            = PairSum(threadAllocated, temp, Threads)
              + (threadAllocated'[t] - threadAllocated[t]) + (temp'[t] - temp[t])
    BY <1>0, <1>1, <1>2, BytesMove DEF TriggerTypeOK
  <2>2. /\ threadAllocated'[t] - threadAllocated[t] = -threadAllocated[t]
        /\ temp'[t] - temp[t] = 0 /\ threadAllocated[t] \in Int
    BY <1>0, <1>1 DEF TriggerTypeOK
  <2> QED
    BY <1>0, <1>1, <2>1, <2>2 DEF Balanced, TriggerTypeOK
<1> QED
  BY <1>0, <1>1, <1>2, <1>3, <1>4 DEF TriggerInv, TriggerTypeOK

LEMMA ToIntIsInt == \A x \in Int : ToInt(x) \in Int
BY TriggerAssumption DEF ToInt

\* The exchange: what it takes is answered by an event or is on its way back.
LEMMA InvTake ==
  ASSUME TriggerInv, NEW t \in Threads, Take(t)
  PROVE  TriggerInv'
<1>0. TriggerTypeOK /\ OnlyGivers /\ Balanced /\ t \in Senders
  BY DEF TriggerInv, Senders
<1>1. /\ pc[t] = "take" /\ allocated' = 0
      /\ truncated' = (truncated \/ ToInt(allocated) # allocated)
      /\ UNCHANGED <<threadAllocated, aggregate, pending, collector, ending, exitFlag, combined>>
  BY DEF Take, event
<1>2. truncated' \in BOOLEAN /\ allocated' \in Int /\ ToInt(allocated) \in Int
  BY <1>0, <1>1, ToIntIsInt DEF TriggerTypeOK
<1>3. CASE Enough(t, ToInt(allocated))
  <2>1. /\ handlesUsed' = [handlesUsed EXCEPT ![t] = 0]
        /\ owed' = owed - allocated
        /\ temp' = temp
        /\ IF combined THEN singleEvent' = TRUE /\ Goto(t, Back(t))
           ELSE UNCHANGED singleEvent /\ Goto(t, "send")
    BY <1>3 DEF Take
  <2>2. handlesUsed' \in [Threads -> Nat] /\ owed' \in Int /\ singleEvent' \in BOOLEAN
    <3>1. handlesUsed' \in [Threads -> Nat] /\ owed' \in Int
      BY <1>0, <2>1 DEF TriggerTypeOK
    <3>2. singleEvent' = TRUE \/ singleEvent' = singleEvent
      BY <2>1
    <3> QED
      BY <1>0, <3>1, <3>2 DEF TriggerTypeOK
  <2>3. pc' \in [Senders -> Places] /\ OnlyGivers'
    <3>1. "send" \in Places
      BY DEF Places
    <3>2. \E place \in Places : place # "giveback" /\ Goto(t, place)
      BY <2>1, <3>1, BackIsPlace
    <3> QED
      BY <1>0, <1>1, <2>1, <3>2, GoesOn
  <2>4. Balanced'
    <3>1. PairSum(threadAllocated, temp, Threads) \in Int
      BY <1>0, BytesAreInt
    <3> QED
      BY <1>0, <1>1, <2>1, <3>1 DEF Balanced, TriggerTypeOK
  <2> QED
    BY <1>0, <1>1, <1>2, <2>1, <2>2, <2>3, <2>4 DEF TriggerInv, TriggerTypeOK
<1>4. CASE ~Enough(t, ToInt(allocated))
  <2>1. /\ temp' = [temp EXCEPT ![t] = ToInt(allocated)] /\ Goto(t, "giveback")
        /\ UNCHANGED <<handlesUsed, owed, singleEvent>>
    BY <1>4 DEF Take
  <2>2. temp' \in [Threads -> Int]
    BY <1>0, <1>2, <2>1 DEF TriggerTypeOK
  <2>3. pc' \in [Senders -> Places] /\ OnlyGivers'
    <3>1. "giveback" \in Places /\ Threads \subseteq Senders
      BY DEF Places, Senders
    <3>2. pc' \in [Senders -> Places] /\ \A u \in Senders : pc'[u] = IF u = t THEN "giveback" ELSE pc[u]
      BY <1>0, <2>1, <3>1 DEF TriggerTypeOK, Goto
    <3>3. \A u \in Threads : u # t => temp'[u] = temp[u]
      BY <1>0, <2>1 DEF TriggerTypeOK
    <3> QED
      BY <1>0, <3>1, <3>2, <3>3 DEF OnlyGivers
  <2>4. Balanced'
    <3>1. temp[t] = 0
      BY <1>0, <1>1 DEF OnlyGivers
    <3>2. /\ PairSum(threadAllocated, temp, Threads) \in Int
          /\ PairSum(threadAllocated', temp', Threads)
              = PairSum(threadAllocated, temp, Threads)
                + (threadAllocated'[t] - threadAllocated[t]) + (temp'[t] - temp[t])
      BY <1>0, <1>1, <2>1, <2>2, BytesMove DEF TriggerTypeOK
    <3>3. threadAllocated'[t] - threadAllocated[t] = 0 /\ temp'[t] = ToInt(allocated)
      BY <1>0, <1>1, <2>1 DEF TriggerTypeOK
    <3>4. ASSUME ~truncated' PROVE owed' = allocated' + PairSum(threadAllocated', temp', Threads)
      <4>1. ~truncated /\ ToInt(allocated) = allocated
        BY <1>1, <3>4
      <4>2. owed = allocated + PairSum(threadAllocated, temp, Threads) /\ allocated \in Int
        BY <1>0, <4>1 DEF Balanced, TriggerTypeOK
      <4> QED
        BY <1>1, <2>1, <3>1, <3>2, <3>3, <4>1, <4>2
    <3> QED
      BY <3>4 DEF Balanced
  <2> QED
    BY <1>0, <1>1, <1>2, <2>1, <2>2, <2>3, <2>4 DEF TriggerInv, TriggerTypeOK
<1> QED
  BY <1>3, <1>4

LEMMA InvGiveBack ==
  ASSUME TriggerInv, NEW t \in Threads, GiveBack(t)
  PROVE  TriggerInv'
<1>0. TriggerTypeOK /\ OnlyGivers /\ Balanced /\ t \in Senders
  BY DEF TriggerInv, Senders
<1>1. /\ allocated' = allocated + temp[t] /\ temp' = [temp EXCEPT ![t] = 0]
      /\ Goto(t, Back(t))
      /\ UNCHANGED <<threadAllocated, aggregate, handlesUsed, owed, truncated, pending, collector,
                     ending, exitFlag, combined, singleEvent>>
  BY DEF GiveBack, event
<1>2. temp' \in [Threads -> Int] /\ allocated' \in Int
  BY <1>0, <1>1 DEF TriggerTypeOK
<1>3. pc' \in [Senders -> Places] /\ OnlyGivers'
  <2>1. Threads \subseteq Senders
    BY DEF Senders
  <2>2. pc' \in [Senders -> Places] /\ \A u \in Senders : pc'[u] = IF u = t THEN Back(t) ELSE pc[u]
    BY <1>0, <1>1, BackIsPlace DEF TriggerTypeOK, Goto
  <2>3. \A u \in Threads : temp'[u] = IF u = t THEN 0 ELSE temp[u]
    BY <1>0, <1>1 DEF TriggerTypeOK
  <2> QED
    BY <1>0, <2>1, <2>2, <2>3 DEF OnlyGivers
<1>4. Balanced'
  <2>1. /\ PairSum(threadAllocated, temp, Threads) \in Int
        /\ PairSum(threadAllocated', temp', Threads)
            = PairSum(threadAllocated, temp, Threads)
              + (threadAllocated'[t] - threadAllocated[t]) + (temp'[t] - temp[t])
    BY <1>0, <1>1, <1>2, BytesMove DEF TriggerTypeOK
  <2>2. /\ threadAllocated'[t] - threadAllocated[t] = 0 
        /\ temp'[t] - temp[t] = -temp[t] /\ temp[t] \in Int
    BY <1>0, <1>1 DEF TriggerTypeOK
  <2> QED
    BY <1>0, <1>1, <2>1, <2>2 DEF Balanced, TriggerTypeOK
<1> QED
  BY <1>0, <1>1, <1>2, <1>3, <1>4 DEF TriggerInv, TriggerTypeOK

\* The other steps of a thread, and those of the collector.
LEMMA InvLook ==
  ASSUME TriggerInv, NEW t \in Threads, Look(t)
  PROVE  TriggerInv'
<1>0. TriggerTypeOK /\ OnlyGivers /\ t \in Senders
  BY DEF TriggerInv, Senders
<1>1. /\ pc[t] = "look" /\ UNCHANGED <<merge, event, ending, exitFlag, combined, singleEvent>>
      /\ \E place \in Places : place # "giveback" /\ Goto(t, place)
  <2>1. "take" \in Places
    BY DEF Places
  <2> QED
    BY <2>1, BackIsPlace DEF Look
<1>2. pc' \in [Senders -> Places] /\ OnlyGivers'
  BY <1>0, <1>1, GoesOn DEF merge
<1> QED
  BY <1>0, <1>1, <1>2, KeepsBytes DEF TriggerTypeOK, event

LEMMA InvSend ==
  ASSUME TriggerInv, NEW t \in Senders, Send(t)
  PROVE  TriggerInv'
<1>0. TriggerTypeOK /\ OnlyGivers
  BY DEF TriggerInv
<1>1. /\ pc[t] = "send" /\ UNCHANGED <<merge, collector, ending, exitFlag, combined, singleEvent>>
      /\ pending' = TRUE /\ Goto(t, "notify") /\ "notify" \in Places
  BY DEF Send, Places
<1>2. pc' \in [Senders -> Places] /\ OnlyGivers'
  BY <1>0, <1>1, GoesOn DEF merge
<1>3. pending' \in BOOLEAN
  BY <1>1
<1> QED
  BY <1>0, <1>1, <1>2, <1>3, KeepsBytes DEF TriggerTypeOK

LEMMA InvNotify ==
  ASSUME TriggerInv, NEW t \in Senders, Notify(t)
  PROVE  TriggerInv'
<1>0. TriggerTypeOK /\ OnlyGivers
  BY DEF TriggerInv
<1>1. /\ pc[t] = "notify" /\ UNCHANGED <<merge, pending, ending, exitFlag, combined, singleEvent>>
      /\ collector' \in {collector, "lock"}
      /\ \E place \in Places : place # "giveback" /\ Goto(t, place)
  <2>1. "join" \in Places
    BY DEF Places
  <2> QED
    BY <2>1, BackIsPlace DEF Notify
<1>2. pc' \in [Senders -> Places] /\ OnlyGivers'
  BY <1>0, <1>1, GoesOn DEF merge
<1>3. collector' \in Stations
  BY <1>0, <1>1 DEF TriggerTypeOK, Stations
<1> QED
  BY <1>0, <1>1, <1>2, <1>3, KeepsBytes DEF TriggerTypeOK

LEMMA InvMain ==
  ASSUME TriggerInv, RaiseExit \/ Join
  PROVE  TriggerInv'
<1>0. TriggerTypeOK /\ OnlyGivers /\ Main \in Senders
  BY DEF TriggerInv, Senders
<1>1. /\ UNCHANGED <<merge, event, ending, combined, singleEvent>>
      /\ exitFlag' = TRUE \/ exitFlag' = exitFlag
      /\ pc[Main] # "giveback"
      /\ \E place \in Places : place # "giveback" /\ Goto(Main, place)
  <2>1. "send" \in Places /\ "gone" \in Places
    BY DEF Places
  <2> QED
    BY <2>1 DEF RaiseExit, Join
<1>2. pc' \in [Senders -> Places] /\ OnlyGivers'
  BY <1>0, <1>1, GoesOn DEF merge
<1>3. exitFlag' \in BOOLEAN
  BY <1>0, <1>1 DEF TriggerTypeOK
<1> QED
  BY <1>0, <1>1, <1>2, <1>3, KeepsBytes DEF TriggerTypeOK, event

LEMMA InvCollector ==
  ASSUME TriggerInv, TestExit \/ Lock \/ TestEvent \/ Sleep \/ SpuriousWake \/ Collect
  PROVE  TriggerInv'
<1>0. TriggerTypeOK /\ OnlyGivers
  BY DEF TriggerInv
<1>1. /\ UNCHANGED <<merge, pc, ending, exitFlag, combined, singleEvent>>
      /\ collector' \in Stations /\ (pending' = FALSE \/ pending' = pending)
  BY DEF TestExit, Lock, TestEvent, Sleep, SpuriousWake, Collect, CollectorMove, Stations
<1>2. pending' \in BOOLEAN
  BY <1>0, <1>1 DEF TriggerTypeOK
<1>3. pc' \in [Senders -> Places] /\ OnlyGivers'
  BY <1>0, <1>1 DEF TriggerTypeOK, OnlyGivers, merge
<1> QED
  BY <1>0, <1>1, <1>2, <1>3, KeepsBytes DEF TriggerTypeOK

LEMMA InvSafePoint ==
  ASSUME TriggerInv, SafePoint
  PROVE  TriggerInv'
<1>0. TriggerTypeOK /\ OnlyGivers
  BY DEF TriggerInv
<1>1. UNCHANGED <<merge, event, pc, ending, exitFlag, combined>> /\ singleEvent' = FALSE
  BY DEF SafePoint
<1>2. singleEvent' \in BOOLEAN /\ pc' \in [Senders -> Places] /\ OnlyGivers'
  BY <1>0, <1>1 DEF TriggerTypeOK, OnlyGivers, merge
<1> QED
  BY <1>0, <1>1, <1>2, KeepsBytes DEF TriggerTypeOK, event

LEMMA InvNoTrigger ==
  ASSUME TriggerInv, UNCHANGED ctVars
  PROVE  TriggerInv'
<1>0. TriggerTypeOK /\ OnlyGivers
  BY DEF TriggerInv
<1>1. UNCHANGED <<merge, event, pc, ending, exitFlag, combined, singleEvent>>
  BY DEF ctVars
<1>2. pc' \in [Senders -> Places] /\ OnlyGivers'
  BY <1>0, <1>1 DEF TriggerTypeOK, OnlyGivers, merge
<1> QED
  BY <1>0, <1>1, <1>2, KeepsBytes DEF TriggerTypeOK, event

-----------------------------------------------------------------------------
(* The theorems *)

LEMMA TriggerStep ==
  ASSUME TriggerInv, SingleInv, [Next]_vars
  PROVE  TriggerInv' /\ SingleInv'
<1>1. ASSUME NEW t \in Threads, Allocate(t) PROVE TriggerInv' /\ SingleInv'
  <2>1. PICK a \in Sizes : LogAlloc(t, a)
    BY <1>1 DEF Allocate
  <2> QED
    BY <1>1, <2>1, InvLogAlloc, SingleStays DEF Allocate, Going
<1>2. ASSUME NEW t \in Threads, MergeStep(t) PROVE TriggerInv' /\ SingleInv'
  BY <1>2, InvAdd, InvLook, InvTake, InvGiveBack, SingleStays DEF MergeStep, Going
<1>3. ASSUME NEW t \in Threads, Going, EndThread(t) \/ StartThread(t)
      PROVE  TriggerInv' /\ SingleInv'
  BY <1>3, InvEndThread, InvStartThread, SingleStays DEF Going
<1>4. ASSUME NEW t \in Senders, SendStep(t) \/ NotifyStep(t) PROVE TriggerInv' /\ SingleInv'
  BY <1>4, InvSend, InvNotify, SingleStays DEF SendStep, NotifyStep, Going
<1>5. CASE CollectorStep
  BY <1>5, InvCollector, SingleStays DEF CollectorStep, Going
<1>6. CASE JoinStep
  BY <1>6, InvMain, SingleStays DEF JoinStep, Going
<1>7. CASE Going /\ (SpuriousWake \/ RaiseExit)
  BY <1>7, InvCollector, InvMain, SingleStays DEF Going
<1>8. CASE SafePoint
  BY <1>8, InvSafePoint, SingleOneCollect DEF SafePoint
<1>9. CASE Collecting
  BY <1>9, InvNoTrigger, SingleCollectStep DEF Collecting
<1>10. CASE Opting
  BY <1>10, InvNoTrigger, SingleOptStep DEF Opting
<1>11. CASE UNCHANGED vars
  BY <1>11, InvNoTrigger, SingleStays DEF vars
<1> QED
  BY <1>1, <1>2, <1>3, <1>4, <1>5, <1>6, <1>7, <1>8, <1>9, <1>10, <1>11 DEF Next

LEMMA TriggerInductive == Spec => [](TriggerInv /\ SingleInv)
<1>1. Init => TriggerInv /\ SingleInv
  BY TriggerBegins, SingleBegins DEF Init
<1>2. TriggerInv /\ SingleInv /\ [Next]_vars => (TriggerInv /\ SingleInv)'
  BY TriggerStep
<1> QED
  BY <1>1, <1>2, PTL DEF Spec

\* Whatever the threads do between the exchange of alloc_merge and the addition that undoes
\* it, and however many there are: Allocated, the threads' own counts and what is on its way
\* back add up to what has been allocated and not answered by an event (168-184).
THEOREM NoByteIsLost == Spec => []BytesAreCounted
<1>1. TriggerInv /\ SingleInv => BytesAreCounted
  <2> SUFFICES ASSUME TriggerInv, SingleInv PROVE BytesAreCounted
    OBVIOUS
  <2>1. CtTypeOK
    BY DEF TriggerInv, TriggerTypeOK, SingleInv, SingleTypeOK, CtTypeOK, Places, Stations
  <2>2. ~truncated => owed = allocated + MapThenSumSet(LAMBDA t : threadAllocated[t] + temp[t], Threads)
    BY DEF TriggerInv, Balanced, PairSum
  <2> QED
    BY <2>1, <2>2 DEF BytesAreCounted
<1> QED
  BY <1>1, TriggerInductive, PTL

\* In single-thread mode the thread takes its own barrier: where it is in one_collect, it has
\* that of the phase, or while the counter is awaited that of the one before, and the
\* counters, which wrap, come back to what they were (402-513).
THEOREM SingleThreadAgrees == Spec => []SingleAgrees
<1>1. SingleInv => SingleAgrees
  <2> SUFFICES ASSUME SingleInv, combined, ~unbalanced PROVE
        /\ ThreadState = IF NotMutatingCount > 0 THEN "NOT_MUTATING"
                         ELSE IF stage = "gather" THEN Pred(phase)
                         ELSE phase
        /\ stage # "gather" => \A p \in Phases :
             counter[p] = Count(0, IF p = "NOT_COLLECTING" /\ NotMutatingCount > 0 THEN -1 ELSE 0)
    BY DEF SingleAgrees
  <2>1. HasBarrier /\ Counts
    BY DEF SingleInv
  <2> QED
    BY <2>1 DEF HasBarrier, Counts
<1> QED
  BY <1>1, TriggerInductive, PTL
=============================================================================
