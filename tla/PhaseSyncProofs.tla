--------------------------- MODULE PhaseSyncProofs ---------------------------
(***************************************************************************)
(* Proofs about PhaseSync, for any number of threads the counters can      *)
(* carry, any nesting, opt-outs anywhere and an exit at any time.           *)
(***************************************************************************)
EXTENDS PhaseSync, FiniteSetTheorems, TLAPS

-----------------------------------------------------------------------------
(* The cycle of phases and the counters' arithmetic. *)

\* The phases are a cycle of three, and NOT_MUTATING is none of them (GCState.h 136).
LEMMA PhaseCycle ==
  ASSUME NEW p \in Phases
  PROVE  /\ Succ(p) \in Phases
         /\ Pred(p) \in Phases
         /\ Pred(Succ(p)) = p
         /\ Succ(Pred(p)) = p
         /\ Succ(Succ(p)) = Pred(p)
         /\ Pred(Pred(p)) = Succ(p)
         /\ Succ(p) # p
         /\ Pred(p) # p
         /\ Succ(p) # Pred(p)
         /\ p # "NOT_MUTATING"
         /\ Phases = {p, Succ(p), Pred(p)}
BY DEF Phases, Succ, Pred

\* A uint8_t stays one.
LEMMA CounterRange ==
  ASSUME NEW c \in 0 .. CounterMod - 1
  PROVE  /\ Inc(c) \in 0 .. CounterMod - 1
         /\ Dec(c) \in 0 .. CounterMod - 1
BY CounterAssumption DEF Inc, Dec

-----------------------------------------------------------------------------
(* Type correctness. *)

\* A thread inside safe_point's switch has a phase of its own (GCState.cpp 543-546:
\* the NOT_MUTATING case returns), so counting out of it is defined.
InSwitch == \A t \in Threads : pc[t] = "count" => ThreadState[t] \in Phases

TypeInv == TypeOK /\ InSwitch

LEMMA TypeInit == Init => TypeInv
<1> SUFFICES ASSUME Init PROVE TypeInv
  OBVIOUS
<1>1. counter \in [Phases -> 0 .. CounterMod - 1] /\ notMutating \in 0 .. CounterMod - 1
  BY CounterAssumption DEF Init
<1>2. NotMutatingCount \in [Threads -> 0 .. MaxNesting]
  BY NestingAssumption DEF Init
<1>3. ThreadState \in [Threads -> ThreadStates] /\ pc \in [Threads -> {"off", "run", "count", "wait"}]
  BY DEF Init, ThreadStates
<1>4. phase \in Phases
  BY DEF Init, Phases
<1>5. InSwitch
  BY DEF Init, InSwitch
<1> QED
  BY <1>1, <1>2, <1>3, <1>4, <1>5 DEF Init, TypeInv, TypeOK

LEMMA TypeEnter ==
  ASSUME TypeInv, NEW t \in Threads, EnterPhase(t)
  PROVE  /\ counter' \in [Phases -> 0 .. CounterMod - 1]
         /\ ThreadState' \in [Threads -> ThreadStates]
         /\ pc' \in [Threads -> {"off", "run", "count", "wait"}]
         /\ InSwitch'
<1>1. Inc(counter[phase]) \in 0 .. CounterMod - 1
  BY CounterRange DEF TypeInv, TypeOK
<1> QED
  BY <1>1 DEF TypeInv, TypeOK, InSwitch, EnterPhase, ThreadStates

LEMMA TypeLeave ==
  ASSUME TypeInv, NEW t \in Threads, LeavePhase(t)
  PROVE  /\ counter' \in [Phases -> 0 .. CounterMod - 1]
         /\ notMutating' \in 0 .. CounterMod - 1
         /\ ThreadState' \in [Threads -> ThreadStates]
         /\ uncounted' \subseteq Threads
<1>1. /\ Dec(counter[phase]) \in 0 .. CounterMod - 1
      /\ Inc(notMutating) \in 0 .. CounterMod - 1
  BY CounterRange DEF TypeInv, TypeOK
<1> QED
  BY <1>1 DEF TypeInv, TypeOK, LeavePhase, ThreadStates

LEMMA TypeThread ==
  ASSUME TypeInv, NEW t \in Threads, ThreadStep(t)
  PROVE  TypeInv'
<1> USE DEF TypeInv, TypeOK
<1>1. CASE InitThread(t)
  <2>1. EnterPhase(t)
    BY <1>1 DEF InitThread
  <2> QED
    BY <1>1, <2>1, TypeEnter, NestingAssumption DEF InitThread, collector
<1>2. CASE ExitThread(t)
  <2>1. CASE NotMutatingCount[t] = 0
    <3>1. LeavePhase(t)
      BY <1>2, <2>1 DEF ExitThread
    <3>2. InSwitch'
      BY <1>2, <3>1 DEF ExitThread, LeavePhase, InSwitch
    <3> QED
      BY <1>2, <3>1, <3>2, TypeLeave, NestingAssumption DEF ExitThread, collector
  <2>2. CASE NotMutatingCount[t] # 0
    BY <1>2, <2>2, NestingAssumption DEF ExitThread, collector, InSwitch
  <2> QED
    BY <2>1, <2>2
<1>3. CASE SafePoint(t)
  BY <1>3 DEF SafePoint, word, collector, InSwitch, ThreadStates
<1>4. CASE CountOut(t)
  <2> DEFINE from == ThreadState[t]
             to   == Succ(from)
             c    == [counter EXCEPT ![from] = Dec(@), ![to] = Inc(@)]
  <2>1. from \in Phases /\ to \in Phases /\ to # from
    BY <1>4, PhaseCycle DEF CountOut, InSwitch
  <2>2. Dec(counter[from]) \in 0 .. CounterMod - 1 /\ Inc(counter[to]) \in 0 .. CounterMod - 1
    BY <2>1, CounterRange
  <2>3. c \in [Phases -> 0 .. CounterMod - 1]
    BY <2>1, <2>2
  <2>4. /\ counter' = c
        /\ ThreadState' = [ThreadState EXCEPT ![t] = to]
        /\ pc' = [pc EXCEPT ![t] = IF Waits(to, c) THEN "wait" ELSE "run"]
        /\ UNCHANGED <<phase, notMutating, NotMutatingCount, collector,
                       exit_program_flag, uncounted>>
    BY <1>4 DEF CountOut
  <2> HIDE DEF c
  <2>5. to \in ThreadStates
    BY <2>1 DEF ThreadStates
  <2> QED
    BY <2>3, <2>4, <2>5 DEF collector, InSwitch
<1>5. CASE AbandonSafePoint(t)
  BY <1>5 DEF AbandonSafePoint, word, collector, InSwitch
<1>6. CASE StopWaiting(t)
  BY <1>6 DEF StopWaiting, word, collector, InSwitch
<1>7. CASE LeaveMutation(t)
  <2>1. NotMutatingCount' \in [Threads -> 0 .. MaxNesting]
    BY <1>7, NestingAssumption DEF LeaveMutation
  <2>2. CASE NotMutatingCount[t] = 0
    <3>1. LeavePhase(t)
      BY <1>7, <2>2 DEF LeaveMutation
    <3>2. InSwitch'
      BY <1>7, <3>1 DEF LeaveMutation, LeavePhase, InSwitch
    <3> QED
      BY <1>7, <2>1, <3>1, <3>2, TypeLeave DEF LeaveMutation, collector
  <2>3. CASE NotMutatingCount[t] # 0
    BY <1>7, <2>1, <2>3 DEF LeaveMutation, collector, InSwitch
  <2> QED
    BY <2>2, <2>3
<1>8. CASE EnterMutation(t)
  <2>1. NotMutatingCount' \in [Threads -> 0 .. MaxNesting]
    BY <1>8, NestingAssumption DEF EnterMutation
  <2>2. CASE NotMutatingCount[t] = 1
    <3>1. EnterPhase(t) /\ notMutating' = Dec(notMutating)
      BY <1>8, <2>2 DEF EnterMutation
    <3>2. notMutating' \in 0 .. CounterMod - 1
      BY <3>1, CounterRange
    <3> QED
      BY <1>8, <2>1, <3>1, <3>2, TypeEnter DEF EnterMutation, collector
  <2>3. CASE NotMutatingCount[t] # 1
    BY <1>8, <2>1, <2>3 DEF EnterMutation, collector, InSwitch
  <2> QED
    BY <2>2, <2>3
<1> QED
  BY <1>1, <1>2, <1>3, <1>4, <1>5, <1>6, <1>7, <1>8 DEF ThreadStep

LEMMA TypeCollector ==
  ASSUME TypeInv, CollectorStep \/ ReceiveEvent \/ ExitProgram
  PROVE  TypeInv'
<1> USE DEF TypeInv, TypeOK, InSwitch
<1>1. CASE ReceiveEvent
  BY <1>1 DEF ReceiveEvent, word, locals
<1>2. CASE Announce
  <2>1. Inc(counter[phase]) \in 0 .. CounterMod - 1 /\ Succ(phase) \in Phases
    BY CounterRange, PhaseCycle
  <2> QED
    BY <1>2, <2>1 DEF Announce, locals
<1>3. CASE Gather
  BY <1>3 DEF Gather, word, locals
<1>4. CASE Release
  <2>1. Pred(phase) \in Phases /\ Dec(counter[Pred(phase)]) \in 0 .. CounterMod - 1
    BY CounterRange, PhaseCycle
  <2> QED
    BY <1>4, <2>1 DEF Release, locals
<1>5. CASE FinishWork
  BY <1>5 DEF FinishWork, word, locals
<1>6. CASE CollectorExit
  BY <1>6 DEF CollectorExit, word, locals
<1>7. CASE ExitProgram
  BY <1>7 DEF ExitProgram, word, locals, collector
<1> QED
  BY <1>1, <1>2, <1>3, <1>4, <1>5, <1>6, <1>7 DEF CollectorStep

LEMMA TypeStep == TypeInv /\ [Next]_vars => TypeInv'
<1> SUFFICES ASSUME TypeInv, [Next]_vars PROVE TypeInv'
  OBVIOUS
<1>1. CASE UNCHANGED vars
  BY <1>1 DEF vars, TypeInv, TypeOK, InSwitch
<1>2. CASE Terminated
  BY <1>2 DEF Terminated, vars, TypeInv, TypeOK, InSwitch
<1>3. CASE CollectorStep \/ ReceiveEvent \/ ExitProgram
  BY <1>3, TypeCollector
<1>4. ASSUME NEW t \in Threads, ThreadStep(t) PROVE TypeInv'
  BY <1>4, TypeThread
<1> QED
  BY <1>1, <1>2, <1>3, <1>4 DEF Next

\* The counters of the state word stay within their uint8_t, phases and modes stay
\* meaningful, and no thread counts out of a phase it does not have (GCState.h 144-151).
THEOREM TypeCorrect == Spec => []TypeOK
<1>1. TypeInv => TypeOK
  BY DEF TypeInv
<1> QED
  BY <1>1, TypeInit, TypeStep, PTL DEF Spec
-----------------------------------------------------------------------------
(* Counting threads. *)

LEMMA SubsetCardinality ==
  ASSUME CapacityOK, NEW S \in SUBSET Threads
  PROVE  /\ IsFiniteSet(S)
         /\ Cardinality(S) \in Nat
         /\ Cardinality(S) < CounterMod
         /\ Cardinality(S) + 1 < CounterMod
         /\ \A t \in Threads \ S : /\ Cardinality(S \cup {t}) = Cardinality(S) + 1
                                   /\ Cardinality(S) + 1 < CounterMod
         /\ \A t \in S : /\ Cardinality(S \ {t}) = Cardinality(S) - 1
                         /\ Cardinality(S) > 0
         /\ Cardinality(S) = 0 <=> S = {}
<1> DEFINE N == Cardinality(Threads)
<1>1. N \in Nat /\ N + 1 < CounterMod
  BY ThreadsAssumption, FS_CardinalityType, CounterAssumption DEF CapacityOK
<1>2. \A T \in SUBSET Threads : /\ IsFiniteSet(T)
                                /\ Cardinality(T) \in Nat
                                /\ Cardinality(T) <= N
  BY ThreadsAssumption, FS_Subset, FS_CardinalityType
<1>3. \A t \in Threads \ S : Cardinality(S \cup {t}) = Cardinality(S) + 1
  BY <1>2, FS_AddElement
<1>4. \A t \in S : Cardinality(S \ {t}) = Cardinality(S) - 1
  BY <1>2, FS_RemoveElement
<1>5. Cardinality(S) = 0 <=> S = {}
  BY <1>2, FS_EmptySet
<1> HIDE DEF N
<1>6. \A t \in Threads \ S : Cardinality(S) + 1 < CounterMod
  <2> SUFFICES ASSUME NEW t \in Threads \ S PROVE Cardinality(S) + 1 < CounterMod
    OBVIOUS
  <2>1. S \cup {t} \in SUBSET Threads
    OBVIOUS
  <2>2. Cardinality(S) + 1 <= N
    BY <1>2, <1>3, <2>1
  <2> QED
    BY <1>1, <1>2, <2>2, CounterAssumption
<1>7. \A t \in S : Cardinality(S) > 0
  BY <1>2, <1>5
<1>8. Cardinality(S) < CounterMod /\ Cardinality(S) + 1 < CounterMod
  BY <1>1, <1>2, CounterAssumption
<1> QED
  BY <1>2, <1>3, <1>4, <1>5, <1>6, <1>7, <1>8

\* One thread's write barrier changes, and with it the sets of threads by phase.
LEMMA InPhaseMove ==
  ASSUME TypeOK, NEW t \in Threads, NEW q \in ThreadStates, phase' = phase,
         ThreadState' = [ThreadState EXCEPT ![t] = q]
  PROVE  /\ InPhase(phase)' = IF phase = q THEN InPhase(phase) \cup {t}
                                           ELSE InPhase(phase) \ {t}
         /\ InPhase(Pred(phase))' = IF Pred(phase) = q THEN InPhase(Pred(phase)) \cup {t}
                                                       ELSE InPhase(Pred(phase)) \ {t}
<1>1. \A u \in Threads : ThreadState'[u] = IF u = t THEN q ELSE ThreadState[u]
  BY DEF TypeOK
<1> QED
  BY <1>1 DEF InPhase

-----------------------------------------------------------------------------
(* What the inductive invariant says of a state in which the program runs. *)

Steady == CapacityOK /\ TypeInv /\ HandshakeInv /\ ~exit_program_flag

\* A thread on its way into the announced phase, or entering it, is held as long as
\* the collector has not released the threads.
LEMMA GateClosed ==
  ASSUME Steady, Changing
  PROVE  /\ Hold = 1
         /\ \A t \in Threads :
              ThreadState[t] # Pred(phase) =>
                /\ counter[Pred(phase)] = Cardinality(Owing) + 1
                /\ counter[Pred(phase)] > 0
<1>1. Hold = 1
  BY DEF Steady, HandshakeInv, HoldOK, Hold
<1> SUFFICES ASSUME NEW t \in Threads, ThreadState[t] # Pred(phase)
             PROVE  counter[Pred(phase)] = Cardinality(Owing) + 1 /\ counter[Pred(phase)] > 0
  BY <1>1
<1>2. Owing \in SUBSET Threads /\ CapacityOK
  BY DEF Steady, TypeInv, TypeOK, Owing, InPhase
<1>3. Cardinality(Owing) \in Nat /\ Cardinality(Owing) + 1 < CounterMod
  <2>1. CASE t \in uncounted
    BY <1>2, <2>1, SubsetCardinality DEF Steady, HandshakeInv, HoldOK
  <2>2. CASE t \notin uncounted
    <3>1. t \in Threads \ Owing
      BY <2>2 DEF Owing, InPhase
    <3> QED
      BY <1>2, <3>1, SubsetCardinality
  <2> QED
    BY <2>1, <2>2
<1>4. counter[Pred(phase)] = Wrap(Cardinality(Owing) + 1)
  BY <1>1 DEF Steady, HandshakeInv, CountersExact
<1> QED
  BY <1>3, <1>4, CounterAssumption DEF Wrap

\* While no phase change is on, nobody owes the collector anything.
LEMMA GateOpen ==
  ASSUME Steady, ~Changing
  PROVE  /\ Hold = 0
         /\ uncounted = {}
         /\ Owing = {}
         /\ counter[Pred(phase)] = 0
         /\ \A t \in Threads : ThreadState[t] \in {phase, "NOT_MUTATING"} /\ pc[t] # "count"
<1>1. Hold = 0 /\ uncounted = {}
  BY DEF Steady, HandshakeInv, HoldOK, Hold, Changing
<1>2. phase \in Phases
  BY DEF Steady, TypeInv, TypeOK
<1>3. \A t \in Threads : ThreadState[t] \in {phase, "NOT_MUTATING"} /\ pc[t] # "count"
  BY <1>2, PhaseCycle DEF Steady, HandshakeInv, Abreast, Changing
<1>4. Owing = {}
  BY <1>1, <1>2, <1>3, PhaseCycle DEF Owing, InPhase
<1>5. Cardinality(Owing) = 0
  BY <1>4, FS_EmptySet
<1>6. counter[Pred(phase)] = Wrap(0 + 0)
  BY <1>1, <1>5 DEF Steady, HandshakeInv, CountersExact
<1> QED
  BY <1>1, <1>3, <1>4, <1>6, CounterAssumption DEF Wrap

\* When the collector sees itself alone in the old phase, it is.
LEMMA GatheredMeansNobody ==
  ASSUME Steady, gc = "gather", Gathered
  PROVE  Owing = {}
<1>1. Owing \in SUBSET Threads /\ CapacityOK
  BY DEF Steady, TypeInv, TypeOK, Owing, InPhase
<1>2. counter[Pred(phase)] = Wrap(Cardinality(Owing) + 1)
  BY GateClosed DEF Steady, HandshakeInv, CountersExact, Changing
<1>3. Cardinality(Owing) \in Nat /\ Wrap(Cardinality(Owing) + 1) = 1
  BY <1>1, <1>2, SubsetCardinality DEF Gathered
<1>4. Cardinality(Owing) = 0
  BY <1>3, CounterAssumption DEF Wrap
<1> QED
  BY <1>1, <1>4, SubsetCardinality

\* Nobody is a phase ahead, or two behind.
LEMMA NobodyAhead ==
  ASSUME Steady
  PROVE  InPhase(Succ(phase)) = {}
BY PhaseCycle DEF Steady, TypeInv, TypeOK, HandshakeInv, Abreast, InPhase
-----------------------------------------------------------------------------
(* The inductive invariant, action by action. *)

LEMMA InvInit == Init => HandshakeInv
<1> SUFFICES ASSUME Init PROVE HandshakeInv
  OBVIOUS
<1>1. Coherent
  BY DEF Init, Coherent
<1>2. Abreast
  BY DEF Init, Abreast, Changing
<1>3. HoldOK
  BY DEF Init, HoldOK, Changing
<1>4. phase \in Phases /\ \A p \in Phases : InPhase(p) = {} /\ counter[p] = 0
  BY DEF Init, Phases, InPhase
<1>5. Owing = {} /\ Hold = 0
  BY <1>4, PhaseCycle DEF Init, Owing, Hold, Changing
<1>6. Cardinality({}) = 0
  BY FS_EmptySet
<1>7. CountersExact
  BY <1>4, <1>5, <1>6, PhaseCycle, CounterAssumption DEF CountersExact, Wrap
<1> QED
  BY <1>1, <1>2, <1>3, <1>7 DEF HandshakeInv

\* A thread registers or opts in: it is counted into the announced phase, and held
\* exactly when a phase change is on.
LEMMA InvEnter ==
  ASSUME Steady, NEW t \in Threads, ThreadState[t] = "NOT_MUTATING", EnterPhase(t),
         NotMutatingCount' = [NotMutatingCount EXCEPT ![t] = 0],
         UNCHANGED <<phase, collector, exit_program_flag, uncounted>>
  PROVE  /\ HandshakeInv'
         /\ pc'[t] = IF Changing THEN "wait" ELSE "run"
<1> DEFINE c == [counter EXCEPT ![phase] = Inc(@)]
<1>1. /\ phase \in Phases /\ phase \in ThreadStates /\ TypeOK /\ CapacityOK
      /\ Pred(phase) \in Phases /\ Pred(phase) # phase
      /\ Succ(phase) \in Phases /\ Succ(phase) # phase
      /\ phase # "NOT_MUTATING" /\ Pred(phase) # "NOT_MUTATING"
  BY PhaseCycle DEF Steady, TypeInv, TypeOK, ThreadStates
<1>2. /\ counter' = c
      /\ ThreadState' = [ThreadState EXCEPT ![t] = phase]
      /\ pc' = [pc EXCEPT ![t] = IF Waits(phase, c) THEN "wait" ELSE "run"]
  BY DEF EnterPhase
<1>3. UNCHANGED <<phase, gc, released, exit_program_flag, uncounted>>
  BY DEF collector
<1>4. c[Pred(phase)] = counter[Pred(phase)] /\ c[Succ(phase)] = counter[Succ(phase)]
  BY <1>1 DEF TypeOK
<1>5. Waits(phase, c) <=> Changing
  BY <1>1, <1>4, GateOpen, GateClosed DEF Waits
<1>6. /\ InPhase(phase)' = InPhase(phase) \cup {t}
      /\ InPhase(Pred(phase))' = InPhase(Pred(phase))
      /\ t \notin InPhase(phase)
  BY <1>1, <1>2, <1>3, InPhaseMove DEF InPhase
<1>7. Owing' = Owing /\ Hold' = Hold
  BY <1>3, <1>6 DEF Owing, Hold, Changing
<1>8. Coherent'
  BY <1>1, <1>2, <1>3 DEF Coherent, Steady, HandshakeInv, TypeOK
<1>9. Abreast'
  BY <1>1, <1>2, <1>3, <1>5 DEF Abreast, Steady, HandshakeInv, TypeOK, Changing
<1>10. HoldOK'
  BY <1>3, <1>6, <1>7 DEF HoldOK, Steady, HandshakeInv, Changing
<1>11. CountersExact'
  <2>1. uncounted = {} => c[phase] = Cardinality(InPhase(phase)')
    <3> SUFFICES ASSUME uncounted = {} PROVE c[phase] = Cardinality(InPhase(phase) \cup {t})
      BY <1>6
    <3>1. InPhase(phase) \in SUBSET Threads /\ t \in Threads \ InPhase(phase)
      BY <1>6 DEF InPhase
    <3>2. /\ Cardinality(InPhase(phase) \cup {t}) = Cardinality(InPhase(phase)) + 1
          /\ Cardinality(InPhase(phase)) + 1 < CounterMod
          /\ Cardinality(InPhase(phase)) \in Nat
      BY <1>1, <3>1, SubsetCardinality
    <3>3. counter[phase] = Cardinality(InPhase(phase))
      BY DEF Steady, HandshakeInv, CountersExact
    <3>4. c[phase] = Inc(counter[phase])
      BY <1>1 DEF TypeOK
    <3> QED
      BY <3>2, <3>3, <3>4, CounterAssumption DEF Inc
  <2>2. /\ counter[Pred(phase)] = Wrap(Cardinality(Owing) + Hold)
        /\ counter[Succ(phase)] = 0
    BY DEF Steady, HandshakeInv, CountersExact
  <2> QED
    BY <1>2, <1>3, <1>4, <1>7, <2>1, <2>2 DEF CountersExact
<1> QED
  BY <1>2, <1>5, <1>8, <1>9, <1>10, <1>11 DEF HandshakeInv, Steady, TypeInv, TypeOK

\* A thread opts out or ends.  At a border it stays owing in the counters, so the
\* threads that wait are held all the longer, and never let go too early.
LEMMA InvLeave ==
  ASSUME Steady, NEW t \in Threads, ThreadState[t] # "NOT_MUTATING", pc[t] = "run",
         LeavePhase(t),
         NEW n \in {0, 1}, NotMutatingCount' = [NotMutatingCount EXCEPT ![t] = n],
         NEW x \in {"run", "off"}, pc' = [pc EXCEPT ![t] = x], x = "run" <=> n = 1,
         UNCHANGED <<phase, collector, exit_program_flag>>
  PROVE  HandshakeInv'
<1>1. /\ phase \in Phases /\ TypeOK /\ CapacityOK
      /\ Pred(phase) \in Phases /\ Pred(phase) # phase
      /\ Succ(phase) \in Phases /\ Succ(phase) # phase
      /\ phase # "NOT_MUTATING" /\ Pred(phase) # "NOT_MUTATING"
      /\ "NOT_MUTATING" \in ThreadStates
  BY PhaseCycle DEF Steady, TypeInv, TypeOK, ThreadStates
<1>2. /\ counter' = [counter EXCEPT ![phase] = Dec(@)]
      /\ ThreadState' = [ThreadState EXCEPT ![t] = "NOT_MUTATING"]
      /\ uncounted' = IF ThreadState[t] = phase THEN uncounted ELSE uncounted \cup {t}
  BY DEF LeavePhase
<1>3. UNCHANGED <<phase, gc, released, exit_program_flag>>
  BY DEF collector
<1>4. /\ InPhase(phase)' = InPhase(phase) \ {t}
      /\ InPhase(Pred(phase))' = InPhase(Pred(phase)) \ {t}
  BY <1>1, <1>2, <1>3, InPhaseMove DEF InPhase
<1>5. Coherent'
  BY <1>2 DEF Coherent, Steady, HandshakeInv, TypeInv, TypeOK
<1>6. Abreast'
  BY <1>1, <1>2, <1>3 DEF Abreast, Steady, HandshakeInv, TypeOK, Changing
<1>7. /\ counter'[Pred(phase)] = counter[Pred(phase)]
      /\ counter'[Succ(phase)] = counter[Succ(phase)]
      /\ counter'[phase] = Dec(counter[phase])
  BY <1>1, <1>2 DEF TypeOK
<1>8. /\ counter[Pred(phase)] = Wrap(Cardinality(Owing) + Hold)
      /\ counter[Succ(phase)] = 0
      /\ uncounted = {} => counter[phase] = Cardinality(InPhase(phase))
  BY DEF Steady, HandshakeInv, CountersExact
<1>9. Hold' = Hold
  BY <1>3 DEF Hold, Changing
<1>10. CASE ThreadState[t] = phase
  <2>1. ~Changing /\ uncounted = {} /\ uncounted' = {}
    BY <1>2, <1>10, GateOpen DEF Steady, HandshakeInv, Abreast
  <2>2. Owing' = Owing
    BY <1>1, <1>3, <1>4, <1>10, <2>1 DEF Owing, InPhase
  <2>3. HoldOK'
    BY <1>3, <2>1, <2>2 DEF HoldOK, Steady, HandshakeInv, Changing
  <2>4. counter'[phase] = Cardinality(InPhase(phase)')
    <3>1. InPhase(phase) \in SUBSET Threads /\ t \in InPhase(phase)
      BY <1>10 DEF InPhase
    <3>2. /\ Cardinality(InPhase(phase) \ {t}) = Cardinality(InPhase(phase)) - 1
          /\ Cardinality(InPhase(phase)) > 0
      BY <1>1, <3>1, SubsetCardinality
    <3> QED
      BY <1>4, <1>7, <1>8, <2>1, <3>2 DEF Dec
  <2>5. CountersExact'
    BY <1>3, <1>7, <1>8, <1>9, <2>2, <2>4 DEF CountersExact
  <2> QED
    BY <1>5, <1>6, <2>3, <2>5 DEF HandshakeInv
<1>11. CASE ThreadState[t] # phase
  <2>1. /\ gc = "gather" /\ ThreadState[t] = Pred(phase)
        /\ uncounted' = uncounted \cup {t}
    BY <1>2, <1>11 DEF Steady, HandshakeInv, Abreast
  <2>2. Owing' = Owing
    BY <1>3, <1>4, <2>1 DEF Owing, InPhase
  <2>3. HoldOK'
    BY <1>3, <1>4, <2>1, <2>2 DEF HoldOK, Steady, HandshakeInv, Changing
  <2>4. CountersExact'
    BY <1>3, <1>7, <1>8, <1>9, <2>1, <2>2 DEF CountersExact
  <2> QED
    BY <1>5, <1>6, <2>3, <2>4 DEF HandshakeInv
<1> QED
  BY <1>10, <1>11

\* safe_point acknowledges: one fewer in the old phase, one more in the new.
LEMMA InvCountOut ==
  ASSUME Steady, NEW t \in Threads, CountOut(t)
  PROVE  /\ HandshakeInv'
         /\ ThreadState[t] = Pred(phase) /\ Changing
         /\ ThreadState' = [ThreadState EXCEPT ![t] = phase]
         /\ pc' = [pc EXCEPT ![t] = "wait"]
<1> DEFINE old == Pred(phase)
           c   == [counter EXCEPT ![old] = Dec(@), ![phase] = Inc(@)]
<1>1. /\ phase \in Phases /\ phase \in ThreadStates /\ TypeOK /\ CapacityOK
      /\ old \in Phases /\ old # phase /\ Succ(old) = phase
      /\ Succ(phase) \in Phases /\ Succ(phase) # phase /\ Succ(phase) # old
      /\ phase # "NOT_MUTATING" /\ old # "NOT_MUTATING"
  BY PhaseCycle DEF Steady, TypeInv, TypeOK, ThreadStates
<1>2. ThreadState[t] = old /\ gc = "gather" /\ Changing /\ pc[t] = "count"
  BY <1>1 DEF CountOut, Steady, HandshakeInv, Abreast, Changing
<1>3. /\ counter' = c
      /\ ThreadState' = [ThreadState EXCEPT ![t] = phase]
      /\ pc' = [pc EXCEPT ![t] = IF Waits(phase, c) THEN "wait" ELSE "run"]
      /\ UNCHANGED <<phase, gc, released, NotMutatingCount, exit_program_flag, uncounted>>
  BY <1>1, <1>2 DEF CountOut, collector
<1>4. /\ c[old] = Dec(counter[old])
      /\ c[phase] = Inc(counter[phase])
      /\ c[Succ(phase)] = counter[Succ(phase)]
  BY <1>1 DEF TypeOK
<1> HIDE DEF c
<1>5. /\ InPhase(phase)' = InPhase(phase) \cup {t}
      /\ InPhase(old)' = InPhase(old) \ {t}
      /\ t \in Threads \ InPhase(phase)
      /\ InPhase(phase) \in SUBSET Threads
  BY <1>1, <1>2, <1>3, InPhaseMove DEF InPhase
<1>6. t \in Owing /\ t \notin uncounted /\ Owing' = Owing \ {t}
  BY <1>2, <1>3, <1>5 DEF Owing, InPhase, Steady, HandshakeInv, HoldOK
<1>7. Hold = 1 /\ Hold' = 1
  BY <1>2, <1>3, GateClosed DEF Hold, Changing
<1>8. c[old] = Cardinality(Owing')+ 1 /\ c[old] > 0
  <2>1. Owing \in SUBSET Threads
    BY DEF Steady, TypeInv, TypeOK, Owing, InPhase
  <2>2. /\ Cardinality(Owing) \in Nat /\ Cardinality(Owing) > 0
        /\ Cardinality(Owing) < CounterMod
        /\ Cardinality(Owing') = Cardinality(Owing) - 1
    BY <1>1, <1>6, <2>1, SubsetCardinality
  <2>3. counter[old] = Wrap(Cardinality(Owing) + 1)
    BY <1>7 DEF Steady, HandshakeInv, CountersExact
  <2> QED
    BY <1>4, <2>2, <2>3, CounterAssumption DEF Wrap, Dec
<1>9. pc' = [pc EXCEPT ![t] = "wait"]
  BY <1>1, <1>3, <1>8 DEF Waits
<1>10. Coherent'
  BY <1>1, <1>2, <1>3, <1>9 DEF Coherent, Steady, HandshakeInv, TypeOK
<1>11. Abreast'
  BY <1>1, <1>2, <1>3, <1>9 DEF Abreast, Steady, HandshakeInv, TypeOK, Changing
<1>12. HoldOK'
  BY <1>2, <1>3, <1>5, <1>6 DEF HoldOK, Steady, HandshakeInv, Changing
<1>13. CountersExact'
  <2>1. uncounted = {} => c[phase] = Cardinality(InPhase(phase)')
    <3>1. /\ Cardinality(InPhase(phase) \cup {t}) = Cardinality(InPhase(phase)) + 1
          /\ Cardinality(InPhase(phase)) + 1 < CounterMod
          /\ Cardinality(InPhase(phase)) \in Nat
      BY <1>1, <1>5, SubsetCardinality
    <3>2. uncounted = {} => counter[phase] = Cardinality(InPhase(phase))
      BY DEF Steady, HandshakeInv, CountersExact
    <3> QED
      BY <1>4, <1>5, <3>1, <3>2, CounterAssumption DEF Inc
  <2>2. c[old] = Wrap(Cardinality(Owing') + Hold')
    <3>1. Owing \in SUBSET Threads
      BY DEF Steady, TypeInv, TypeOK, Owing, InPhase
    <3>2. Cardinality(Owing') = Cardinality(Owing) - 1 /\ Cardinality(Owing) < CounterMod
          /\ Cardinality(Owing) \in Nat
      BY <1>1, <1>6, <3>1, SubsetCardinality
    <3> QED
      BY <1>7, <1>8, <3>2, CounterAssumption DEF Wrap
  <2>3. counter[Succ(phase)] = 0
    BY DEF Steady, HandshakeInv, CountersExact
  <2> QED
    BY <1>3, <1>4, <2>1, <2>2, <2>3 DEF CountersExact
<1> QED
  BY <1>2, <1>3, <1>9, <1>10, <1>11, <1>12, <1>13 DEF HandshakeInv
\* Steps that leave the word, the write barriers and the collector alone disturb
\* only the parts that speak of pc and of the nesting.
LEMMA InvLocal ==
  ASSUME Steady, Coherent', Abreast',
         UNCHANGED <<word, ThreadState, gc, released, exit_program_flag, uncounted>>
  PROVE  HandshakeInv'
<1>1. /\ UNCHANGED <<phase, counter, ThreadState, gc, released, exit_program_flag, uncounted>>
  BY DEF word
<1>2. /\ InPhase(phase)' = InPhase(phase)
      /\ InPhase(Pred(phase))' = InPhase(Pred(phase))
  BY <1>1 DEF InPhase
<1>3. Owing' = Owing /\ Hold' = Hold
  BY <1>1, <1>2 DEF Owing, Hold, Changing
<1>4. HoldOK'
  BY <1>1, <1>2, <1>3 DEF HoldOK, Steady, HandshakeInv, Changing
<1>5. CountersExact'
  BY <1>1, <1>2, <1>3 DEF CountersExact, Steady, HandshakeInv
<1> QED
  BY <1>4, <1>5 DEF HandshakeInv

LEMMA InvThread ==
  ASSUME Steady, NEW t \in Threads, ThreadStep(t)
  PROVE  HandshakeInv'
<1>0. /\ TypeOK /\ Coherent /\ Abreast /\ HoldOK /\ ~exit_program_flag
      /\ phase \in Phases /\ phase # "NOT_MUTATING" /\ Pred(phase) # "NOT_MUTATING"
      /\ Pred(phase) # phase
  BY PhaseCycle DEF Steady, TypeInv, TypeOK, HandshakeInv
<1>1. CASE InitThread(t)
  BY <1>0, <1>1, InvEnter DEF InitThread, Coherent
<1>2. CASE ExitThread(t)
  <2>1. CASE NotMutatingCount[t] = 0
    <3> DEFINE n == 0
               x == "off"
    <3>1. /\ LeavePhase(t) /\ pc[t] = "run" /\ ThreadState[t] # "NOT_MUTATING"
          /\ NotMutatingCount' = [NotMutatingCount EXCEPT ![t] = n]
          /\ pc' = [pc EXCEPT ![t] = x]
          /\ UNCHANGED <<phase, collector, exit_program_flag>>
      BY <1>0, <1>2, <2>1 DEF ExitThread, Coherent
    <3>2. n \in {0, 1} /\ x \in {"run", "off"} /\ (x = "run" <=> n = 1)
      OBVIOUS
    <3> HIDE DEF n, x
    <3> QED
      BY <3>1, <3>2, InvLeave
  <2>2. CASE NotMutatingCount[t] # 0
    <3>1. /\ pc' = [pc EXCEPT ![t] = "off"]
          /\ NotMutatingCount' = [NotMutatingCount EXCEPT ![t] = 0]
          /\ UNCHANGED <<word, ThreadState, gc, released, exit_program_flag, uncounted>>
      BY <1>2, <2>2 DEF ExitThread, word, collector
    <3>2. ThreadState[t] = "NOT_MUTATING"
      BY <1>0, <1>2, <2>2 DEF ExitThread, Coherent, TypeOK
    <3>3. Coherent'
      BY <1>0, <3>1, <3>2 DEF Coherent, TypeOK
    <3>4. Abreast'
      BY <1>0, <3>1, <3>2 DEF Abreast, TypeOK, Changing, word
    <3> QED
      BY <3>1, <3>3, <3>4, InvLocal
  <2> QED
    BY <2>1, <2>2
<1>3. CASE SafePoint(t)
  <2>1. /\ pc' = [pc EXCEPT ![t] = "count"]
        /\ UNCHANGED NotMutatingCount
        /\ UNCHANGED <<word, ThreadState, gc, released, exit_program_flag, uncounted>>
    BY <1>3 DEF SafePoint, collector
  <2>2. ThreadState[t] = Pred(phase) /\ pc[t] = "run"
    BY <1>0, <1>3 DEF SafePoint, Abreast
  <2>3. Coherent'
    BY <1>0, <2>1, <2>2 DEF Coherent, TypeOK
  <2>4. Abreast'
    BY <1>0, <2>1, <2>2 DEF Abreast, TypeOK, Changing, word
  <2> QED
    BY <2>1, <2>3, <2>4, InvLocal
<1>4. CASE CountOut(t)
  BY <1>4, InvCountOut
<1>5. CASE AbandonSafePoint(t)
  BY <1>0, <1>5 DEF AbandonSafePoint
<1>6. CASE StopWaiting(t)
  <2>1. /\ pc' = [pc EXCEPT ![t] = "run"]
        /\ UNCHANGED NotMutatingCount
        /\ UNCHANGED <<word, ThreadState, gc, released, exit_program_flag, uncounted>>
    BY <1>6 DEF StopWaiting, collector
  <2>2. pc[t] = "wait" /\ ~Waits(ThreadState[t], counter)
    BY <1>0, <1>6 DEF StopWaiting
  <2>3. ~(Changing /\ ThreadState[t] = phase)
    BY <1>0, <2>2, GateClosed DEF Waits
  <2>4. Coherent'
    BY <1>0, <2>1, <2>2 DEF Coherent, TypeOK
  <2>5. Abreast'
    BY <1>0, <2>1, <2>3 DEF Abreast, TypeOK, Changing, word
  <2> QED
    BY <2>1, <2>4, <2>5, InvLocal
<1>7. CASE LeaveMutation(t)
  <2>1. CASE NotMutatingCount[t] = 0
    <3> DEFINE n == 1
               x == "run"
    <3>1. /\ LeavePhase(t) /\ pc[t] = "run" /\ ThreadState[t] # "NOT_MUTATING"
          /\ NotMutatingCount' = [NotMutatingCount EXCEPT ![t] = n]
          /\ pc' = [pc EXCEPT ![t] = x]
          /\ UNCHANGED <<phase, collector, exit_program_flag>>
      BY <1>0, <1>7, <2>1 DEF LeaveMutation, Coherent, TypeOK
    <3>2. n \in {0, 1} /\ x \in {"run", "off"} /\ (x = "run" <=> n = 1)
      OBVIOUS
    <3> HIDE DEF n, x
    <3> QED
      BY <3>1, <3>2, InvLeave
  <2>2. CASE NotMutatingCount[t] # 0
    <3>1. /\ pc' = pc
          /\ NotMutatingCount' = [NotMutatingCount EXCEPT ![t] = @ + 1]
          /\ NotMutatingCount[t] > 0 /\ NotMutatingCount[t] + 1 > 0
          /\ UNCHANGED <<word, ThreadState, gc, released, exit_program_flag, uncounted>>
      BY <1>0, <1>7, <2>2, NestingAssumption DEF LeaveMutation, word, collector, TypeOK
    <3>2. Coherent'
      BY <1>0, <3>1 DEF Coherent, TypeOK
    <3>3. Abreast'
      BY <1>0, <3>1 DEF Abreast, Changing, word
    <3> QED
      BY <3>1, <3>2, <3>3, InvLocal
  <2> QED
    BY <2>1, <2>2
<1>8. CASE EnterMutation(t)
  <2>1. ThreadState[t] = "NOT_MUTATING"
    BY <1>0, <1>8 DEF EnterMutation, Coherent
  <2>2. CASE NotMutatingCount[t] = 1
    <3>1. /\ EnterPhase(t)
          /\ NotMutatingCount' = [NotMutatingCount EXCEPT ![t] = 0]
          /\ UNCHANGED <<phase, collector, exit_program_flag, uncounted>>
      BY <1>8, <2>2 DEF EnterMutation
    <3> QED
      BY <2>1, <3>1, InvEnter
  <2>3. CASE NotMutatingCount[t] # 1
    <3>1. /\ pc' = pc
          /\ NotMutatingCount' = [NotMutatingCount EXCEPT ![t] = @ - 1]
          /\ NotMutatingCount[t] > 1 /\ NotMutatingCount[t] - 1 > 0
          /\ UNCHANGED <<word, ThreadState, gc, released, exit_program_flag, uncounted>>
      BY <1>0, <1>8, <2>3, NestingAssumption DEF EnterMutation, word, collector, TypeOK
    <3>2. Coherent'
      BY <1>0, <3>1 DEF Coherent, TypeOK
    <3>3. Abreast'
      BY <1>0, <3>1 DEF Abreast, Changing, word
    <3> QED
      BY <3>1, <3>2, <3>3, InvLocal
  <2> QED
    BY <2>2, <2>3
<1> QED
  BY <1>1, <1>2, <1>3, <1>4, <1>5, <1>6, <1>7, <1>8 DEF ThreadStep

\* The collector announces a phase: everyone is now in the old phase, and so is it.
LEMMA InvAnnounce ==
  ASSUME Steady, Announce
  PROVE  HandshakeInv'
<1>1. /\ gc = "announce" /\ gc' = "gather" /\ phase' = Succ(phase) /\ released' = FALSE
      /\ counter' = [counter EXCEPT ![phase] = Inc(@)]
      /\ UNCHANGED <<ThreadState, NotMutatingCount, pc, exit_program_flag, uncounted>>
  BY DEF Announce, locals
<1>2. /\ phase \in Phases /\ TypeOK /\ CapacityOK
      /\ phase' \in Phases /\ phase' # phase /\ Pred(phase') = phase
      /\ Succ(phase') = Pred(phase) /\ Pred(phase) # phase /\ Pred(phase) # phase'
      /\ Pred(phase) \in Phases
      /\ phase' # "NOT_MUTATING" /\ phase # "NOT_MUTATING"
  BY <1>1, PhaseCycle DEF Steady, TypeInv, TypeOK
<1>3. /\ ~Changing /\ uncounted = {} /\ counter[Pred(phase)] = 0
      /\ \A t \in Threads : ThreadState[t] \in {phase, "NOT_MUTATING"} /\ pc[t] # "count"
  BY <1>1, GateOpen DEF Changing
<1>4. /\ counter'[phase] = Inc(counter[phase])
      /\ counter'[Pred(phase)] = 0
      /\ counter'[phase'] = counter[phase']
  BY <1>1, <1>2, <1>3 DEF TypeOK
<1>5. InPhase(Pred(phase))' = InPhase(phase)
  BY <1>1, <1>2 DEF InPhase
<1>6. Owing' = InPhase(phase) /\ Hold' = 1 /\ Changing'
  BY <1>1, <1>3, <1>5 DEF Owing, Hold, Changing
<1>7. Coherent'
  BY <1>1 DEF Coherent, Steady, HandshakeInv
<1>8. Abreast'
  BY <1>1, <1>2, <1>3 DEF Abreast, TypeOK
<1>9. HoldOK'
  BY <1>1, <1>3 DEF HoldOK
<1>10. counter'[phase] = Wrap(Cardinality(InPhase(phase)) + 1)
  <2>1. InPhase(phase) \in SUBSET Threads
    BY DEF InPhase
  <2>2. Cardinality(InPhase(phase)) \in Nat /\ Cardinality(InPhase(phase)) < CounterMod
    BY <1>2, <2>1, SubsetCardinality
  <2>3. counter[phase] = Cardinality(InPhase(phase))
    BY <1>3 DEF Steady, HandshakeInv, CountersExact
  <2> QED
    BY <1>4, <2>2, <2>3, CounterAssumption DEF Inc, Wrap
<1>11. counter'[phase'] = Cardinality(InPhase(phase)')
  <2>1. InPhase(phase)' = {} /\ Cardinality({}) = 0
    BY <1>1, <1>2, <1>3, FS_EmptySet DEF InPhase
  <2>2. counter[Succ(phase)] = 0
    BY DEF Steady, HandshakeInv, CountersExact
  <2> QED
    BY <1>1, <1>4, <2>1, <2>2
<1>12. CountersExact'
  BY <1>1, <1>2, <1>4, <1>6, <1>10, <1>11 DEF CountersExact
<1> QED
  BY <1>7, <1>8, <1>9, <1>12 DEF HandshakeInv

\* The collector sees itself alone in the old phase.
LEMMA InvGather ==
  ASSUME Steady, Gather
  PROVE  /\ HandshakeInv'
         /\ \A t \in Threads : ~Running(t)
<1>1. /\ gc = "gather" /\ gc' = "release" /\ Gathered
      /\ UNCHANGED <<phase, counter, ThreadState, NotMutatingCount, pc, released,
                     exit_program_flag, uncounted>>
  BY DEF Gather, word, locals
<1>2. Owing = {} /\ Owing' = {} /\ Hold' = Hold /\ Changing /\ Changing'
  BY <1>1, GatheredMeansNobody DEF Owing, InPhase, Hold, Changing
<1>3. /\ InPhase(phase)' = InPhase(phase)
      /\ InPhase(Pred(phase))' = InPhase(Pred(phase))
      /\ InPhase(Pred(phase)) = {} /\ uncounted = {}
  BY <1>1, <1>2 DEF InPhase, Owing
<1>4. \A t \in Threads : ThreadState[t] # Pred(phase)
  BY <1>3 DEF InPhase
<1>5. Coherent'
  BY <1>1 DEF Coherent, Steady, HandshakeInv
<1>6. Abreast'
  BY <1>1, <1>2, <1>4 DEF Abreast, Steady, HandshakeInv
<1>7. HoldOK'
  BY <1>1, <1>2, <1>3 DEF HoldOK, Steady, HandshakeInv
<1>8. CountersExact'
  BY <1>1, <1>2, <1>3 DEF CountersExact, Steady, HandshakeInv
<1>9. \A t \in Threads : ~Running(t)
  BY <1>2, <1>4 DEF Running, Abreast, Steady, HandshakeInv
<1> QED
  BY <1>5, <1>6, <1>7, <1>8, <1>9 DEF HandshakeInv

\* The collector counts itself out, and that is the end of the phase change.
LEMMA InvRelease ==
  ASSUME Steady, Release
  PROVE  HandshakeInv' /\ gc' = "work" /\ Owing = {}
<1>1. /\ phase \in Phases /\ TypeOK
      /\ Pred(phase) \in Phases /\ Pred(phase) # phase
      /\ Succ(phase) # Pred(phase) /\ Succ(phase) \in Phases
  BY PhaseCycle DEF Steady, TypeInv, TypeOK
<1>2. /\ gc = "release" /\ Changing /\ ~released /\ Owing = {} /\ Hold = 1
  BY DEF Release, Changing, Steady, HandshakeInv, HoldOK, Hold
<1>3. Cardinality(Owing) = 0
  BY <1>2, FS_EmptySet
<1>4. counter[Pred(phase)] = 1
  BY <1>2, <1>3, CounterAssumption DEF Steady, HandshakeInv, CountersExact, Wrap
<1>5. Dec(counter[Pred(phase)]) = 0
  BY <1>4 DEF Dec
<1>6. /\ counter' = [counter EXCEPT ![Pred(phase)] = 0] /\ gc' = "work" /\ released'
      /\ UNCHANGED <<phase, ThreadState, NotMutatingCount, pc, exit_program_flag, uncounted>>
  BY <1>2, <1>5 DEF Release, locals
<1>7. /\ counter'[Pred(phase)] = 0
      /\ counter'[phase] = counter[phase]
      /\ counter'[Succ(phase)] = counter[Succ(phase)]
  BY <1>1, <1>6 DEF TypeOK
<1>8. /\ InPhase(phase)' = InPhase(phase) /\ Owing' = {} /\ Hold' = 0 /\ ~Changing'
      /\ uncounted = {}
  BY <1>2, <1>6 DEF InPhase, Owing, Hold, Changing
<1>9. Coherent'
  BY <1>6 DEF Coherent, Steady, HandshakeInv
<1>10. Abreast'
  BY <1>2, <1>6, <1>8 DEF Abreast, Steady, HandshakeInv
<1>11. HoldOK'
  BY <1>6, <1>8 DEF HoldOK
<1>12. Cardinality(Owing') + Hold' = 0 /\ Wrap(0) = 0
  BY <1>3, <1>8, <1>2, CounterAssumption DEF Wrap
<1>13. CountersExact'
  BY <1>6, <1>7, <1>8, <1>12 DEF CountersExact, Steady, HandshakeInv
<1> QED
  BY <1>2, <1>6, <1>9, <1>10, <1>11, <1>13 DEF HandshakeInv

\* Between phase changes the collector moves on its own.
LEMMA InvBetween ==
  ASSUME Steady, ReceiveEvent \/ FinishWork
  PROVE  HandshakeInv'
<1>1. /\ gc \in {"idle", "work"} /\ gc' \in {"idle", "announce"}
      /\ UNCHANGED <<phase, counter, ThreadState, NotMutatingCount, pc, released,
                     exit_program_flag, uncounted>>
  BY DEF ReceiveEvent, FinishWork, word, locals
<1>2. ~Changing /\ ~Changing' /\ Hold' = Hold /\ Owing' = Owing
  BY <1>1 DEF Changing, Hold, Owing, InPhase
<1>3. /\ InPhase(phase)' = InPhase(phase)
  BY <1>1 DEF InPhase
<1>4. Coherent'
  BY <1>1 DEF Coherent, Steady, HandshakeInv
<1>5. Abreast'
  BY <1>1, <1>2, GateOpen DEF Abreast
<1>6. HoldOK'
  BY <1>1, <1>2, GateOpen DEF HoldOK
<1>7. CountersExact'
  BY <1>1, <1>2, <1>3 DEF CountersExact, Steady, HandshakeInv
<1> QED
  BY <1>4, <1>5, <1>6, <1>7 DEF HandshakeInv

LEMMA InvStep == CapacityOK /\ TypeInv /\ HandshakeInv /\ [Next]_vars => HandshakeInv'
<1> SUFFICES ASSUME CapacityOK, TypeInv, HandshakeInv, [Next]_vars, ~exit_program_flag'
             PROVE  HandshakeInv'
  BY DEF HandshakeInv
<1>1. CASE UNCHANGED vars
  BY <1>1 DEF vars, HandshakeInv, Coherent, Abreast, HoldOK, CountersExact, Changing,
              Hold, Owing, InPhase
<1>2. CASE Terminated
  BY <1>2 DEF Terminated, vars, HandshakeInv, Coherent, Abreast, HoldOK, CountersExact,
              Changing, Hold, Owing, InPhase
<1>3. CASE ExitProgram
  BY <1>3 DEF ExitProgram
<1>4. CASE CollectorStep \/ ReceiveEvent
  <2>1. CASE CollectorExit
    BY <2>1 DEF CollectorExit
  <2>2. CASE ~CollectorExit
    <3>1. Steady
      BY <1>4, <2>2 DEF Steady, CollectorStep, ReceiveEvent, Announce, Gather, Release, FinishWork
    <3> QED
      BY <1>4, <2>2, <3>1, InvAnnounce, InvGather, InvRelease, InvBetween DEF CollectorStep
  <2> QED
    BY <2>1, <2>2
<1>5. ASSUME NEW t \in Threads, ThreadStep(t) PROVE HandshakeInv'
  <2>1. Steady
    BY <1>5 DEF Steady, ThreadStep, InitThread, ExitThread, SafePoint, CountOut,
                AbandonSafePoint, StopWaiting, LeaveMutation, EnterMutation
  <2> QED
    BY <1>5, <2>1, InvThread
<1> QED
  BY <1>1, <1>2, <1>3, <1>4, <1>5 DEF Next

-----------------------------------------------------------------------------
(* The theorems. *)

\* Until the program exits, the counters and the threads' own states agree in every
\* reachable state (GCState.cpp 531-771), for up to 254 threads in a uint8_t.
THEOREM CountersNeverDrift == ASSUME CapacityOK PROVE Spec => []HandshakeInv
<1>1. Init => TypeInv /\ HandshakeInv
  BY TypeInit, InvInit
<1>2. TypeInv /\ HandshakeInv /\ [Next]_vars => (TypeInv /\ HandshakeInv)'
  BY TypeStep, InvStep
<1> QED
  BY <1>1, <1>2, PTL DEF Spec

\* The collector marks, restores and finalizes only with every mutator in the write
\* barrier of that phase (GCState.cpp 437, 474, 510).
THEOREM CollectorAgreesWithMutators == ASSUME CapacityOK PROVE Spec => []PhaseAgreement
<1>1. TypeInv /\ HandshakeInv => PhaseAgreement
  <2> SUFFICES ASSUME TypeInv, HandshakeInv, gc = "work", ~exit_program_flag
               PROVE  \A t \in Threads : ThreadState[t] \in {phase, "NOT_MUTATING"}
    BY DEF PhaseAgreement
  <2> QED
    BY DEF HandshakeInv, Abreast
<1> QED
  BY <1>1, TypeInit, TypeStep, CountersNeverDrift, PTL DEF Spec

\* Mutators that run use the same write barrier (GCState.cpp 558-611, 730-770).
THEOREM MutatorsAgreeAlways == ASSUME CapacityOK PROVE Spec => []MutatorsAgree
<1>1. TypeInv /\ HandshakeInv => MutatorsAgree
  <2> SUFFICES ASSUME TypeInv, HandshakeInv, ~exit_program_flag,
                      NEW t \in Threads, NEW u \in Threads, Running(t), Running(u)
               PROVE  ThreadState[t] = ThreadState[u]
    BY DEF MutatorsAgree
  <2> QED
    BY DEF HandshakeInv, Abreast, Running, Changing
<1> QED
  BY <1>1, TypeInit, TypeStep, CountersNeverDrift, PTL DEF Spec

\* The lists are flipped and merged (GCState.cpp 420, 456) while no mutator runs.
THEOREM BordersAreExclusive == ASSUME CapacityOK PROVE Spec => BorderIsExclusive
<1>1. ASSUME CapacityOK, TypeInv, HandshakeInv, [Next]_vars
      PROVE  [gc = "gather" /\ gc' = "release" /\ ~exit_program_flag =>
                \A t \in Threads : ~Running(t)]_vars
  <2> SUFFICES ASSUME Next, gc = "gather", gc' = "release", ~exit_program_flag
               PROVE  \A t \in Threads : ~Running(t)
    BY <1>1
  <2>1. Gather
    BY DEF Next, ThreadStep, InitThread, ExitThread, SafePoint, CountOut,
           AbandonSafePoint, StopWaiting, LeaveMutation, EnterMutation, CollectorStep,
           Announce, Release, FinishWork, CollectorExit, ReceiveEvent, ExitProgram,
           Terminated, collector, vars
  <2> QED
    BY <1>1, <2>1, InvGather DEF Steady
<1> QED
  BY <1>1, TypeInit, TypeStep, CountersNeverDrift, PTL DEF Spec, BorderIsExclusive
-----------------------------------------------------------------------------
(* Counting implements the abstract handshake. *)

LEMMA ModeCases ==
  ASSUME NEW p \in Phases
  PROVE  /\ \A at : ModeOf("NOT_MUTATING", at) = H!Out
         /\ ModeOf(p, "wait") = H!Held(p)
         /\ ModeOf(p, "run") = H!Runs(p)
         /\ ModeOf(p, "count") = H!Runs(p)
         /\ H!Out.st # "run" /\ H!Runs(p).st = "run"
         /\ H!Held(p).in = p
BY DEF ModeOf, Phases, H!Out, H!Held, H!Runs

LEMMA SameCycle == \A p \in Phases : H!Succ(p) = Succ(p) /\ H!Pred(p) = Pred(p)
BY DEF H!Succ, H!Pred, Succ, Pred

\* The abstract mode of one thread changes.
LEMMA ModeMove ==
  ASSUME TypeOK, NEW t \in Threads, NEW q, NEW x,
         \A u \in Threads \ {t} : ThreadState'[u] = ThreadState[u] /\ pc'[u] = pc[u],
         ThreadState'[t] = q, pc'[t] = x
  PROVE  AbstractMode' = [AbstractMode EXCEPT ![t] = ModeOf(q, x)]
BY DEF AbstractMode

LEMMA RefinesThread ==
  ASSUME Steady, NEW t \in Threads, ThreadStep(t)
  PROVE  [H!HsNext]_(H!hsVars)
<1> USE DEF H!hsVars
<1>0. /\ TypeOK /\ Coherent /\ Abreast /\ HoldOK /\ ~exit_program_flag
      /\ phase \in Phases /\ phase # "NOT_MUTATING"
      /\ Pred(phase) \in Phases /\ Pred(phase) # phase /\ Pred(phase) # "NOT_MUTATING"
      /\ H!Pred(phase) = Pred(phase)
      /\ AbstractMode \in [Threads -> {ModeOf(ThreadState[u], pc[u]) : u \in Threads}]
      /\ AbstractMode[t] = ModeOf(ThreadState[t], pc[t])
  BY PhaseCycle, SameCycle DEF Steady, TypeInv, TypeOK, HandshakeInv, AbstractMode
<1>1. ASSUME ThreadState[t] = "NOT_MUTATING", EnterPhase(t),
             NotMutatingCount' = [NotMutatingCount EXCEPT ![t] = 0],
             UNCHANGED <<phase, collector, exit_program_flag, uncounted>>
      PROVE  H!Enter(t)
  <2>1. /\ pc'[t] = IF Changing THEN "wait" ELSE "run"
        /\ ThreadState'[t] = phase
        /\ \A u \in Threads \ {t} : ThreadState'[u] = ThreadState[u] /\ pc'[u] = pc[u]
    BY <1>0, <1>1, InvEnter DEF EnterPhase, TypeOK
  <2>2. AbstractMode' = [AbstractMode EXCEPT ![t] = ModeOf(phase, pc'[t])]
    BY <1>0, <2>1, ModeMove
  <2>3. AbstractMode[t] = H!Out
    BY <1>0, <1>1, ModeCases
  <2>4. ModeOf(phase, pc'[t]) = IF ~Changing THEN H!Runs(phase) ELSE H!Held(phase)
    BY <1>0, <2>1, ModeCases
  <2>5. UNCHANGED <<phase, ~Changing>>
    BY <1>1 DEF collector, Changing
  <2> QED
    BY <2>2, <2>3, <2>4, <2>5 DEF H!Enter
<1>2. ASSUME ThreadState[t] # "NOT_MUTATING", pc[t] = "run", LeavePhase(t),
             NEW x \in {"run", "off"}, pc' = [pc EXCEPT ![t] = x],
             UNCHANGED <<phase, collector>>
      PROVE  H!Leave(t)
  <2>1. AbstractMode' = [AbstractMode EXCEPT ![t] = ModeOf("NOT_MUTATING", x)]
    BY <1>0, <1>2, ModeMove DEF LeavePhase, TypeOK
  <2>2. ThreadState[t] \in Phases
    BY <1>0, <1>2 DEF TypeOK, ThreadStates
  <2>3. AbstractMode[t].st = "run"
    BY <1>0, <1>2, <2>2, ModeCases
  <2>4. ModeOf("NOT_MUTATING", x) = H!Out
    BY <1>0, ModeCases
  <2>5. UNCHANGED <<phase, ~Changing>>
    BY <1>2 DEF collector, Changing
  <2> QED
    BY <2>1, <2>3, <2>4, <2>5 DEF H!Leave
<1>3. ASSUME UNCHANGED <<phase, gc, AbstractMode>>
      PROVE  UNCHANGED H!hsVars
  BY <1>3 DEF Changing
<1>4. CASE InitThread(t)
  BY <1>0, <1>1, <1>4 DEF InitThread, Coherent, H!HsNext
<1>5. CASE ExitThread(t)
  <2>1. CASE NotMutatingCount[t] = 0
    BY <1>0, <1>2, <1>5, <2>1 DEF ExitThread, Coherent, H!HsNext
  <2>2. CASE NotMutatingCount[t] # 0
    <3>1. ThreadState[t] = "NOT_MUTATING" /\ UNCHANGED ThreadState
      BY <1>0, <1>5, <2>2 DEF ExitThread, Coherent, TypeOK
    <3>2. AbstractMode' = [AbstractMode EXCEPT ![t] = ModeOf("NOT_MUTATING", "off")]
      BY <1>0, <1>5, <3>1, ModeMove DEF ExitThread, TypeOK
    <3>3. AbstractMode' = AbstractMode
      BY <1>0, <3>1, <3>2, ModeCases
    <3> QED
      BY <1>3, <1>5, <3>3 DEF ExitThread, collector
  <2> QED
    BY <2>1, <2>2
<1>6. CASE SafePoint(t)
  <2>1. ThreadState[t] \in Phases
    BY <1>0, <1>6 DEF SafePoint, TypeOK, ThreadStates
  <2>2. AbstractMode' = [AbstractMode EXCEPT ![t] = ModeOf(ThreadState[t], "count")]
    BY <1>0, <1>6, ModeMove DEF SafePoint, TypeOK
  <2>3. AbstractMode' = AbstractMode
    BY <1>0, <1>6, <2>1, <2>2, ModeCases DEF SafePoint
  <2> QED
    BY <1>3, <1>6, <2>3 DEF SafePoint, word, collector
<1>7. CASE CountOut(t)
  <2>1. /\ ThreadState[t] = Pred(phase) /\ Changing /\ pc[t] = "count"
        /\ ThreadState' = [ThreadState EXCEPT ![t] = phase]
        /\ pc' = [pc EXCEPT ![t] = "wait"]
        /\ UNCHANGED <<phase, collector>>
    BY <1>7, InvCountOut DEF CountOut
  <2>2. AbstractMode' = [AbstractMode EXCEPT ![t] = ModeOf(phase, "wait")]
    BY <1>0, <2>1, ModeMove DEF TypeOK
  <2>3. H!Stop(t)
    BY <1>0, <2>1, <2>2, ModeCases DEF H!Stop, collector, Changing
  <2> QED
    BY <2>3 DEF H!HsNext
<1>8. CASE AbandonSafePoint(t)
  BY <1>0, <1>8 DEF AbandonSafePoint
<1>9. CASE StopWaiting(t)
  <2>1. /\ pc[t] = "wait" /\ ~Waits(ThreadState[t], counter)
        /\ pc' = [pc EXCEPT ![t] = "run"]
        /\ UNCHANGED <<phase, collector, ThreadState>>
    BY <1>0, <1>9 DEF StopWaiting, word
  <2>2. ~(Changing /\ ThreadState[t] = phase)
    BY <1>0, <2>1, GateClosed DEF Waits
  <2>3. ThreadState[t] = IF Changing THEN Pred(phase) ELSE phase
    BY <1>0, <2>1, <2>2 DEF Abreast, Coherent, Changing
  <2>4. AbstractMode' = [AbstractMode EXCEPT ![t] = ModeOf(ThreadState[t], "run")]
    BY <1>0, <2>1, ModeMove DEF TypeOK
  <2>5. /\ AbstractMode[t] = H!Held(ThreadState[t])
        /\ AbstractMode' = [AbstractMode EXCEPT ![t] = H!Runs(AbstractMode[t].in)]
    <3>1. ThreadState[t] \in Phases
      BY <1>0, <2>3
    <3>2. /\ ModeOf(ThreadState[t], "wait") = H!Held(ThreadState[t])
          /\ ModeOf(ThreadState[t], "run") = H!Runs(ThreadState[t])
          /\ H!Held(ThreadState[t]).in = ThreadState[t]
      BY <3>1, ModeCases
    <3> QED
      BY <1>0, <2>1, <2>4, <3>2
  <2>6. UNCHANGED <<phase, Changing>>
    BY <2>1 DEF collector, Changing
  <2>7. H!Resume(t)
    BY <1>0, <2>3, <2>5, <2>6 DEF H!Resume
  <2> QED
    BY <2>7 DEF H!HsNext
<1>10. CASE LeaveMutation(t)
  <2>1. CASE NotMutatingCount[t] = 0
    <3> DEFINE x == "run"
    <3>1. /\ ThreadState[t] # "NOT_MUTATING" /\ pc[t] = "run" /\ LeavePhase(t)
          /\ x \in {"run", "off"} /\ pc' = [pc EXCEPT ![t] = x]
          /\ UNCHANGED <<phase, collector>>
      BY <1>0, <1>10, <2>1 DEF LeaveMutation, Coherent, TypeOK
    <3> HIDE DEF x
    <3> QED
      BY <1>2, <3>1 DEF H!HsNext
  <2>2. CASE NotMutatingCount[t] # 0
    BY <1>3, <1>10, <2>2 DEF LeaveMutation, collector, AbstractMode
  <2> QED
    BY <2>1, <2>2
<1>11. CASE EnterMutation(t)
  <2>1. CASE NotMutatingCount[t] = 1
    <3>1. /\ EnterPhase(t) /\ ThreadState[t] = "NOT_MUTATING"
          /\ NotMutatingCount' = [NotMutatingCount EXCEPT ![t] = 0]
          /\ UNCHANGED <<phase, collector, exit_program_flag, uncounted>>
      BY <1>0, <1>11, <2>1 DEF EnterMutation, Coherent
    <3> QED
      BY <1>1, <3>1 DEF H!HsNext
  <2>2. CASE NotMutatingCount[t] # 1
    BY <1>3, <1>11, <2>2 DEF EnterMutation, collector, AbstractMode
  <2> QED
    BY <2>1, <2>2
<1> QED
  BY <1>4, <1>5, <1>6, <1>7, <1>8, <1>9, <1>10, <1>11 DEF ThreadStep

LEMMA RefinesCollector ==
  ASSUME Steady, CollectorStep \/ ReceiveEvent
  PROVE  [H!HsNext]_(H!hsVars)
<1> USE DEF H!hsVars
<1>0. /\ UNCHANGED AbstractMode /\ phase \in Phases /\ H!Succ(phase) = Succ(phase)
      /\ TypeInv /\ HandshakeInv /\ ~exit_program_flag
  BY SameCycle DEF AbstractMode, CollectorStep, ReceiveEvent, Announce, Gather, Release,
                   FinishWork, CollectorExit, locals, Steady, TypeInv, TypeOK
<1>1. CASE Announce
  <2>1. H!Announce
    BY <1>0, <1>1 DEF Announce, Changing, H!Announce
  <2> QED
    BY <2>1 DEF H!HsNext
<1>2. CASE Release
  <2>1. CASE gc' = "work"
    <3>1. Changing /\ ~Changing' /\ phase' = phase
      BY <1>2, <2>1 DEF Release, Changing
    <3>2. Owing = {}
      BY <1>2, InvRelease
    <3>3. \A t \in Threads : \/ ThreadState[t] = "NOT_MUTATING"
                             \/ ThreadState[t] = phase /\ pc[t] = "wait"
      BY <1>0, <1>2, <3>1, <3>2 DEF Release, HandshakeInv, Abreast, Owing, InPhase
    <3>4. \A t \in Threads : AbstractMode[t] \in {H!Out, H!Held(phase)}
      BY <1>0, <3>3, ModeCases DEF AbstractMode
    <3>5. H!Open
      BY <1>0, <3>1, <3>4 DEF H!Open
    <3> QED
      BY <3>5 DEF H!HsNext
  <2>2. CASE gc' # "work"
    BY <1>0, <1>2, <2>2 DEF Release, Changing
  <2> QED
    BY <2>1, <2>2
<1>3. CASE Gather \/ FinishWork \/ ReceiveEvent
  BY <1>0, <1>3 DEF Gather, FinishWork, ReceiveEvent, Changing, word
<1>4. CASE CollectorExit
  BY <1>0, <1>4 DEF CollectorExit
<1> QED
  BY <1>1, <1>2, <1>3, <1>4 DEF CollectorStep

\* Until the program exits, each step of the counting protocol (GCState.cpp 402-796) is
\* a step of the abstract handshake or changes nothing that one speaks of.
THEOREM HandshakeImplemented == ASSUME CapacityOK PROVE Spec => ImplementsHandshake
<1>1. Init => H!HsInit
  BY ModeCases DEF Init, H!HsInit, Changing, AbstractMode, Phases
<1>2. TypeInv /\ HandshakeInv /\ [Next]_vars =>
        [exit_program_flag \/ H!HsNext]_(H!hsVars)
  <2> SUFFICES ASSUME TypeInv, HandshakeInv, [Next]_vars, ~exit_program_flag
               PROVE  [H!HsNext]_(H!hsVars)
    OBVIOUS
  <2>1. Steady
    BY DEF Steady
  <2>2. CASE UNCHANGED vars \/ Terminated \/ ExitProgram
    BY <2>2 DEF vars, Terminated, ExitProgram, word, locals, collector, H!hsVars,
                AbstractMode, Changing
  <2>3. CASE CollectorStep \/ ReceiveEvent
    BY <2>1, <2>3, RefinesCollector
  <2>4. ASSUME NEW t \in Threads, ThreadStep(t) PROVE [H!HsNext]_(H!hsVars)
    BY <2>1, <2>4, RefinesThread
  <2> QED
    BY <2>2, <2>3, <2>4 DEF Next
<1> QED
  BY <1>1, <1>2, TypeInit, TypeStep, CountersNeverDrift, PTL DEF Spec, ImplementsHandshake
=============================================================================
