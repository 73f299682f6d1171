---------------------------- MODULE SingleThread ----------------------------
(***************************************************************************)
(* Single-thread mode (CombinedThread): no collector thread, the only      *)
(* mutator runs one_collect inside safe_point and changes the phase of the *)
(* state word itself (GCState.cpp 402-513, 531-543, 678-786).  Its counter *)
(* is not in the word: thread_enter_mutation does not store it at the      *)
(* start.  When a collection begins is CollectionTrigger's part; the work  *)
(* of the phases is in the other modules, nobody runs beside it here.      *)
(***************************************************************************)
EXTENDS Integers

CONSTANTS
  CounterMod,   \* 2^8: the counters are uint8_t
  MaxNesting    \* bound on nested thread_leave_mutation calls

ASSUME SingleAssumption == CounterMod \in Nat /\ CounterMod > 2 /\ MaxNesting \in Nat \ {0}

VARIABLES
  phase, counter, notMutating,   \* the state word, as in PhaseSync
  ThreadState,
  NotMutatingCount,
  stage,                         \* where one_collect is; "out": not called
  unbalanced                     \* history: a thread that mutated has entered mutation

word == <<phase, counter, notMutating>>
locals == <<ThreadState, NotMutatingCount, unbalanced>>
single == <<word, locals, stage>>

Phases == {"NOT_COLLECTING", "COLLECTING", "RESTORING_SNAPSHOT"}
Succ(p) == CASE p = "NOT_COLLECTING"     -> "COLLECTING"
             [] p = "COLLECTING"         -> "RESTORING_SNAPSHOT"
             [] p = "RESTORING_SNAPSHOT" -> "NOT_COLLECTING"
Pred(p) == Succ(Succ(p))
Count(c, by) == (c + by) % CounterMod

SingleInit ==
  /\ phase = "NOT_COLLECTING"
  /\ counter = [p \in Phases |-> 0] /\ notMutating = 0
  /\ ThreadState = "NOT_COLLECTING"
  /\ NotMutatingCount = 0
  /\ stage = "out" /\ unbalanced = FALSE

OneCollect ==
  /\ stage = "out"
  /\ stage' = "announce"
  /\ UNCHANGED <<word, locals>>

\* The first loop of a phase change.
Announce ==
  /\ stage = "announce"
  /\ phase' = Succ(phase)
  /\ counter' = [counter EXCEPT ![phase] = Count(@, 1)]
  /\ stage' = "gather"
  /\ UNCHANGED <<notMutating, locals>>

\* The second: it goes on when the counter is 1, counts itself out and takes the barrier.
Release_KeepBarrier ==
  /\ stage = "gather" /\ counter[Pred(phase)] = 1
  /\ counter' = [counter EXCEPT ![Pred(phase)] = 0]
  /\ stage' = "work"
  /\ UNCHANGED <<phase, notMutating, locals>>
Release_KeepCount ==
  /\ stage = "gather" /\ counter[Pred(phase)] = 1
  /\ ThreadState' = IF ThreadState = "NOT_MUTATING" THEN ThreadState ELSE phase
  /\ stage' = "work"
  /\ UNCHANGED <<word, NotMutatingCount, unbalanced>>
Release ==
  /\ stage = "gather" /\ counter[Pred(phase)] = 1
  /\ counter' = [counter EXCEPT ![Pred(phase)] = 0]
  /\ ThreadState' = IF ThreadState = "NOT_MUTATING" THEN ThreadState ELSE phase
  /\ stage' = "work"
  /\ UNCHANGED <<phase, notMutating, NotMutatingCount, unbalanced>>

FinishWork ==
  /\ stage = "work"
  /\ stage' = IF phase = "NOT_COLLECTING" THEN "out" ELSE "announce"
  /\ UNCHANGED <<word, locals>>

\* thread_leave_mutation
LeaveMutation ==
  /\ stage = "out" /\ NotMutatingCount < MaxNesting
  /\ NotMutatingCount' = NotMutatingCount + 1
  /\ IF NotMutatingCount + 1 > 1 THEN UNCHANGED <<counter, notMutating, ThreadState>>
     ELSE /\ counter' = [counter EXCEPT ![phase] = Count(@, -1)]
          /\ notMutating' = Count(notMutating, 1)
          /\ ThreadState' = "NOT_MUTATING"
  /\ UNCHANGED <<phase, stage, unbalanced>>

\* thread_enter_mutation, which EnterMutationRAII calls in a thread that mutates too.
EnterMutation ==
  /\ stage = "out" /\ NotMutatingCount >= 0
  /\ NotMutatingCount' = NotMutatingCount - 1
  /\ unbalanced' = (unbalanced \/ NotMutatingCount = 0)
  /\ IF NotMutatingCount - 1 # 0 THEN UNCHANGED <<counter, notMutating, ThreadState>>
     ELSE /\ counter' = [counter EXCEPT ![phase] = Count(@, 1)]
          /\ notMutating' = Count(notMutating, -1)
          /\ ThreadState' = phase
  /\ UNCHANGED <<phase, stage>>

CollectStep == Announce \/ Release \/ FinishWork
OptStep == LeaveMutation \/ EnterMutation
=============================================================================
