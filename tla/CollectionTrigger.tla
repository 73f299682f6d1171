-------------------------- MODULE CollectionTrigger --------------------------
(***************************************************************************)
(* When a collection begins: threads add up what they allocate and raise   *)
(* an event when all of them together have allocated enough, the collector *)
(* waits for the event on a condition variable (GCState.cpp 54-81,         *)
(* 141-194, 284-290, 660-668, 788-796).                                    *)
(*                                                                         *)
(* combined is single-thread mode: one thread, no collector thread, and a  *)
(* flag in place of the event, which its safe points look at (module       *)
(* SingleThread).  The end of such a program has nobody to wait for.       *)
(*                                                                         *)
(* owed is a history variable: the bytes allocated that no event has       *)
(* answered yet.  truncated says that the int in alloc_merge has been too  *)
(* narrow for what it was given; nothing is followed from there.           *)
(***************************************************************************)
EXTENDS SingleThread, FiniteSetsExt

CONSTANTS
  Threads,
  TriggerPoint,
  LogEvery,      \* 300: a merge is due after more allocations than this
  Large,         \* 500000: or after an allocation of more bytes than this
  Sizes,         \* what is allocated at a time
  HandleLimit,   \* HandlesPerBlock * 1024
  IntRange,      \* 2^32: an int holds -IntRange/2 .. IntRange/2 - 1
  Main           \* the thread that ends the program

ASSUME TriggerAssumption ==
  /\ IsFiniteSet(Threads) /\ Threads # {} /\ Main \notin Threads
  /\ TriggerPoint \in Nat /\ LogEvery \in Nat /\ Large \in Nat /\ HandleLimit \in Nat
  /\ Sizes \subseteq Nat \ {0} /\ IntRange \in Nat \ {0} /\ IntRange % 2 = 0

VARIABLES
  threadAllocated,  \* ThreadAllocated
  aggregate,        \* AggregateLogAlloc
  handlesUsed,      \* HandlesUsedThread
  temp,             \* temp of alloc_merge
  pc,               \* where a thread is in alloc_merge or SendCollectionEvent
  ending,           \* threads in exit_thread
  allocated,        \* Allocated
  pending,          \* CollectionEventId differs from the collector's CollectionEventRecieved
  collector,        \* where collect_thread is
  exitFlag,         \* exit_program_flag
  combined,         \* CombinedThread
  singleEvent,      \* single_thread_event
  owed, truncated   \* history: see above

merge == <<threadAllocated, aggregate, handlesUsed, temp, allocated, owed, truncated>>
event == <<pending, collector>>
ctVars == <<merge, event, pc, ending, exitFlag, combined, singleEvent>>
vars == <<ctVars, single>>

Senders == Threads \cup {Main}
One == CHOOSE t \in Threads : TRUE   \* the thread of single-thread mode

Init ==
  /\ SingleInit
  /\ threadAllocated = [t \in Threads |-> 0] /\ aggregate = [t \in Threads |-> 0]
  /\ handlesUsed = [t \in Threads |-> 0] /\ temp = [t \in Threads |-> 0]
  /\ allocated = 0 /\ owed = 0 /\ truncated = FALSE
  /\ pending = FALSE
  /\ combined \in BOOLEAN /\ singleEvent = FALSE /\ exitFlag = FALSE
  /\ collector = IF combined THEN "none" ELSE "top"
  /\ pc = [t \in Senders |-> IF combined /\ t # One THEN "gone" ELSE "run"]
  /\ ending = {}

-----------------------------------------------------------------------------
(* alloc_merge *)

\* An int keeps the low bits.
ToInt(x) == ((x + IntRange \div 2) % IntRange) - IntRange \div 2

Goto(t, place) == pc' = [pc EXCEPT ![t] = place]
\* alloc_merge returns to a running thread or to one that ends.
Back(t) == IF t \in ending THEN "gone" ELSE "run"

\* The first lines of alloc_merge, on the thread's own variables.
BeginMerge(t, count) ==
  /\ handlesUsed' = [handlesUsed EXCEPT ![t] = @ + 2 * count]
  /\ aggregate' = [aggregate EXCEPT ![t] = 0]
  /\ Goto(t, "add")

LogAlloc(t, a) ==
  /\ pc[t] = "run"
  /\ threadAllocated' = [threadAllocated EXCEPT ![t] = @ + a]
  /\ owed' = owed + a
  /\ IF aggregate[t] + 1 > LogEvery \/ a > Large
     THEN BeginMerge(t, aggregate[t] + 1)
     ELSE aggregate' = [aggregate EXCEPT ![t] = @ + 1] /\ UNCHANGED <<handlesUsed, pc>>
  /\ UNCHANGED <<temp, allocated, truncated, event, ending, exitFlag, combined, singleEvent>>

\* exit_thread merges too.
EndThread(t) ==
  /\ pc[t] = "run" /\ ~combined
  /\ ending' = ending \cup {t}
  /\ BeginMerge(t, aggregate[t])
  /\ UNCHANGED <<threadAllocated, temp, allocated, owed, truncated, event, exitFlag, combined,
                 singleEvent>>

\* A new thread starts with new thread_local variables.
StartThread(t) ==
  /\ pc[t] = "gone" /\ ~combined
  /\ ending' = ending \ {t}
  /\ handlesUsed' = [handlesUsed EXCEPT ![t] = 0]
  /\ Goto(t, "run")
  /\ UNCHANGED <<threadAllocated, aggregate, temp, allocated, owed, truncated, event, exitFlag,
                 combined, singleEvent>>

Add_KeepThread(t) ==
  /\ pc[t] = "add"
  /\ allocated' = allocated + threadAllocated[t]
  /\ Goto(t, "look")
  /\ UNCHANGED <<threadAllocated, aggregate, handlesUsed, temp, owed, truncated, event, ending,
                 exitFlag, combined, singleEvent>>
Add(t) ==
  /\ pc[t] = "add"
  /\ allocated' = allocated + threadAllocated[t]
  /\ threadAllocated' = [threadAllocated EXCEPT ![t] = 0]
  /\ Goto(t, "look")
  /\ UNCHANGED <<aggregate, handlesUsed, temp, owed, truncated, event, ending, exitFlag, combined,
                 singleEvent>>

Enough(t, bytes) == bytes > TriggerPoint \/ handlesUsed[t] > HandleLimit

Look(t) ==
  /\ pc[t] = "look"
  /\ Goto(t, IF Enough(t, allocated) THEN "take" ELSE Back(t))
  /\ UNCHANGED <<merge, event, ending, exitFlag, combined, singleEvent>>

\* The exchange, and the decision on what it gave.
Take(t) ==
  /\ pc[t] = "take"
  /\ allocated' = 0
  /\ truncated' = (truncated \/ ToInt(allocated) # allocated)
  /\ IF Enough(t, ToInt(allocated))
     THEN /\ handlesUsed' = [handlesUsed EXCEPT ![t] = 0]
          /\ owed' = owed - allocated
          /\ IF combined THEN singleEvent' = TRUE /\ Goto(t, Back(t))
             ELSE UNCHANGED singleEvent /\ Goto(t, "send")
          /\ UNCHANGED temp
     ELSE /\ temp' = [temp EXCEPT ![t] = ToInt(allocated)]
          /\ Goto(t, "giveback")
          /\ UNCHANGED <<handlesUsed, owed, singleEvent>>
  /\ UNCHANGED <<threadAllocated, aggregate, event, ending, exitFlag, combined>>

GiveBack(t) ==
  /\ pc[t] = "giveback"
  /\ allocated' = allocated + temp[t]
  /\ temp' = [temp EXCEPT ![t] = 0]
  /\ Goto(t, Back(t))
  /\ UNCHANGED <<threadAllocated, aggregate, handlesUsed, owed, truncated, event, ending, exitFlag,
                 combined, singleEvent>>

-----------------------------------------------------------------------------
(* The event *)

\* The collector holds CollectionEventMut while it evaluates the predicate of its wait.
Locked_Never == FALSE
Locked == collector \in {"test", "sleep"}

\* SendCollectionEvent: the counter under the mutex, then notify_all without it.
Send(t) ==
  /\ pc[t] = "send" /\ ~Locked
  /\ pending' = TRUE
  /\ Goto(t, "notify")
  /\ UNCHANGED <<merge, collector, ending, exitFlag, combined, singleEvent>>

Notify(t) ==
  /\ pc[t] = "notify"
  /\ collector' = IF collector = "blocked" THEN "lock" ELSE collector
  /\ Goto(t, IF t = Main THEN "join" ELSE Back(t))
  /\ UNCHANGED <<merge, pending, ending, exitFlag, combined, singleEvent>>

\* exit_collect_thread
RaiseExit ==
  /\ pc[Main] = "run"
  /\ exitFlag' = TRUE
  /\ Goto(Main, "send")
  /\ UNCHANGED <<merge, event, ending, combined, singleEvent>>

Join ==
  /\ pc[Main] = "join" /\ collector = "ended"
  /\ Goto(Main, "gone")
  /\ UNCHANGED <<merge, event, ending, exitFlag, combined, singleEvent>>

CollectorMove(from, to) == collector = from /\ collector' = to

\* The tests of collect_thread before and after WaitForCollectionEvent.
TestExit ==
  /\ \/ CollectorMove("top", IF exitFlag THEN "ended" ELSE "lock")
     \/ CollectorMove("woken", IF exitFlag THEN "ended" ELSE "collect")
  /\ UNCHANGED <<merge, pending, pc, ending, exitFlag, combined, singleEvent>>

Lock ==
  /\ CollectorMove("lock", "test")
  /\ UNCHANGED <<merge, pending, pc, ending, exitFlag, combined, singleEvent>>

\* The predicate of the wait, under the mutex.
TestEvent ==
  /\ IF pending THEN CollectorMove("test", "woken") /\ pending' = FALSE
     ELSE CollectorMove("test", "sleep") /\ UNCHANGED pending
  /\ UNCHANGED <<merge, pc, ending, exitFlag, combined, singleEvent>>

\* Blocking and giving up the mutex are one step to everyone else.
Sleep ==
  /\ CollectorMove("sleep", "blocked")
  /\ UNCHANGED <<merge, pending, pc, ending, exitFlag, combined, singleEvent>>

SpuriousWake ==
  /\ CollectorMove("blocked", "lock")
  /\ UNCHANGED <<merge, pending, pc, ending, exitFlag, combined, singleEvent>>

\* one_collect, which returns early when the program ends.
Collect ==
  /\ CollectorMove("collect", "top")
  /\ UNCHANGED <<merge, pending, pc, ending, exitFlag, combined, singleEvent>>

-----------------------------------------------------------------------------
(* Single-thread mode *)

\* The first lines of safe_point.  After one_collect it finds nothing else to do.
SafePoint ==
  /\ combined /\ pc[One] = "run"
  /\ singleEvent
  /\ singleEvent' = FALSE
  /\ OneCollect
  /\ UNCHANGED <<merge, event, pc, ending, exitFlag, combined>>

-----------------------------------------------------------------------------
\* The thread of single-thread mode does nothing else while it collects.
Going == ~truncated /\ stage = "out" /\ UNCHANGED single

Allocate(t) == Going /\ \E a \in Sizes : LogAlloc(t, a)
MergeStep(t) == Going /\ (Add(t) \/ Look(t) \/ Take(t) \/ GiveBack(t))
SendStep(t) == Going /\ Send(t)
NotifyStep(t) == Going /\ Notify(t)
CollectorStep == Going /\ (TestExit \/ Lock \/ TestEvent \/ Sleep \/ Collect)
JoinStep == Going /\ Join
Collecting == ~truncated /\ CollectStep /\ UNCHANGED ctVars
Opting == ~truncated /\ combined /\ pc[One] = "run" /\ OptStep /\ UNCHANGED ctVars

Next ==
  \/ \E t \in Threads : Allocate(t) \/ MergeStep(t) \/ (Going /\ (EndThread(t) \/ StartThread(t)))
  \/ \E t \in Senders : SendStep(t) \/ NotifyStep(t)
  \/ CollectorStep \/ JoinStep
  \/ (Going /\ (SpuriousWake \/ RaiseExit))
  \/ (~truncated /\ SafePoint)
  \/ Collecting \/ Opting

\* Threads that are in alloc_merge go on, and so does the collector; those that run go on
\* allocating and go through safe points.  A thread that waits for the mutex gets it in the
\* end although the collector may take it again and again.  Nobody need end, start or opt
\* out, and the program need not end.
TriggerFairness ==
  /\ \A t \in Threads : WF_vars(MergeStep(t)) /\ WF_vars(Allocate(t))
  /\ \A t \in Senders : SF_vars(SendStep(t)) /\ WF_vars(NotifyStep(t))
  /\ WF_vars(CollectorStep) /\ WF_vars(JoinStep)
  /\ SF_vars(~truncated /\ SafePoint) /\ WF_vars(Collecting)

Spec == Init /\ [][Next]_vars
FairSpec == Spec /\ TriggerFairness

-----------------------------------------------------------------------------
(* Properties *)

CtTypeOK ==
  /\ threadAllocated \in [Threads -> Nat] /\ aggregate \in [Threads -> 0 .. LogEvery]
  /\ handlesUsed \in [Threads -> Nat] /\ temp \in [Threads -> Int]
  /\ allocated \in Int /\ owed \in Int /\ truncated \in BOOLEAN
  /\ pending \in BOOLEAN
  /\ collector \in {"none", "top", "lock", "test", "sleep", "blocked", "woken", "collect", "ended"}
  /\ pc \in [Senders -> {"run", "add", "look", "take", "giveback", "send", "notify", "join", "gone"}]
  /\ ending \subseteq Threads
  /\ phase \in Phases /\ counter \in [Phases -> 0 .. CounterMod - 1]
  /\ notMutating \in 0 .. CounterMod - 1
  /\ ThreadState \in Phases \cup {"NOT_MUTATING"} /\ NotMutatingCount \in -1 .. MaxNesting
  /\ stage \in {"out", "announce", "gather", "work"} /\ unbalanced \in BOOLEAN
  /\ exitFlag \in BOOLEAN /\ combined \in BOOLEAN /\ singleEvent \in BOOLEAN

\* The variables are in range, and every byte that has been allocated and not answered by an
\* event is in Allocated, in a thread's own count or on its way back to Allocated, whatever
\* threads do between the exchange and the addition of alloc_merge (168-184); unless more than
\* an int was taken at once.
BytesAreCounted ==
  /\ CtTypeOK
  /\ ~truncated =>
       owed = allocated + MapThenSumSet(LAMBDA t : threadAllocated[t] + temp[t], Threads)

\* Once more is allocated than the trigger point, a collection is asked for, and what is asked
\* for happens; no wakeup is lost between the test of the event and the wait for it (65-81,
\* 168-184).  Not if the program ends, if all threads do, or after a truncation.
Asked == pending \/ singleEvent
Excused == exitFlag \/ truncated \/ \A t \in Threads : pc[t] = "gone"
CollectionsFollow ==
  /\ (allocated > TriggerPoint) ~> (Asked \/ Excused \/ stage = "gather")
  /\ pending ~> (collector = "collect" \/ exitFlag \/ truncated)
  /\ singleEvent ~> (stage # "out" \/ truncated)

\* A thread that has left mutation as often as it has entered it has its barrier from the
\* phase, in every phase of the collection it runs (436, 473, 509), and the counters come
\* back to what they were.
SingleAgrees ==
  combined /\ ~unbalanced =>
    /\ ThreadState = IF NotMutatingCount > 0 THEN "NOT_MUTATING"
                     ELSE IF stage = "gather" THEN Pred(phase)
                     ELSE phase
    /\ stage # "gather" => \A p \in Phases :
         counter[p] = Count(0, IF p = "NOT_COLLECTING" /\ NotMutatingCount > 0 THEN -1 ELSE 0)

\* A collection that such a thread begins while it mutates comes to its end: the loops that
\* wait for the counter to be 1 are not left waiting by the thread's own count (415-434).
SingleCollects ==
  (stage # "out" /\ NotMutatingCount = 0 /\ ~unbalanced) ~> (stage = "out" \/ truncated)
=============================================================================
