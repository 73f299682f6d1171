------------------------------ MODULE PhaseSync ------------------------------
(***************************************************************************)
(* The phase handshake of GCState.cpp: the 64-bit word State (a phase and  *)
(* four uint8_t counters, changed only by compare-and-swap of the whole    *)
(* word), the mutator side (safe_point, thread_leave_mutation,             *)
(* thread_enter_mutation, init_thread, exit_thread) and the collector side *)
(* (collect_thread, one_collect and its three phase changes), with one     *)
(* collector thread (CombinedThread = false).                              *)
(*                                                                         *)
(* A CAS loop that recomputes the new word from the one it read is one     *)
(* step: the successful iteration.  A decision the code takes before its   *)
(* loop, and does not take again inside it, is a step of its own.          *)
(***************************************************************************)
EXTENDS Integers, FiniteSets

CONSTANTS
  Threads,       \* thread slots that mutators may occupy
  CounterMod,    \* 2^8 in the code: the counters are uint8_t (GCState.h 146-149)
  MaxNesting     \* bound on nested thread_leave_mutation calls of one thread

ASSUME ThreadsAssumption == IsFiniteSet(Threads)
ASSUME CounterAssumption == CounterMod \in Nat /\ CounterMod > 1
ASSUME NestingAssumption == MaxNesting \in Nat \ {0}

VARIABLES
  phase,             \* State.phase
  counter,           \* State's threads_out_of_collection, threads_in_collection and
                     \* threads_in_sweep, by the phase whose threads they count
  notMutating,       \* State.threads_not_mutating
  ThreadState,       \* thread_local: the phase a thread's write barrier is for
  NotMutatingCount,  \* thread_local: nesting of thread_leave_mutation
  pc,                \* where each thread is
  gc,                \* where the collector thread is
  released,          \* the collector's locals `released` and `one_shot`
  ActiveIndex,       \* which of the two scan lists new objects and roots join
  exit_program_flag,
  uncounted          \* history: threads that opted out, or ended, while they owed an
                     \* acknowledgement of a phase change (only properties read it)

vars == <<phase, counter, notMutating, ThreadState, NotMutatingCount, pc,
          gc, released, ActiveIndex, exit_program_flag, uncounted>>

word      == <<phase, counter, notMutating>>
locals    == <<ThreadState, NotMutatingCount, pc>>
collector == <<gc, released, ActiveIndex>>

Phases == {"NOT_COLLECTING", "COLLECTING", "RESTORING_SNAPSHOT"}
ThreadStates == Phases \cup {"NOT_MUTATING"}

Succ(p) == CASE p = "NOT_COLLECTING"     -> "COLLECTING"
             [] p = "COLLECTING"         -> "RESTORING_SNAPSHOT"
             [] p = "RESTORING_SNAPSHOT" -> "NOT_COLLECTING"
Pred(p) == Succ(Succ(p))

\* uint8_t arithmetic: both ends wrap around.
Inc(c) == IF c = CounterMod - 1 THEN 0 ELSE c + 1
Dec_Wide(c) == c - 1
Dec(c) == IF c = 0 THEN CounterMod - 1 ELSE c - 1

TypeOK ==
  /\ phase \in Phases
  /\ counter \in [Phases -> 0 .. CounterMod - 1]
  /\ notMutating \in 0 .. CounterMod - 1
  /\ ThreadState \in [Threads -> ThreadStates]
  /\ NotMutatingCount \in [Threads -> 0 .. MaxNesting]
  /\ pc \in [Threads -> {"off", "run", "count", "wait"}]
  /\ gc \in {"idle", "announce", "gather", "release", "work", "exited"}
  /\ released \in BOOLEAN
  /\ ActiveIndex \in {0, 1}
  /\ exit_program_flag \in BOOLEAN
  /\ uncounted \subseteq Threads

Init ==
  /\ phase = "NOT_COLLECTING"
  /\ counter = [p \in Phases |-> 0]
  /\ notMutating = 0
  /\ ThreadState = [t \in Threads |-> "NOT_MUTATING"]
  /\ NotMutatingCount = [t \in Threads |-> 0]
  /\ pc = [t \in Threads |-> "off"]
  /\ gc = "idle"
  /\ released = FALSE
  /\ ActiveIndex = 0
  /\ exit_program_flag = FALSE
  /\ uncounted = {}

-----------------------------------------------------------------------------
(* The mutators. *)

\* The condition of the wait loops: a thread on its way into phase p spins while
\* anyone, the collector included, is still counted in the phase before it.
Waits_Never(p, c) == FALSE
Waits(p, c) == c[Pred(p)] > 0

\* The CAS loop of thread_enter_mutation, SetThreadState and the first test of
\* the wait loop, which reads the word just written.
EnterPhase(t) ==
  LET c == [counter EXCEPT ![phase] = Inc(@)] IN
  /\ counter' = c
  /\ ThreadState' = [ThreadState EXCEPT ![t] = phase]
  /\ pc' = [pc EXCEPT ![t] = IF Waits(phase, c) THEN "wait" ELSE "run"]

\* The CAS loop of thread_leave_mutation.  It takes the thread out of the counter
\* of the announced phase, whichever counter the thread is in.
LeavePhase(t) ==
  /\ counter' = [counter EXCEPT ![phase] = Dec(@)]
  /\ notMutating' = Inc(notMutating)
  /\ ThreadState' = [ThreadState EXCEPT ![t] = "NOT_MUTATING"]
  /\ uncounted' = IF ThreadState[t] = phase THEN uncounted ELSE uncounted \cup {t}

\* init_thread: NotMutatingCount = 1, then thread_enter_mutation(true), which does
\* not take the thread out of threads_not_mutating.
InitThread(t) ==
  /\ pc[t] = "off"
  /\ ~exit_program_flag
  /\ EnterPhase(t)
  /\ NotMutatingCount' = [NotMutatingCount EXCEPT ![t] = 0]
  /\ UNCHANGED <<phase, notMutating, collector, exit_program_flag, uncounted>>

\* safe_point up to its switch: it goes on only if the phase it has read is not
\* the thread's own.
SafePoint(t) ==
  /\ pc[t] = "run"
  /\ ThreadState[t] \notin {"NOT_MUTATING", phase}
  /\ pc' = [pc EXCEPT ![t] = "count"]
  /\ UNCHANGED <<word, ThreadState, NotMutatingCount, collector,
                 exit_program_flag, uncounted>>

\* The three cases of safe_point's switch: count out of the thread's phase and
\* into the next one, set the write barrier, and spin until all have counted out.
CountOut_Early(t) ==
  LET from == ThreadState[t]
      to   == Succ(from)
      c    == [counter EXCEPT ![from] = Dec(@), ![to] = Inc(@)]
  IN
  /\ pc[t] = "count"
  /\ counter' = c
  /\ ThreadState' = [ThreadState EXCEPT ![t] = to]
  /\ pc' = [pc EXCEPT ![t] = IF c[from] > 1 THEN "wait" ELSE "run"]
  /\ UNCHANGED <<phase, notMutating, NotMutatingCount, collector,
                 exit_program_flag, uncounted>>
CountOut_SameBarrier(t) ==
  LET from == ThreadState[t]
      to   == Succ(from)
      c    == [counter EXCEPT ![from] = Dec(@), ![to] = Inc(@)]
  IN
  /\ pc[t] = "count"
  /\ counter' = c
  /\ pc' = [pc EXCEPT ![t] = IF Waits(to, c) THEN "wait" ELSE "run"]
  /\ UNCHANGED <<phase, notMutating, ThreadState, NotMutatingCount, collector,
                 exit_program_flag, uncounted>>
CountOut(t) ==
  LET from == ThreadState[t]
      to   == Succ(from)
      c    == [counter EXCEPT ![from] = Dec(@), ![to] = Inc(@)]
  IN
  /\ pc[t] = "count"
  /\ counter' = c
  /\ ThreadState' = [ThreadState EXCEPT ![t] = to]
  /\ pc' = [pc EXCEPT ![t] = IF Waits(to, c) THEN "wait" ELSE "run"]
  /\ UNCHANGED <<phase, notMutating, NotMutatingCount, collector,
                 exit_program_flag, uncounted>>

\* Only the COLLECTING case gives up counting when the program is exiting.
AbandonSafePoint(t) ==
  /\ pc[t] = "count"
  /\ ThreadState[t] = "COLLECTING"
  /\ exit_program_flag
  /\ pc' = [pc EXCEPT ![t] = "run"]
  /\ UNCHANGED <<word, ThreadState, NotMutatingCount, collector,
                 exit_program_flag, uncounted>>

\* The end of a wait loop of safe_point or thread_enter_mutation.
StopWaiting_Deaf(t) ==
  /\ pc[t] = "wait"
  /\ ~Waits(ThreadState[t], counter)
  /\ pc' = [pc EXCEPT ![t] = "run"]
  /\ UNCHANGED <<word, ThreadState, NotMutatingCount, collector,
                 exit_program_flag, uncounted>>
StopWaiting(t) ==
  /\ pc[t] = "wait"
  /\ ~Waits(ThreadState[t], counter) \/ exit_program_flag
  /\ pc' = [pc EXCEPT ![t] = "run"]
  /\ UNCHANGED <<word, ThreadState, NotMutatingCount, collector,
                 exit_program_flag, uncounted>>

\* thread_leave_mutation: only the outermost call touches the word.
LeaveMutation(t) ==
  /\ pc[t] = "run"
  /\ NotMutatingCount[t] < MaxNesting
  /\ NotMutatingCount' = [NotMutatingCount EXCEPT ![t] = @ + 1]
  /\ \/ /\ NotMutatingCount[t] = 0
        /\ LeavePhase(t)
     \/ /\ NotMutatingCount[t] > 0
        /\ UNCHANGED <<counter, notMutating, ThreadState, uncounted>>
  /\ UNCHANGED <<phase, pc, collector, exit_program_flag>>

\* thread_enter_mutation: only the call that undoes the outermost leave does.
EnterMutation(t) ==
  /\ pc[t] = "run"
  /\ NotMutatingCount[t] > 0
  /\ NotMutatingCount' = [NotMutatingCount EXCEPT ![t] = @ - 1]
  /\ \/ /\ NotMutatingCount[t] = 1
        /\ EnterPhase(t)
        /\ notMutating' = Dec(notMutating)
     \/ /\ NotMutatingCount[t] > 1
        /\ UNCHANGED <<counter, notMutating, ThreadState, pc>>
  /\ UNCHANGED <<phase, collector, exit_program_flag, uncounted>>

\* exit_thread: one more thread_leave_mutation, so a thread that has already opted
\* out changes nothing.  Then the slot can be taken by another thread, whose
\* thread_locals are its own.
ExitThread(t) ==
  /\ pc[t] = "run"
  /\ \/ /\ NotMutatingCount[t] = 0
        /\ LeavePhase(t)
     \/ /\ NotMutatingCount[t] > 0
        /\ UNCHANGED <<counter, notMutating, ThreadState, uncounted>>
  /\ NotMutatingCount' = [NotMutatingCount EXCEPT ![t] = 0]
  /\ pc' = [pc EXCEPT ![t] = "off"]
  /\ UNCHANGED <<phase, collector, exit_program_flag>>

-----------------------------------------------------------------------------
(* The collector thread. *)

\* collect_thread: WaitForCollectionEvent returns (CollectionTrigger models when).
ReceiveEvent ==
  /\ gc = "idle"
  /\ ~exit_program_flag
  /\ gc' = "announce"
  /\ UNCHANGED <<word, locals, released, ActiveIndex, exit_program_flag, uncounted>>

\* The first CAS of _start_collection, _end_collection_start_restore_snapshot and
\* _end_sweep: announce the next phase, and count the collector into the phase that
\* ends ("stop everyone till I'm done").
Announce_Unheld ==
  /\ gc = "announce"
  /\ phase' = Succ(phase)
  /\ gc' = "gather"
  /\ released' = FALSE
  /\ UNCHANGED <<counter, notMutating, locals, ActiveIndex, exit_program_flag, uncounted>>
Announce ==
  /\ gc = "announce"
  /\ phase' = Succ(phase)
  /\ counter' = [counter EXCEPT ![phase] = Inc(@)]
  /\ gc' = "gather"
  /\ released' = FALSE
  /\ UNCHANGED <<notMutating, locals, ActiveIndex, exit_program_flag, uncounted>>

\* What the collector spins for: it alone is still counted in the old phase.
Gathered_Uncounted == counter[Pred(phase)] = 0
Gathered == counter[Pred(phase)] = 1

\* The one-shot work at the border: _start_collection flips ActiveIndex; the merge
\* of the scan lists at the second border is in module ScanLists.
Gather ==
  /\ gc = "gather"
  /\ Gathered
  /\ ActiveIndex' = IF phase = "COLLECTING" /\ ~released THEN 1 - ActiveIndex
                                                         ELSE ActiveIndex
  /\ gc' = "release"
  /\ UNCHANGED <<word, locals, released, exit_program_flag, uncounted>>

\* The CAS that counts the collector out, once, and so lets the threads go.
Release_Forgotten ==
  /\ gc = "release"
  /\ released' = TRUE
  /\ gc' = "work"
  /\ UNCHANGED <<phase, counter, notMutating, locals, ActiveIndex, exit_program_flag, uncounted>>
Release ==
  LET old == Pred(phase)
      c   == IF released THEN counter[old] ELSE Dec(counter[old])
  IN
  /\ gc = "release"
  /\ counter' = [counter EXCEPT ![old] = c]
  /\ released' = TRUE
  /\ gc' = IF c = 0 THEN "work" ELSE "gather"
  /\ UNCHANGED <<phase, notMutating, locals, ActiveIndex, exit_program_flag, uncounted>>

\* _do_collection, _do_restore_snapshot or _do_finalize_snapshot is over and
\* one_collect goes on to the next phase change, or collect_thread to the next event.
FinishWork ==
  /\ gc = "work"
  /\ phase = "NOT_COLLECTING" \/ ~exit_program_flag
  /\ gc' = IF phase = "NOT_COLLECTING" THEN "idle" ELSE "announce"
  /\ UNCHANGED <<word, locals, released, ActiveIndex, exit_program_flag, uncounted>>

\* Where the collector looks at exit_program_flag: everywhere but in
\* _end_collection_start_restore_snapshot and between a Gather and its Release.
LooksAtExitFlag ==
  \/ gc \in {"idle", "work"}
  \/ gc = "announce" /\ phase # "COLLECTING"
  \/ gc = "gather" /\ phase # "RESTORING_SNAPSHOT"

CollectorExit_Loops ==
  /\ exit_program_flag
  /\ LooksAtExitFlag
  /\ gc' = "idle"
  /\ UNCHANGED <<word, locals, released, ActiveIndex, exit_program_flag, uncounted>>
CollectorExit ==
  /\ exit_program_flag
  /\ LooksAtExitFlag
  /\ gc' = "exited"
  /\ UNCHANGED <<word, locals, released, ActiveIndex, exit_program_flag, uncounted>>

\* exit_collect_thread, called by the main thread, whether or not the mutators have
\* ended ("you should end the mutation threads before", GCState.cpp 103).
ExitProgram ==
  /\ ~exit_program_flag
  /\ exit_program_flag' = TRUE
  /\ UNCHANGED <<word, locals, collector, uncounted>>

\* The end of the program, spelled out so that TLC can look for deadlocks.
Terminated ==
  /\ gc = "exited"
  /\ \A t \in Threads : pc[t] = "off"
  /\ UNCHANGED vars

-----------------------------------------------------------------------------
ThreadStep(t) ==
  \/ InitThread(t) \/ ExitThread(t)
  \/ SafePoint(t) \/ CountOut(t) \/ AbandonSafePoint(t) \/ StopWaiting(t)
  \/ LeaveMutation(t) \/ EnterMutation(t)

\* What the collector does on its own once a collection has been asked for.
CollectorStep == Announce \/ Gather \/ Release \/ FinishWork \/ CollectorExit

Next ==
  \/ \E t \in Threads : ThreadStep(t)
  \/ CollectorStep
  \/ ReceiveEvent
  \/ ExitProgram
  \/ Terminated

Spec == Init /\ [][Next]_vars

\* Mutators "have to periodically go through safe-points" (README.md), what is
\* inside safe_point is a loop that yields the processor, and so is the collector.
\* No thread need ever start, opt out, opt in, exit or ask for a collection.
Fairness ==
  /\ \A t \in Threads : WF_vars(SafePoint(t)) /\ WF_vars(CountOut(t))
                        /\ WF_vars(StopWaiting(t))
  /\ WF_vars(CollectorStep)

FairSpec == Spec /\ Fairness

-----------------------------------------------------------------------------
(* What the handshake must guarantee.  The forms of a definition with a suffix    *)
(* (Waits_Never, CountOut_Early, ...) are wrong on purpose: README.md says        *)
(* which property each of them breaks.                                            *)

InPhase(p) == {t \in Threads : ThreadState[t] = p}

\* Whom the collector still has to wait for: the threads in the old phase and,
\* because of where LeavePhase counts them, those that opted out of it too late.
Owing == InPhase(Pred(phase)) \cup uncounted

\* The collector counts itself into the old phase until it releases the threads.
Changing == gc \in {"gather", "release"}
Hold == IF Changing /\ ~released THEN 1 ELSE 0

\* n in a uint8_t, for n up to CounterMod (which is as far as it goes).
Wrap(n) == IF n = CounterMod THEN 0 ELSE n

\* How many threads the uint8_t counters can carry: the collector is counted with
\* them, and one more place is needed for a thread that is counted twice because it
\* opted out at a border and in again (2^8 - 2 threads).
CapacityOK == Cardinality(Threads) + 1 < CounterMod

\* A thread is in one of: off, opted out (with its nesting), mutating.
Coherent ==
  \A t \in Threads :
    /\ ThreadState[t] = "NOT_MUTATING" => pc[t] \in {"off", "run"}
    /\ pc[t] = "off" => ThreadState[t] = "NOT_MUTATING"
    /\ pc[t] # "off" => (NotMutatingCount[t] > 0 <=> ThreadState[t] = "NOT_MUTATING")

\* Nobody falls a phase behind: only while the collector gathers them may threads
\* still be in the old phase, and only those are inside safe_point's switch.
Abreast ==
  \A t \in Threads :
    /\ ThreadState[t] \in {phase, "NOT_MUTATING"} \/ (gc = "gather" /\ ThreadState[t] = Pred(phase))
    /\ pc[t] = "count" => ThreadState[t] = Pred(phase)
    /\ Changing /\ ThreadState[t] = phase => pc[t] = "wait"

\* The collector's own hold, and the threads that opted out at the border.
HoldOK ==
  /\ Changing => ~released
  /\ gc = "release" => Owing = {}
  /\ uncounted # {} => gc = "gather"
  /\ uncounted \cap InPhase(Pred(phase)) = {}
  /\ gc # "exited"

\* The counters count what GCState.cpp 114-116 says they count: the word every
\* thread decides by agrees with the threads' own states.
CountersExact ==
  /\ counter[Pred(phase)] = Wrap(Cardinality(Owing) + Hold)
  /\ counter[Succ(phase)] = 0
  /\ uncounted = {} => counter[phase] = Cardinality(InPhase(phase))

\* Until the program exits, the state word and the threads' own states never drift
\* apart, through any order of registrations, opt-outs, safe points and phase
\* changes (GCState.cpp 531-771); the inductive invariant of the proofs.
HandshakeInv ==
  ~exit_program_flag => Coherent /\ Abreast /\ HoldOK /\ CountersExact

\* The collector marks, restores or finalizes (GCState.cpp 437, 474, 510) only when
\* every mutator has switched to the write barrier of that phase or has opted out.
PhaseAgreement ==
  gc = "work" /\ ~exit_program_flag =>
    \A t \in Threads : ThreadState[t] \in {phase, "NOT_MUTATING"}

\* Two mutators that run at the same time use the same write barrier, even while a
\* phase change is half acknowledged (the wait loops of GCState.cpp 558-611, 730-770).
Running(t) == pc[t] = "run" /\ ThreadState[t] # "NOT_MUTATING"
MutatorsAgree ==
  ~exit_program_flag =>
    \A t, u \in Threads : Running(t) /\ Running(u) => ThreadState[t] = ThreadState[u]

\* The one-shot work at a border (the flip of ActiveIndex at GCState.cpp 420 and
\* merge_collected at 456) never happens while any thread runs mutator code, so no
\* list is relinked or swapped under a thread that is inserting into it.
BorderIsExclusive ==
  [][gc = "gather" /\ gc' = "release" /\ ~exit_program_flag =>
       \A t \in Threads : ~Running(t)]_vars

\* PhaseSync implements Handshake: counting gives what the abstract gate promises.
ModeOf(state, at) ==
  [st |-> CASE state = "NOT_MUTATING" -> "out"
            [] state # "NOT_MUTATING" /\ at = "wait" -> "held"
            [] OTHER -> "run",
   in |-> state]
AbstractMode == [t \in Threads |-> ModeOf(ThreadState[t], pc[t])]
H == INSTANCE Handshake WITH open <- ~Changing, mode <- AbstractMode

\* Until the program exits, every step of the code's handshake is a step of the
\* abstract one, or none (GCState.cpp 402-796).
ImplementsHandshake ==
  H!HsInit /\ [][exit_program_flag \/ H!HsNext]_(H!hsVars)

\* A collection that was asked for runs through its three phases and ends (the
\* "end collection" of GCState.cpp 784), whatever the mutators do in between, unless
\* the program exits.
CollectionCompletes ==
  gc = "announce" ~> (gc \in {"idle", "exited"} \/ exit_program_flag)

\* The same, unless a thread opts out or ends in between an announcement and its own
\* acknowledgement: through every other order of registrations, opt-outs, nested
\* opt-outs, safe points and ends, the collection runs through its phases.
CollectionEnds ==
  gc = "announce" ~> (gc \in {"idle", "exited"} \/ exit_program_flag \/ uncounted # {})

\* A mutator stopped at a safe point, or entering mutation at a border, is let go
\* (README.md: "threads are never stopped" but to sync at phase changes), unless some
\* thread opted out of the phase change that holds it; and if the program exits it is
\* let go in any case, though the collector may be gone (GCState.cpp 558-611).
WaitEnds ==
  \A t \in Threads :
    pc[t] = "wait" ~> (pc[t] = "run" \/ (uncounted # {} /\ ~exit_program_flag))

\* If the program exits and its mutators end, before or after the flag is set, and
\* none of them ended while it owed an acknowledgement, then collect_thread returns
\* and so does the join in exit_collect_thread (GCState.cpp 284-290).  A thread that
\* gave up its safe point because of the flag (550) and then ends does owe one: the
\* loop of 454-472, which does not look at the flag, then never ends.
ExitJoins ==
  <>[](exit_program_flag /\ uncounted = {} /\ \A t \in Threads : pc[t] = "off")
    => <>(gc = "exited")
=============================================================================
