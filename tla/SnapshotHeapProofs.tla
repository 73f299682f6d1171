------------------------- MODULE SnapshotHeapProofs -------------------------
(***************************************************************************)
(* Proofs about Handshake and, built on it, SnapshotHeap, for any set of   *)
(* threads, objects and root letters: no two write barriers are in use at  *)
(* once, no object in use is ever deleted, the sweep leaves exactly what   *)
(* the snapshot keeps, the snapshot is frozen while it is marked, and      *)
(* mended by the next collection.                                          *)
(***************************************************************************)
EXTENDS SnapshotHeap, TLAPS

-----------------------------------------------------------------------------
(* The handshake *)

\* The phases are a cycle of three, and NOT_MUTATING is none of them (GCState.h 136).
LEMMA HsCycle ==
  ASSUME NEW p \in Phases
  PROVE  /\ Succ(p) \in Phases
         /\ Pred(p) \in Phases
         /\ Pred(Succ(p)) = p
         /\ Succ(Pred(p)) = p
         /\ Succ(p) # p
         /\ Pred(p) # p
         /\ p # "NOT_MUTATING"
BY DEF Phases, Succ, Pred

\* Where a thread can be: with the gate open nobody is left behind, and from an
\* announcement until it opens again those that run, or are late to, are in the phase
\* before, and the others are held (GCState.cpp 402-434, 558-611).
Places ==
  IF open THEN {Out, Runs(phase), Held(phase)}
          ELSE {Out, Runs(Pred(phase)), Held(Pred(phase)), Held(phase)}
Accounted == \A t \in Threads : mode[t] \in Places

HsInv == HsTypeOK /\ Accounted

LEMMA HsInvInit == HsInit => HsInv
BY DEF HsInit, HsInv, HsTypeOK, Accounted, Places, Phases, Modes

\* What a thread's own step makes of its mode, the gate and the phase being as they were.
LEMMA HsThread ==
  ASSUME HsInv, NEW t \in Threads, Stop(t) \/ Resume(t) \/ Leave(t) \/ Enter(t)
  PROVE  HsInv'
<1>1. /\ UNCHANGED <<phase, open>>
      /\ \E m \in Modes \cap Places : mode' = [mode EXCEPT ![t] = m]
  <2>0. mode[t] \in Modes /\ mode[t] \in Places /\ phase \in Phases /\ Pred(phase) \in Phases
    BY HsCycle DEF HsInv, HsTypeOK, Accounted
  <2>1. CASE Stop(t)
    <3>1. Held(phase) \in Modes \cap Places
      BY <2>0, <2>1 DEF Stop, Modes, Places
    <3> QED
      BY <2>1, <3>1 DEF Stop
  <2>2. CASE Resume(t)
    <3>1. CASE open /\ mode[t] = Held(phase)
      <4>1. mode[t].in = phase /\ Runs(phase) \in Modes \cap Places
        BY <2>0, <3>1 DEF Modes, Places, Held
      <4> QED
        BY <2>2, <4>1 DEF Resume
    <3>2. CASE ~open /\ mode[t] = Held(Pred(phase))
      <4>1. mode[t].in = Pred(phase) /\ Runs(Pred(phase)) \in Modes \cap Places
        BY <2>0, <3>2 DEF Modes, Places, Held
      <4> QED
        BY <2>2, <4>1 DEF Resume
    <3> QED
      BY <2>2, <3>1, <3>2 DEF Resume
  <2>3. CASE Leave(t)
    BY <2>3 DEF Leave, Modes, Places
  <2>4. CASE Enter(t)
    <3>1. (IF open THEN Runs(phase) ELSE Held(phase)) \in Modes \cap Places
      BY <2>0 DEF Modes, Places
    <3> QED
      BY <2>4, <3>1 DEF Enter
  <2> QED
    BY <2>1, <2>2, <2>3, <2>4
<1>2. Places' = Places
  BY <1>1 DEF Places
<1>3. PICK m \in Modes \cap Places : mode' = [mode EXCEPT ![t] = m]
  BY <1>1
<1> QED
  BY <1>1, <1>2, <1>3 DEF HsInv, HsTypeOK, Accounted

\* Every step of the handshake keeps the account.
LEMMA HsInvStep == HsInv /\ [HsNext]_hsVars => HsInv'
<1> SUFFICES ASSUME HsInv, [HsNext]_hsVars PROVE HsInv'
  OBVIOUS
<1>1. CASE Announce
  <2>1. phase \in Phases /\ phase' \in Phases /\ Pred(phase') = phase
    BY <1>1, HsCycle DEF Announce, HsInv, HsTypeOK
  <2>2. Places \subseteq Places'
    BY <1>1, <2>1 DEF Announce, Places
  <2> QED
    BY <1>1, <2>1, <2>2 DEF Announce, HsInv, HsTypeOK, Accounted
<1>2. CASE Open
  BY <1>2 DEF Open, HsInv, HsTypeOK, Accounted, Places
<1>3. CASE \E t \in Threads : Stop(t) \/ Resume(t) \/ Leave(t) \/ Enter(t)
  BY <1>3, HsThread
<1>4. CASE UNCHANGED hsVars
  BY <1>4 DEF hsVars, HsInv, HsTypeOK, Accounted, Places
<1> QED
  BY <1>1, <1>2, <1>3, <1>4 DEF HsNext

LEMMA HsOneBarrier == HsInv => OneBarrier
<1> SUFFICES ASSUME HsInv PROVE OneBarrier
  OBVIOUS
<1>1. ASSUME NEW t \in Threads, open
      PROVE  mode[t].in \in {phase, "NOT_MUTATING"}
  BY <1>1 DEF HsInv, Accounted, Places, Out, Runs, Held
<1>2. ASSUME NEW t \in Threads, mode[t].st = "run"
      PROVE  mode[t].in = IF open THEN phase ELSE Pred(phase)
  BY <1>2 DEF HsInv, Accounted, Places, Out, Runs, Held
<1> QED
  BY <1>1, <1>2 DEF OneBarrier

\* The word, the gate and every thread's mode stay in range (GCState.h 136-150).
THEOREM HsTypeCorrect == HsSpec => []HsTypeOK
<1>1. HsInv => HsTypeOK
  BY DEF HsInv
<1> QED
  BY <1>1, HsInvInit, HsInvStep, PTL DEF HsSpec

\* Whatever runs beside the handshake: no mutator runs with the barrier of another phase
\* than the collector works in, nor with another one than the other mutators
\* (GCState.cpp 437, 474, 510, 558-611).
THEOREM HandshakeHasOneBarrier == HsSpec => []OneBarrier
<1> QED
  BY HsInvInit, HsInvStep, HsOneBarrier, PTL DEF HsSpec

-----------------------------------------------------------------------------
(* The inductive invariant: BaseInv /\ (left \/ HeapInv) *)

\* Where the collector is says which phase is announced and whether the gate is open; its
\* loops and what they keep between them are empty elsewhere (GCState.cpp 402-513).
PlaceOK ==
  /\ open <=> gc # "border"
  /\ gc \in {"idle", "finalize"} => phase = "NOT_COLLECTING"
  /\ gc \in {"roots", "sweep"} => phase = "COLLECTING"
  /\ gc = "restore" => phase = "RESTORING_SNAPSHOT"
  /\ gc \in {"idle", "border"} => todo = {}
  /\ gc # "roots" => grey = {}
  /\ gc # "restore" => temp = NoTemp
  /\ gc = "restore" => todo \subseteq scan
  /\ temp # NoTemp => temp.cell \in scan

\* What holds whatever the merges have left behind.
BaseInv == ShTypeOK /\ HsInv /\ PlaceOK

\* The rest holds until the first merge that leaves a cell behind.  The snapshot's lists are
\* empty from one merge to the next flip.
StageOK ==
  /\ PlaceOK
  /\ (In("snapshot") # {}) =>
       gc \in {"roots", "sweep"} \/ (gc = "border" /\ phase = "RESTORING_SNAPSHOT")

\* The two halves of a pointer differ only in cells that are still to be restored, from the
\* merge of the lists until the next flip.
Listed == {c \in Cells : list[c] # "free"}
Split == {c \in Listed : ptr[c].cur # ptr[c].snap}
HalvesOK ==
  /\ gc \in {"idle", "finalize"} => Split \subseteq todo
  /\ gc = "border" /\ phase = "COLLECTING" => Split = {}
  /\ gc = "restore" \/ (gc = "border" /\ phase = "NOT_COLLECTING") => Split \subseteq scan

\* C holds what is marked and what the roots yet to be marked from refer to, and the snapshot
\* does not lead out of it.
Covers(C) ==
  /\ marked \subseteq C
  /\ \A l \in todo \cap wasOwned : ptr[l].snap \in C \cup {Null}
  /\ \A o \in C : ptr[o].snap \in C \cup {Null}

\* A mark never outlives the sweep.
NoMarks == gc \notin {"roots", "sweep"} => marked = {}

\* Nothing is marked that the snapshot does not keep, and what it keeps can still be reached
\* from what is marked and from the roots to come.
PromiseOK ==
  gc \in {"roots", "sweep"} =>
    /\ promised \subseteq In("snapshot")
    /\ \A o \in promised : ptr[o].snap \in promised \cup {Null}
MarkingOK ==
  gc = "roots" =>
    /\ todo \subseteq In("snapshot") \cap Letters
    /\ marked \subseteq promised
    /\ \A o \in marked \ grey : ptr[o].snap \in marked \cup {Null}
    /\ \A l \in todo \cap wasOwned : ptr[l].snap \in promised \cup {Null}
    /\ \A C \in SUBSET promised : Covers(C) => C = promised
SweepingOK ==
  gc = "sweep" =>
    /\ todo \subseteq In("snapshot") \cap Objects
    /\ marked = promised \cap todo
    /\ In("snapshot") \cap Objects \subseteq promised \cup todo

\* The objects that this collection will not delete: the new ones and those of the snapshot
\* that it keeps. Roots, the pointers of kept objects and what threads hold stay inside.
Kept == IF gc \in {"roots", "sweep"}
        THEN {o \in Objects : list[o] = "active" \/ o \in promised}
        ELSE {o \in Objects : list[o] # "free"}
RootsOK ==
  /\ owned \subseteq wasOwned
  /\ \A l \in wasOwned : list[l] # "free" /\ ptr[l].cur \in Kept \cup {Null}
FieldsOK == \A o \in Kept : ptr[o].cur \in Kept \cup {Null}
HeldOK ==
  \A t \in Threads : /\ reg[t] \in Kept \cup {Null}
                     /\ mode[t].st # "run" => reg[t] = Null

HeapInv ==
  /\ ShTypeOK /\ HsInv
  /\ StageOK /\ HalvesOK /\ NoMarks
  /\ PromiseOK /\ MarkingOK /\ SweepingOK
  /\ RootsOK /\ FieldsOK /\ HeldOK

-----------------------------------------------------------------------------
(* Lemmas on the operators *)

\* Reach holds what it starts from, is closed, and is the least such set.
LEMMA ReachIsLeast ==
  ASSUME NEW from, NEW next \in [Objects -> Values]
  PROVE  /\ Reach(from, next) \subseteq Objects
         /\ from \cap Objects \subseteq Reach(from, next)
         /\ \A x \in Reach(from, next) : next[x] \in Reach(from, next) \cup {Null}
         /\ \A C \in SUBSET Objects :
              (from \cap Objects \subseteq C /\ \A x \in C : next[x] \in C \cup {Null})
                => Reach(from, next) \subseteq C
<1>1. \A C \in SUBSET Objects :
        (from \cap Objects \subseteq C /\ \A x \in C : next[x] \in C \cup {Null})
          => Reach(from, next) \subseteq C
  BY DEF Reach
<1>2. ASSUME NEW x \in Reach(from, next), next[x] # Null
      PROVE  next[x] \in Reach(from, next)
  <2>1. x \in Objects /\ next[x] \in Objects
    BY <1>2 DEF Reach, Values
  <2>2. ASSUME NEW C \in SUBSET Objects,
               from \cap Objects \subseteq C, \A y \in C : next[y] \in C \cup {Null}
        PROVE  next[x] \in C
    <3>1. x \in C
      BY <1>1, <2>2
    <3> QED
      BY <1>2, <2>2, <3>1
  <2> QED
    BY <2>1, <2>2 DEF Reach
<1> QED
  BY <1>1, <1>2 DEF Reach

\* Cells are objects or letters, never both, and handle 0 is neither.
LEMMA CellFacts ==
  /\ Null \notin Cells /\ Null \notin Objects /\ Null \notin Letters
  /\ \A o \in Objects : o \in Cells /\ o \notin Letters /\ o \in Values
  /\ \A l \in Letters : l \in Cells /\ l \notin Objects
  /\ \A c \in Cells : c \in Objects \/ c \in Letters
  /\ Null \in Values
BY CellsAssumption DEF Cells, Values

\* Which barrier a mutator that runs can be using, by what the collector does.
Mending == gc \in {"idle", "restore", "finalize"} \/ (gc = "border" /\ phase # "RESTORING_SNAPSHOT")
LEMMA BarrierInUse ==
  ASSUME BaseInv, NEW t \in Threads, Mutates(t)
  PROVE  /\ gc \in {"roots", "sweep"} => mode[t].in = "COLLECTING"
         /\ Mending => mode[t].in # "COLLECTING"
<1>1. mode[t] \in Places /\ mode[t].st = "run"
  BY DEF BaseInv, HsInv, Accounted, Mutates
<1>2. mode[t].in = IF open THEN phase ELSE Pred(phase)
  BY <1>1 DEF Places, Out, Runs, Held
<1>3. phase \in Phases /\ gc \in {"idle", "border", "roots", "sweep", "restore", "finalize"}
  BY DEF BaseInv, HsInv, HsTypeOK, ShTypeOK
<1>4. PlaceOK
  BY DEF BaseInv
<1>5. CASE open
  BY <1>2, <1>3, <1>4, <1>5 DEF PlaceOK, Mending
<1>6. CASE ~open
  <2>1. Pred("COLLECTING") # "COLLECTING" /\ Pred("NOT_COLLECTING") # "COLLECTING"
    BY DEF Pred, Succ
  <2> QED
    BY <1>2, <1>3, <1>4, <1>6, <2>1 DEF PlaceOK, Mending, Phases
<1> QED
  BY <1>5, <1>6

\* What a write barrier does to the pointer it stores to, and to no other.
LEMMA StoreEffect ==
  ASSUME BaseInv, NEW t \in Threads, Mutates(t), NEW c \in Cells, NEW v \in Values,
         ptr' = Store(c, v, mode[t].in)
  PROVE  /\ ptr' \in [Cells -> [cur : Values, snap : Values]]
         /\ \A x \in Cells : x # c => ptr'[x] = ptr[x]
         /\ ptr'[c].cur = v
         /\ gc \in {"roots", "sweep"} => ptr'[c].snap = ptr[c].snap
         /\ Mending => ptr'[c].snap = v
<1>1. ptr \in [Cells -> [cur : Values, snap : Values]]
  BY DEF BaseInv, ShTypeOK
<1>2. ptr' = [ptr EXCEPT ![c] = Pair(v, IF mode[t].in = "COLLECTING" THEN ptr[c].snap ELSE v)]
  BY DEF Store
<1>3. (IF mode[t].in = "COLLECTING" THEN ptr[c].snap ELSE v) \in Values
  BY <1>1
<1> QED
  BY <1>1, <1>2, <1>3, BarrierInUse DEF Pair

-----------------------------------------------------------------------------
(* What holds whatever the merges have left behind *)

LEMMA StrongIsBase == HeapInv => BaseInv
BY DEF HeapInv, StageOK, BaseInv

LEMMA BaseFacts ==
  ASSUME BaseInv
  PROVE  /\ ptr \in [Cells -> [cur : Values, snap : Values]]
         /\ list \in [Cells -> {"active", "snapshot", "free"}]
         /\ reg \in [Threads -> Values]
BY DEF BaseInv, ShTypeOK

LEMMA BaseInit == Init => BaseInv
<1> SUFFICES ASSUME Init PROVE BaseInv
  OBVIOUS
<1>1. HsInv
  BY HsInvInit DEF Init
<1>2. ShTypeOK
  BY <1>1, CellFacts DEF Init, ShTypeOK, HsInv, Pair, NoTemp
<1>3. PlaceOK
  BY DEF Init, HsInit, PlaceOK
<1> QED
  BY <1>1, <1>2, <1>3 DEF BaseInv

\* The collector and the handshake stand still while a mutator stores, loads and allocates.
LEMMA BaseQuiet ==
  ASSUME BaseInv, UNCHANGED <<hsVars, work>>,
         ptr' \in [Cells -> [cur : Values, snap : Values]],
         list' \in [Cells -> {"active", "snapshot", "free"}],
         home' \in [Cells -> Threads \cup {Null}],
         owned' \subseteq Letters, wasOwned' \subseteq Letters, reg' \in [Threads -> Values]
  PROVE  BaseInv'
<1>1. /\ UNCHANGED <<phase, open, mode>>
      /\ UNCHANGED <<marked, gc, todo, grey, temp, scan, promised, left>>
  BY DEF hsVars, work
<1>2. HsInv'
  BY HsInvStep DEF BaseInv
<1> QED
  BY <1>1, <1>2 DEF BaseInv, ShTypeOK, HsInv, PlaceOK

LEMMA BaseMutator ==
  ASSUME BaseInv, NEW t \in Threads, Mutator(t)
  PROVE  BaseInv'
<1>0. /\ ptr \in [Cells -> [cur : Values, snap : Values]]
      /\ list \in [Cells -> {"active", "snapshot", "free"}]
      /\ home \in [Cells -> Threads \cup {Null}]
      /\ owned \subseteq Letters /\ wasOwned \subseteq Letters /\ reg \in [Threads -> Values]
      /\ Null \in Values
  BY CellFacts DEF BaseInv, ShTypeOK
<1>1. ASSUME NEW o \in Objects, Alloc(t, o)
      PROVE  BaseInv'
  <2>1. Pair(Null, Null) \in [cur : Values, snap : Values] /\ o \in Cells /\ o \in Values
    BY <1>0, CellFacts DEF Pair
  <2> QED
    BY <1>0, <1>1, <2>1, BaseQuiet DEF Alloc
<1>2. ASSUME Load(t)
      PROVE  BaseInv'
  <2>1. PICK c \in owned \cup ({reg[t]} \cap Objects) : reg' = [reg EXCEPT ![t] = ptr[c].cur]
    BY <1>2 DEF Load
  <2>2. ptr[c].cur \in Values
    BY <1>0, <2>1, CellFacts
  <2> QED
    BY <1>0, <1>2, <2>1, <2>2, BaseQuiet DEF Load
<1>3. ASSUME NEW l \in Letters, AssignRoot(t, l)
      PROVE  BaseInv'
  <2>1. PICK v \in {reg[t], Null} : ptr' = Store(l, v, mode[t].in)
    BY <1>3 DEF AssignRoot
  <2>2. ptr' \in [Cells -> [cur : Values, snap : Values]]
    BY <1>0, <1>3, <2>1, StoreEffect, CellFacts DEF AssignRoot
  <2> QED
    BY <1>0, <1>3, <2>2, BaseQuiet DEF AssignRoot
<1>4. ASSUME NEW l \in Letters, AssignField(t, l)
      PROVE  BaseInv'
  <2>1. ptr[l].cur \in Values /\ reg[t] \in Values
    BY <1>0, CellFacts
  <2>2. /\ ptr[l].cur # Null => ptr[l].cur \in Cells
        /\ reg[t] # Null => reg[t] \in Cells
    BY <2>1, CellFacts DEF Values
  <2>3. ptr' \in [Cells -> [cur : Values, snap : Values]]
    BY <1>4, <2>1, <2>2, StoreEffect DEF AssignField
  <2> QED
    BY <1>0, <1>4, <2>3, BaseQuiet DEF AssignField
<1>5. ASSUME NEW l \in Letters, NewRoot(t, l)
      PROVE  BaseInv'
  <2>1. Pair(reg[t], reg[t]) \in [cur : Values, snap : Values] /\ l \in Cells
    BY <1>0, CellFacts DEF Pair
  <2> QED
    BY <1>0, <1>5, <2>1, BaseQuiet DEF NewRoot
<1>6. ASSUME NEW l \in Letters, DropRoot(t, l)
      PROVE  BaseInv'
  <2>1. wasOwned' \subseteq Letters /\ owned' \subseteq Letters
    BY <1>0, <1>6 DEF DropRoot
  <2> QED
    BY <1>0, <1>6, <2>1, BaseQuiet DEF DropRoot
<1> QED
  BY <1>1, <1>2, <1>3, <1>4, <1>5, <1>6 DEF Mutator

LEMMA BaseSync ==
  ASSUME BaseInv, NEW t \in Threads, Sync(t)
  PROVE  BaseInv'
<1>1. HsInv'
  BY HsThread DEF Sync, BaseInv
<1>2. UNCHANGED <<phase, open>>
  BY DEF Sync, Stop, Resume, Leave, Enter
<1>3. UNCHANGED <<ptr, list, home, owned, wasOwned>>
      /\ UNCHANGED <<marked, gc, todo, grey, temp, scan, promised, left>>
  BY DEF Sync, work
<1>4. reg' \in [Threads -> Values]
  BY CellFacts DEF Sync, BaseInv, ShTypeOK
<1> QED
  BY <1>1, <1>2, <1>3, <1>4 DEF BaseInv, ShTypeOK, HsInv, PlaceOK

\* Borders: the phase and the gate change with the collector's place.
LEMMA BaseBorder ==
  ASSUME BaseInv, StartBorder \/ Flip \/ Merge \/ StartFinalize
  PROVE  BaseInv'
<1>1. HsInv'
  BY HsInvStep DEF BaseInv, HsNext, StartBorder, Flip, Merge, StartFinalize
<1>2. CASE StartBorder
  <2>1. /\ gc = "idle" => phase' = "COLLECTING"
        /\ gc = "sweep" => phase' = "RESTORING_SNAPSHOT"
        /\ gc = "restore" => phase' = "NOT_COLLECTING"
    BY <1>2 DEF BaseInv, PlaceOK, StartBorder, Announce, Succ
  <2> QED
    BY <1>1, <1>2 DEF StartBorder, Announce, heap, BaseInv, HsInv, ShTypeOK, PlaceOK
<1>3. CASE Flip
  <2>1. list \in [Cells -> {"active", "snapshot", "free"}]
    BY DEF BaseInv, ShTypeOK
  <2>2. list' \in [Cells -> {"active", "snapshot", "free"}]
    BY <1>3, <2>1 DEF Flip
  <2>3. promised' \subseteq Objects /\ todo' \subseteq Cells
    BY <1>3 DEF Flip, Reach, In
  <2> QED
    BY <1>1, <1>3, <2>2, <2>3 DEF Flip, Open, BaseInv, HsInv, ShTypeOK, PlaceOK
<1>4. CASE Merge
  <2>1. list \in [Cells -> {"active", "snapshot", "free"}]
    BY DEF BaseInv, ShTypeOK
  <2>2. list' \in [Cells -> {"active", "snapshot", "free"}]
    BY <1>4, <2>1 DEF Merge
  <2>3. scan' \subseteq Cells /\ todo' = scan' /\ promised' = {} /\ left' \in BOOLEAN
    BY <1>4 DEF Merge, BaseInv, ShTypeOK
  <2> QED
    BY <1>1, <1>4, <2>2, <2>3 DEF Merge, Open, BaseInv, HsInv, ShTypeOK, PlaceOK
<1>5. CASE StartFinalize
  BY <1>1, <1>5 DEF StartFinalize, Open, heap, BaseInv, HsInv, ShTypeOK, PlaceOK
<1> QED
  BY <1>2, <1>3, <1>4, <1>5

\* The work of a phase: the handshake is as it was.
LEMMA BaseCollector ==
  ASSUME BaseInv, Collector
  PROVE  BaseInv'
<1>0. /\ ptr \in [Cells -> [cur : Values, snap : Values]]
      /\ list \in [Cells -> {"active", "snapshot", "free"}]
      /\ home \in [Cells -> Threads \cup {Null}]
      /\ Objects \subseteq Cells /\ Letters \subseteq Cells /\ Null \in Values
      /\ Pair(Null, Null) \in [cur : Values, snap : Values]
      /\ NoTemp \in [cell : Cells \cup {Null}, handle : Values]
  BY CellFacts DEF BaseInv, ShTypeOK, Pair, NoTemp
<1>1. ASSUME UNCHANGED hsVars
      PROVE  HsInv' /\ UNCHANGED <<phase, open, mode>>
  BY <1>1, HsInvStep DEF BaseInv, hsVars
<1>2. ASSUME NEW c \in Cells, Delete(c)
      PROVE  /\ ptr' \in [Cells -> [cur : Values, snap : Values]]
             /\ list' \in [Cells -> {"active", "snapshot", "free"}]
             /\ home' \in [Cells -> Threads \cup {Null}]
  BY <1>0, <1>2 DEF Delete
<1>3. CASE StartBorder \/ Flip \/ Merge \/ StartFinalize
  BY <1>3, BaseBorder
<1>4. CASE StartSweep \/ EndCollection
  BY <1>0, <1>1, <1>4 DEF StartSweep, EndCollection, heap, In, BaseInv, HsInv, ShTypeOK, PlaceOK
<1>5. CASE \E l \in Letters : MarkRoot(l)
  BY <1>1, <1>5 DEF MarkRoot, heap, BaseInv, HsInv, ShTypeOK, PlaceOK
<1>6. CASE \E o \in Objects : MarkObject(o)
  BY <1>1, <1>6 DEF MarkObject, heap, BaseInv, HsInv, ShTypeOK, PlaceOK
<1>7. ASSUME NEW l \in Letters, FinishRoot(l)
      PROVE  BaseInv'
  <2>1. /\ ptr' \in [Cells -> [cur : Values, snap : Values]]
        /\ list' \in [Cells -> {"active", "snapshot", "free"}]
        /\ home' \in [Cells -> Threads \cup {Null}]
    BY <1>0, <1>2, <1>7 DEF FinishRoot
  <2> QED
    BY <1>1, <1>7, <2>1 DEF FinishRoot, BaseInv, HsInv, ShTypeOK, PlaceOK
<1>8. ASSUME NEW o \in Objects, Sweep(o)
      PROVE  BaseInv'
  <2>1. /\ ptr' \in [Cells -> [cur : Values, snap : Values]]
        /\ list' \in [Cells -> {"active", "snapshot", "free"}]
        /\ home' \in [Cells -> Threads \cup {Null}]
    BY <1>0, <1>2, <1>8 DEF Sweep
  <2>2. grey' = {} /\ marked' \subseteq Objects
    BY <1>8 DEF Sweep, BaseInv, ShTypeOK, PlaceOK
  <2> QED
    BY <1>1, <1>8, <2>1, <2>2 DEF Sweep, BaseInv, HsInv, ShTypeOK, PlaceOK
<1>9. ASSUME NEW c \in Cells, FastRead(c)
      PROVE  BaseInv'
  <2>1. ptr[c].cur \in Values
    BY <1>0
  <2>2. /\ temp' \in [cell : Cells \cup {Null}, handle : Values]
        /\ temp' # NoTemp => temp'.cell = c
    BY <1>0, <1>9, <2>1 DEF FastRead
  <2>3. c \in scan
    BY <1>9 DEF FastRead, BaseInv, PlaceOK
  <2> QED
    BY <1>1, <1>9, <2>2, <2>3 DEF FastRead, heap, BaseInv, HsInv, ShTypeOK, PlaceOK
<1>10. CASE FastWrite
  <2>1. temp.cell \in Cells /\ temp.handle \in Values
    BY <1>10 DEF FastWrite, BaseInv, PlaceOK, ShTypeOK
  <2>2. ptr' \in [Cells -> [cur : Values, snap : Values]]
    BY <1>0, <1>10, <2>1 DEF FastWrite
  <2> QED
    BY <1>0, <1>1, <1>10, <2>2 DEF FastWrite, BaseInv, HsInv, ShTypeOK, PlaceOK
<1>11. ASSUME NEW c \in Cells, Restore(c)
       PROVE  BaseInv'
  <2>1. ptr' \in [Cells -> [cur : Values, snap : Values]]
    BY <1>0, <1>11 DEF Restore
  <2> QED
    BY <1>1, <1>11, <2>1 DEF Restore, BaseInv, HsInv, ShTypeOK, PlaceOK
<1> QED
  BY <1>3, <1>4, <1>5, <1>6, <1>7, <1>8, <1>9, <1>10, <1>11 DEF Collector

LEMMA BaseStep == BaseInv /\ [Next]_vars => BaseInv'
<1> SUFFICES ASSUME BaseInv, [Next]_vars PROVE BaseInv'
  OBVIOUS
<1>1. CASE Next
  BY <1>1, BaseMutator, BaseSync, BaseCollector DEF Next
<1>2. CASE UNCHANGED vars
  <2>1. /\ UNCHANGED <<ptr, list, home, owned, wasOwned, reg>> /\ UNCHANGED work
        /\ UNCHANGED hsVars
    BY <1>2 DEF vars, heap
  <2> QED
    BY <2>1, BaseQuiet DEF BaseInv, ShTypeOK
<1> QED
  BY <1>1, <1>2


-----------------------------------------------------------------------------
(* Steps of the mutators *)

\* What holds of the marking and the sweep stays true as long as the collector's own
\* variables, the cells of the snapshot, their snapshot halves and its roots do.
LEMMA SnapshotKept ==
  ASSUME HeapInv, UNCHANGED <<hsVars, work>>,
         In("snapshot")' = In("snapshot"),
         gc \in {"roots", "sweep"} =>
           /\ \A c \in In("snapshot") : ptr'[c].snap = ptr[c].snap
           /\ todo \cap wasOwned' = todo \cap wasOwned
  PROVE  StageOK' /\ NoMarks' /\ PromiseOK' /\ MarkingOK' /\ SweepingOK'
<1>1. UNCHANGED <<phase, open, mode, marked, gc, todo, grey, temp, scan, promised, left>>
  BY DEF hsVars, work
<1>2. StageOK' /\ NoMarks'
  BY <1>1 DEF HeapInv, StageOK, PlaceOK, NoMarks
<1>3. PromiseOK'
  BY <1>1 DEF HeapInv, PromiseOK
<1>4. MarkingOK'
  <2> SUFFICES ASSUME gc = "roots" PROVE MarkingOK'
    BY <1>1 DEF MarkingOK
  <2>1. /\ promised \subseteq In("snapshot") /\ marked \subseteq promised
        /\ todo \subseteq In("snapshot")
        /\ \A C \in SUBSET promised : Covers(C) => C = promised
    BY DEF HeapInv, PromiseOK, MarkingOK
  <2>2. ASSUME NEW C \in SUBSET promised, Covers(C)' PROVE Covers(C)
    BY <1>1, <2>1, <2>2 DEF Covers
  <2>3. \A C \in SUBSET promised' : Covers(C)' => C = promised'
    BY <1>1, <2>1, <2>2
  <2> QED
    BY <1>1, <2>1, <2>3 DEF HeapInv, MarkingOK
<1>5. SweepingOK'
  BY <1>1 DEF HeapInv, SweepingOK
<1> QED
  BY <1>2, <1>3, <1>4, <1>5

\* No mutator splits a pointer while the halves are to be brought together.
LEMMA HalvesKept ==
  ASSUME HeapInv, UNCHANGED <<hsVars, work>>, Mending => Split' \subseteq Split
  PROVE  HalvesOK'
<1>1. UNCHANGED <<phase, gc, todo, scan>>
  BY DEF hsVars, work
<1> QED
  BY <1>1 DEF HeapInv, HalvesOK, Mending

\* A store of something kept to the pointer of a kept object or of a letter.
LEMMA InvStore ==
  ASSUME HeapInv, NEW t \in Threads, Mutates(t),
         NEW c \in Cells, c \in Kept \/ c \in owned,
         NEW v \in Kept \cup {Null},
         ptr' = Store(c, v, mode[t].in),
         UNCHANGED <<hsVars, list, home, owned, wasOwned, reg, work>>
  PROVE  HeapInv'
<1>0. /\ UNCHANGED <<phase, open, mode, list, home, owned, wasOwned, reg>>
      /\ UNCHANGED <<marked, gc, todo, grey, temp, scan, promised, left>>
      /\ UNCHANGED <<hsVars, work>>
  BY DEF hsVars, work
<1>1. v \in Values
  BY DEF Kept, Values
<1>2. /\ ptr' \in [Cells -> [cur : Values, snap : Values]]
      /\ \A x \in Cells : x # c => ptr'[x] = ptr[x]
      /\ ptr'[c].cur = v
      /\ gc \in {"roots", "sweep"} => ptr'[c].snap = ptr[c].snap
      /\ Mending => ptr'[c].snap = v
  BY <1>1, StoreEffect, StrongIsBase
<1>3. ShTypeOK'
  BY <1>0, <1>2 DEF HeapInv, ShTypeOK, HsTypeOK
<1>4. HsInv'
  BY <1>0, HsInvStep DEF HeapInv
<1>5. StageOK' /\ NoMarks' /\ PromiseOK' /\ MarkingOK' /\ SweepingOK'
  <2>1. In("snapshot")' = In("snapshot") /\ In("snapshot") \subseteq Cells
    BY <1>0 DEF In
  <2> QED
    BY <1>0, <1>2, <2>1, SnapshotKept
<1>6. HalvesOK'
  <2>1. Mending => Split' \subseteq Split
    BY <1>0, <1>2 DEF Split, Listed
  <2> QED
    BY <1>0, <2>1, HalvesKept
<1>7. Kept' = Kept
  BY <1>0 DEF Kept
<1>8. Kept \subseteq Cells /\ wasOwned \subseteq Cells
  BY CellFacts DEF HeapInv, ShTypeOK, Kept
<1>9. RootsOK' /\ FieldsOK' /\ HeldOK'
  BY <1>0, <1>2, <1>7, <1>8 DEF HeapInv, RootsOK, FieldsOK, HeldOK
<1> QED
  BY <1>3, <1>4, <1>5, <1>6, <1>9 DEF HeapInv

LEMMA InvAssignRoot ==
  ASSUME HeapInv, NEW t \in Threads, NEW l \in Letters, AssignRoot(t, l)
  PROVE  HeapInv'
<1>1. PICK v \in {reg[t], Null} : ptr' = Store(l, v, mode[t].in)
  BY DEF AssignRoot
<1>2. v \in Kept \cup {Null}
  BY <1>1 DEF HeapInv, HeldOK
<1> QED
  BY <1>1, <1>2, InvStore, CellFacts DEF AssignRoot

LEMMA InvAssignField ==
  ASSUME HeapInv, NEW t \in Threads, NEW l \in Letters, AssignField(t, l)
  PROVE  HeapInv'
<1> DEFINE r == ptr[l].cur
<1>1. r \in Kept \cup {Null} /\ reg[t] \in Kept \cup {Null}
  BY DEF AssignField, HeapInv, RootsOK, HeldOK
<1>2. Kept \subseteq Cells
  BY CellFacts DEF Kept
<1>3. CASE r # Null /\ ptr' = Store(r, reg[t], mode[t].in)
  BY <1>1, <1>2, <1>3, InvStore DEF AssignField
<1>4. CASE reg[t] # Null /\ ptr' = Store(reg[t], r, mode[t].in)
  BY <1>1, <1>2, <1>4, InvStore DEF AssignField
<1> QED
  BY <1>3, <1>4 DEF AssignField

\* A new cell: it was in no list, so it is not of the snapshot, and its halves are equal.
LEMMA InvNewCell ==
  ASSUME HeapInv, UNCHANGED <<hsVars, work>>,
         NEW c \in Cells, list[c] = "free",
         NEW v \in Kept \cup {Null},
         list' = [list EXCEPT ![c] = "active"],
         home' \in [Cells -> Threads \cup {Null}],
         ptr' = [ptr EXCEPT ![c] = Pair(v, v)],
         owned' \subseteq Letters, wasOwned' \subseteq Letters, owned' \subseteq wasOwned',
         wasOwned' \subseteq wasOwned \cup {c}, reg' \in [Threads -> Values],
         \A u \in Threads : /\ reg'[u] \in Kept \cup {c, Null}
                            /\ reg'[u] \in Objects \cup {Null}
                            /\ mode[u].st # "run" => reg'[u] = Null,
         wasOwned \subseteq wasOwned'
  PROVE  HeapInv'
<1>0. /\ UNCHANGED <<phase, open, mode>>
      /\ UNCHANGED <<marked, gc, todo, grey, temp, scan, promised, left>>
  BY DEF hsVars, work
<1>1. /\ ptr \in [Cells -> [cur : Values, snap : Values]]
      /\ list \in [Cells -> {"active", "snapshot", "free"}]
      /\ v \in Values
  BY DEF HeapInv, ShTypeOK, Kept, Values
<1>2. /\ ptr' \in [Cells -> [cur : Values, snap : Values]]
      /\ \A x \in Cells : x # c => ptr'[x] = ptr[x]
      /\ ptr'[c].cur = v /\ ptr'[c].snap = v
      /\ list' \in [Cells -> {"active", "snapshot", "free"}]
      /\ \A x \in Cells : x # c => list'[x] = list[x]
      /\ list'[c] = "active"
  BY <1>1 DEF Pair
<1>3. ShTypeOK'
  BY <1>0, <1>2 DEF HeapInv, ShTypeOK, HsTypeOK
<1>4. HsInv'
  BY HsInvStep DEF HeapInv
<1>5. StageOK' /\ NoMarks' /\ PromiseOK' /\ MarkingOK' /\ SweepingOK'
  <2>1. In("snapshot")' = In("snapshot") /\ In("snapshot") \subseteq Cells \ {c}
    BY <1>2 DEF In
  <2>2. gc = "roots" => c \notin todo
    BY <2>1 DEF HeapInv, MarkingOK
  <2>3. gc = "sweep" => c \notin todo \/ c \in Objects
    BY DEF HeapInv, SweepingOK
  <2>4. gc = "sweep" => todo \cap Letters = {}
    BY CellFacts DEF HeapInv, SweepingOK
  <2>5. wasOwned \subseteq Letters
    BY DEF HeapInv, ShTypeOK
  <2>6. gc \in {"roots", "sweep"} => todo \cap wasOwned' = todo \cap wasOwned
    BY <2>2, <2>4, <2>5
  <2>7. \A x \in In("snapshot") : ptr'[x].snap = ptr[x].snap
    BY <1>2, <2>1
  <2> QED
    BY <2>1, <2>6, <2>7, SnapshotKept
<1>6. HalvesOK'
  <2>1. Split' \subseteq Split
    BY <1>1, <1>2 DEF Split, Listed
  <2> QED
    BY <2>1, HalvesKept
<1>7. Kept' = Kept \cup ({c} \cap Objects)
  <2>1. Objects \subseteq Cells
    BY CellFacts
  <2> QED
    BY <1>0, <1>2, <2>1 DEF Kept
<1>8. c \notin Kept
  <2>1. gc \in {"roots", "sweep"} => c \notin promised
    BY DEF HeapInv, PromiseOK, In
  <2> QED
    BY <2>1 DEF Kept
<1>9. Kept \subseteq Cells \ {c} /\ wasOwned \subseteq Cells
  BY <1>8, CellFacts DEF HeapInv, ShTypeOK, Kept
<1>10. FieldsOK'
  BY <1>2, <1>7, <1>9 DEF HeapInv, FieldsOK
<1>11. RootsOK'
  <2>1. ASSUME NEW l \in wasOwned'
        PROVE  list'[l] # "free" /\ ptr'[l].cur \in Kept' \cup {Null}
    <3>1. CASE l = c
      BY <1>2, <1>7, <3>1
    <3>2. CASE l # c
      <4>1. l \in wasOwned
        BY <2>1, <3>2
      <4> QED
        BY <1>2, <1>7, <1>9, <3>2, <4>1 DEF HeapInv, RootsOK
    <3> QED
      BY <3>1, <3>2
  <2> QED
    BY <2>1 DEF RootsOK
<1>12. HeldOK'
  BY <1>0, <1>7, CellFacts DEF HeldOK
<1> QED
  BY <1>3, <1>4, <1>5, <1>6, <1>10, <1>11, <1>12 DEF HeapInv

LEMMA InvAlloc ==
  ASSUME HeapInv, NEW t \in Threads, NEW o \in Objects, Alloc(t, o)
  PROVE  HeapInv'
<1>1. reg' = [reg EXCEPT ![t] = o] /\ reg \in [Threads -> Values] /\ o \in Values
  BY CellFacts DEF Alloc, HeapInv, ShTypeOK
<1>2. reg' \in [Threads -> Values]
  BY <1>1
<1>3. ASSUME NEW u \in Threads
      PROVE  /\ reg'[u] \in Kept \cup {o, Null}
             /\ reg'[u] \in Objects \cup {Null}
             /\ mode[u].st # "run" => reg'[u] = Null
  BY <1>1, <1>2 DEF HeapInv, HeldOK, Values, Alloc, Mutates
<1>4. owned \subseteq Letters /\ wasOwned \subseteq Letters /\ owned \subseteq wasOwned
  BY DEF HeapInv, ShTypeOK, RootsOK
<1>5. /\ UNCHANGED <<hsVars, work>> /\ UNCHANGED <<owned, wasOwned>> /\ list[o] = "free"
      /\ list' = [list EXCEPT ![o] = "active"] /\ ptr' = [ptr EXCEPT ![o] = Pair(Null, Null)]
      /\ home' \in [Cells -> Threads \cup {Null}]
  BY DEF Alloc, HeapInv, ShTypeOK
<1> QED
  BY <1>2, <1>3, <1>4, <1>5, InvNewCell, CellFacts

LEMMA InvNewRoot ==
  ASSUME HeapInv, NEW t \in Threads, NEW l \in Letters, NewRoot(t, l)
  PROVE  HeapInv'
<1>1. reg' = reg /\ reg \in [Threads -> Values] /\ reg[t] \in Kept \cup {Null}
  BY DEF NewRoot, HeapInv, ShTypeOK, HeldOK
<1>2. ASSUME NEW u \in Threads
      PROVE  /\ reg'[u] \in Kept \cup {l, Null}
             /\ reg'[u] \in Objects \cup {Null}
             /\ mode[u].st # "run" => reg'[u] = Null
  BY <1>1 DEF HeapInv, HeldOK, Values
<1>3. /\ owned' \subseteq Letters /\ wasOwned' \subseteq Letters /\ owned' \subseteq wasOwned'
      /\ wasOwned' = wasOwned \cup {l}
  BY DEF NewRoot, HeapInv, ShTypeOK, RootsOK
<1>4. /\ UNCHANGED <<hsVars, work>> /\ list[l] = "free"
      /\ list' = [list EXCEPT ![l] = "active"] /\ ptr' = [ptr EXCEPT ![l] = Pair(reg[t], reg[t])]
      /\ home' \in [Cells -> Threads \cup {Null}]
  BY DEF NewRoot, HeapInv, ShTypeOK
<1> QED
  BY <1>1, <1>2, <1>3, <1>4, InvNewCell, CellFacts

\* Only what threads hold changes, to something kept or to nothing, and the handshake.
LEMMA InvRegs ==
  ASSUME HeapInv, UNCHANGED <<ptr, list, home, owned, wasOwned, work>>,
         UNCHANGED <<phase, open>>, HsInv',
         reg' \in [Threads -> Values],
         \A u \in Threads : /\ reg'[u] \in Kept \cup {Null}
                            /\ mode'[u].st # "run" => reg'[u] = Null
  PROVE  HeapInv'
<1>0. UNCHANGED <<marked, gc, todo, grey, temp, scan, promised, left>>
  BY DEF work
<1>1. ShTypeOK'
  BY <1>0 DEF HeapInv, ShTypeOK, HsInv
<1>2. In("snapshot")' = In("snapshot") /\ Split' = Split /\ Kept' = Kept
  BY <1>0 DEF In, Split, Listed, Kept
<1>3. StageOK' /\ HalvesOK' /\ NoMarks'
  BY <1>0, <1>2 DEF HeapInv, StageOK, PlaceOK, HalvesOK, NoMarks
<1>4. PromiseOK' /\ SweepingOK'
  BY <1>0, <1>2 DEF HeapInv, PromiseOK, SweepingOK
<1>5. MarkingOK'
  <2>1. \A C : Covers(C)' = Covers(C)
    BY <1>0 DEF Covers
  <2> QED
    BY <1>0, <1>2, <2>1 DEF HeapInv, MarkingOK
<1>6. RootsOK' /\ FieldsOK' /\ HeldOK'
  BY <1>2 DEF HeapInv, RootsOK, FieldsOK, HeldOK
<1> QED
  BY <1>1, <1>3, <1>4, <1>5, <1>6 DEF HeapInv

LEMMA InvLoad ==
  ASSUME HeapInv, NEW t \in Threads, Load(t)
  PROVE  HeapInv'
<1>1. PICK c \in owned \cup ({reg[t]} \cap Objects) : reg' = [reg EXCEPT ![t] = ptr[c].cur]
  BY DEF Load
<1>2. ptr[c].cur \in Kept \cup {Null}
  BY <1>1, CellFacts DEF HeapInv, RootsOK, FieldsOK, HeldOK
<1>3. Kept \subseteq Values /\ Null \in Values /\ reg \in [Threads -> Values]
  BY CellFacts DEF Kept, HeapInv, ShTypeOK
<1>4. reg' \in [Threads -> Values]
  BY <1>1, <1>2, <1>3
<1>5. /\ UNCHANGED <<phase, open, mode>> /\ UNCHANGED hsVars
      /\ UNCHANGED <<ptr, list, home, owned, wasOwned, work>>
  BY DEF Load, hsVars
<1>6. HsInv'
  BY <1>5, HsInvStep DEF HeapInv
<1>7. \A u \in Threads : /\ reg'[u] \in Kept \cup {Null}
                         /\ mode'[u].st # "run" => reg'[u] = Null
  BY <1>1, <1>2, <1>3, <1>5 DEF HeapInv, HeldOK, Load, Mutates
<1> QED
  BY <1>4, <1>5, <1>6, <1>7, InvRegs

\* Safe points: a thread that stops holds nothing any more (543-611).
LEMMA InvSync ==
  ASSUME HeapInv, NEW t \in Threads, Sync(t)
  PROVE  HeapInv'
<1>1. /\ UNCHANGED <<phase, open>> /\ UNCHANGED <<ptr, list, home, owned, wasOwned, work>>
  BY DEF Sync, Stop, Resume, Leave, Enter
<1>2. HsInv'
  BY HsThread DEF Sync, HeapInv
<1>3. reg \in [Threads -> Values] /\ mode \in [Threads -> Modes] /\ Null \in Values
  BY CellFacts DEF HeapInv, ShTypeOK, HsTypeOK
<1>4. \A u \in Threads : u # t => mode'[u] = mode[u]
  BY <1>3 DEF Sync, Stop, Resume, Leave, Enter
<1>5. CASE (Stop(t) \/ Leave(t)) /\ reg' = [reg EXCEPT ![t] = Null]
  BY <1>1, <1>2, <1>3, <1>4, <1>5, InvRegs DEF HeapInv, HeldOK
<1>6. CASE (Resume(t) \/ Enter(t)) /\ UNCHANGED reg
  <2>1. mode[t].st # "run"
    BY <1>6 DEF Resume, Enter, Held, Out
  <2> QED
    BY <1>1, <1>2, <1>3, <1>4, <1>6, <2>1, InvRegs DEF HeapInv, HeldOK
<1> QED
  BY <1>5, <1>6 DEF Sync

LEMMA InvDropRoot ==
  ASSUME HeapInv, NEW t \in Threads, NEW l \in Letters, DropRoot(t, l)
  PROVE  HeapInv'
<1>0. /\ UNCHANGED <<phase, open, mode, ptr, list, home, reg>>
      /\ UNCHANGED <<marked, gc, todo, grey, temp, scan, promised, left>>
      /\ UNCHANGED <<hsVars, work>>
  BY DEF DropRoot, hsVars, work
<1>1. HsInv'
  BY <1>0, HsInvStep DEF HeapInv
<1>2. /\ owned' = owned \ {l}
      /\ wasOwned' = wasOwned \/ wasOwned' = wasOwned \ {l}
  BY DEF DropRoot
<1>3. ShTypeOK'
  BY <1>0, <1>2 DEF HeapInv, ShTypeOK, HsTypeOK
<1>4. In("snapshot")' = In("snapshot") /\ Split' = Split /\ Kept' = Kept
  BY <1>0 DEF In, Split, Listed, Kept
<1>5. StageOK' /\ NoMarks' /\ PromiseOK' /\ MarkingOK' /\ SweepingOK'
  <2>1. gc \in {"roots", "sweep"} => wasOwned' = wasOwned
    BY BarrierInUse, StrongIsBase DEF DropRoot
  <2> QED
    BY <1>0, <1>4, <2>1, SnapshotKept
<1>6. HalvesOK'
  BY <1>0, <1>4, HalvesKept
<1>7. RootsOK' /\ FieldsOK' /\ HeldOK'
  BY <1>0, <1>2, <1>4 DEF HeapInv, RootsOK, FieldsOK, HeldOK, DropRoot
<1> QED
  BY <1>1, <1>3, <1>5, <1>6, <1>7 DEF HeapInv

LEMMA InvMutator ==
  ASSUME HeapInv, NEW t \in Threads, Mutator(t)
  PROVE  HeapInv'
BY InvAlloc, InvLoad, InvAssignRoot, InvAssignField, InvNewRoot, InvDropRoot DEF Mutator

-----------------------------------------------------------------------------
(* Steps of the collector: borders *)

\* In every state each cell is in one of its three places, and an object that is not kept
\* is one the sweep has still to come to.
LEMMA ListFacts ==
  ASSUME HeapInv
  PROVE  /\ list \in [Cells -> {"active", "snapshot", "free"}]
         /\ home \in [Cells -> Threads \cup {Null}]
         /\ ptr \in [Cells -> [cur : Values, snap : Values]]
         /\ owned \subseteq wasOwned /\ wasOwned \subseteq Letters
         /\ Kept \subseteq {o \in Objects : list[o] # "free"}
         /\ gc = "sweep" /\ todo = {} => Kept = {o \in Objects : list[o] # "free"}
<1>1. list \in [Cells -> {"active", "snapshot", "free"}] /\ Objects \subseteq Cells
  BY CellFacts DEF HeapInv, ShTypeOK
<1>2. Kept \subseteq {o \in Objects : list[o] # "free"}
  BY <1>1 DEF HeapInv, PromiseOK, Kept, In
<1>3. ASSUME gc = "sweep", todo = {}
      PROVE  Kept = {o \in Objects : list[o] # "free"}
  <2>1. In("snapshot") \cap Objects \subseteq promised
    BY <1>3 DEF HeapInv, SweepingOK
  <2>2. {o \in Objects : list[o] # "free"} \subseteq Kept
    BY <1>1, <1>3, <2>1 DEF Kept, In
  <2> QED
    BY <1>2, <2>2
<1> QED
  BY <1>1, <1>2, <1>3 DEF HeapInv, ShTypeOK, RootsOK

LEMMA InvStartBorder ==
  ASSUME HeapInv, StartBorder
  PROVE  HeapInv'
<1>0. /\ UNCHANGED <<mode, ptr, list, home, owned, wasOwned, reg>>
      /\ UNCHANGED <<marked, todo, grey, temp, scan, promised, left>>
      /\ open /\ ~open' /\ phase' = Succ(phase) /\ gc' = "border" /\ todo = {}
      /\ gc \in {"idle", "sweep", "restore"} /\ temp = NoTemp
  BY DEF StartBorder, Announce, heap
<1>1. HsInv'
  BY HsInvStep DEF HeapInv, StartBorder, HsNext
<1>2. ShTypeOK'
  BY <1>0, <1>1 DEF HeapInv, ShTypeOK, HsInv
<1>3. In("snapshot")' = In("snapshot") /\ Split' = Split
  BY <1>0 DEF In, Split, Listed
<1>4. /\ gc = "idle" => phase' = "COLLECTING"
      /\ gc = "sweep" => phase' = "RESTORING_SNAPSHOT"
      /\ gc = "restore" => phase' = "NOT_COLLECTING"
  BY <1>0 DEF HeapInv, StageOK, PlaceOK, Succ
<1>5. StageOK' /\ HalvesOK'
  BY <1>0, <1>3, <1>4 DEF HeapInv, StageOK, PlaceOK, HalvesOK
<1>6. NoMarks'
  <2>1. marked = {}
    BY <1>0 DEF HeapInv, NoMarks, SweepingOK
  <2> QED
    BY <1>0, <2>1 DEF NoMarks
<1>7. PromiseOK' /\ MarkingOK' /\ SweepingOK'
  BY <1>0 DEF PromiseOK, MarkingOK, SweepingOK
<1>8. Kept' = Kept
  <2>1. Kept' = {o \in Objects : list[o] # "free"}
    BY <1>0 DEF Kept
  <2>2. CASE gc = "sweep"
    BY <1>0, <2>1, <2>2, ListFacts
  <2>3. CASE gc # "sweep"
    BY <1>0, <2>1, <2>3 DEF Kept
  <2> QED
    BY <2>2, <2>3
<1>9. RootsOK' /\ FieldsOK' /\ HeldOK'
  BY <1>0, <1>8 DEF HeapInv, RootsOK, FieldsOK, HeldOK
<1> QED
  BY <1>1, <1>2, <1>5, <1>6, <1>7, <1>9 DEF HeapInv

\* At the flip the halves agree and everybody is held, so what the snapshot keeps is what
\* the roots keep alive: the objects that all later invariants call promised.
LEMMA InvFlip ==
  ASSUME HeapInv, Flip
  PROVE  HeapInv'
<1> DEFINE from == {ptr[l].snap : l \in wasOwned}
           P == Reach(from, Snap)
<1>0. /\ UNCHANGED <<phase, mode, ptr, home, owned, wasOwned, reg, marked, grey, temp, scan, left>>
      /\ gc = "border" /\ phase = "COLLECTING" /\ ~open /\ open' = TRUE
      /\ list' = [c \in Cells |-> CASE list[c] = "active"   -> "snapshot"
                                    [] list[c] = "snapshot" -> "active"
                                    [] list[c] = "free"     -> "free"]
      /\ gc' = "roots" /\ todo' = In("active") \cap Letters /\ promised' = P
      /\ \A t \in Threads : mode[t] \in {Out, Held(phase)}
  BY DEF Flip, Open
<1>1. HsInv'
  BY HsInvStep DEF HeapInv, Flip, HsNext
<1>2. /\ Split = {} /\ marked = {} /\ grey = {} /\ In("snapshot") = {}
  BY <1>0 DEF HeapInv, HalvesOK, NoMarks, StageOK, PlaceOK
<1>3. /\ list \in [Cells -> {"active", "snapshot", "free"}] /\ Objects \subseteq Cells
      /\ ptr \in [Cells -> [cur : Values, snap : Values]] /\ Letters \subseteq Cells
      /\ wasOwned \subseteq Letters
  BY ListFacts, CellFacts
<1>4. Snap \in [Objects -> Values]
  BY <1>3 DEF Snap
<1>5. /\ P \subseteq Objects /\ from \cap Objects \subseteq P
      /\ \A x \in P : ptr[x].snap \in P \cup {Null}
      /\ \A C \in SUBSET Objects :
           (from \cap Objects \subseteq C /\ \A x \in C : ptr[x].snap \in C \cup {Null})
             => P \subseteq C
  BY <1>4, ReachIsLeast DEF Snap
<1>6. \A c \in Cells : list[c] = "active" \/ list[c] = "free"
  BY <1>2, <1>3 DEF In
<1>7. \A c \in Cells : list[c] = "active" => ptr[c].snap = ptr[c].cur
  BY <1>2 DEF Split, Listed
<1>8. P \subseteq Kept
  <2>1. Kept = {o \in Objects : list[o] = "active"}
    BY <1>0, <1>3, <1>6 DEF Kept
  <2>2. from \cap Objects \subseteq Kept
    BY <1>3, <1>6, <1>7, CellFacts DEF HeapInv, RootsOK
  <2>3. \A x \in Kept : ptr[x].snap \in Kept \cup {Null}
    BY <1>3, <1>7, <2>1 DEF HeapInv, FieldsOK
  <2> QED
    BY <1>5, <2>1, <2>2, <2>3
<1>9. \A c \in Cells : list[c] = "active" <=> list'[c] = "snapshot"
  BY <1>0, <1>6
<1>10. \A o \in P : list[o] = "active"
  BY <1>0, <1>3, <1>6, <1>8 DEF Kept
<1>11. wasOwned \subseteq todo'
  BY <1>0, <1>3, <1>6 DEF HeapInv, RootsOK, In
<1>12. ShTypeOK'
  <2>1. list' \in [Cells -> {"active", "snapshot", "free"}]
    BY <1>0, <1>3
  <2>2. todo' \subseteq Cells
    BY <1>0 DEF In
  <2> QED
    BY <1>0, <1>1, <1>5, <2>1, <2>2 DEF HeapInv, ShTypeOK, HsInv
<1>13. StageOK' /\ HalvesOK' /\ NoMarks' /\ SweepingOK'
  BY <1>0, <1>2 DEF HeapInv, StageOK, PlaceOK, HalvesOK, NoMarks, SweepingOK
<1>14. PromiseOK'
  <2>1. P \subseteq In("snapshot")'
    BY <1>3, <1>5, <1>9, <1>10 DEF In
  <2> QED
    BY <1>0, <1>5, <2>1 DEF PromiseOK
<1>15. MarkingOK'
  <2>1. todo' \subseteq In("snapshot")' \cap Letters
    BY <1>0, <1>9 DEF In
  <2>2. \A l \in wasOwned : ptr[l].snap \in P \cup {Null}
    BY <1>3, <1>5 DEF Values
  <2>3. ASSUME NEW C \in SUBSET P, Covers(C)'
        PROVE  C = P
    <3>1. from \cap Objects \subseteq C
      BY <1>0, <1>11, <2>3, CellFacts DEF Covers
    <3>2. \A x \in C : ptr[x].snap \in C \cup {Null}
      BY <1>0, <2>3 DEF Covers
    <3> QED
      BY <1>5, <3>1, <3>2
  <2> QED
    BY <1>0, <1>2, <2>1, <2>2, <2>3 DEF MarkingOK
<1>16. Kept' = P
  BY <1>0, <1>3, <1>5, <1>6, <1>9 DEF Kept
<1>17. RootsOK'
  <2>1. ASSUME NEW l \in wasOwned
        PROVE  list'[l] # "free" /\ ptr[l].cur \in P \cup {Null}
    <3>1. l \in Cells /\ list[l] = "active"
      BY <1>3, <1>6 DEF HeapInv, RootsOK
    <3>2. ptr[l].cur = ptr[l].snap /\ ptr[l].snap \in from /\ ptr[l].snap \in Values
      BY <1>3, <1>7, <3>1
    <3> QED
      BY <1>5, <1>9, <3>1, <3>2 DEF Values
  <2> QED
    BY <1>0, <1>16, <2>1 DEF HeapInv, RootsOK
<1>18. FieldsOK'
  BY <1>0, <1>3, <1>5, <1>7, <1>10, <1>16 DEF FieldsOK
<1>19. HeldOK'
  <2>1. \A t \in Threads : mode[t].st # "run"
    BY <1>0 DEF Out, Held
  <2> QED
    BY <1>0, <2>1 DEF HeapInv, HeldOK
<1> QED
  BY <1>1, <1>12, <1>13, <1>14, <1>15, <1>17, <1>18, <1>19 DEF HeapInv

-----------------------------------------------------------------------------
(* Steps of the collector: marking and sweeping *)

\* The heap, the handshake and the collector's place being as they were, only the marking
\* can be disturbed.
LEMMA MarkingFrame ==
  ASSUME HeapInv, UNCHANGED <<hsVars, heap, gc, todo, temp, scan, promised, left>>, gc = "roots"
  PROVE  /\ StageOK' /\ HalvesOK' /\ NoMarks' /\ PromiseOK' /\ SweepingOK' /\ HsInv'
         /\ RootsOK' /\ FieldsOK' /\ HeldOK'
<1>0. /\ UNCHANGED <<phase, open, mode>> /\ UNCHANGED hsVars
      /\ UNCHANGED <<ptr, list, home, owned, wasOwned, reg>>
      /\ UNCHANGED <<gc, todo, temp, scan, promised, left>>
  BY DEF hsVars, heap
<1>1. HsInv'
  BY <1>0, HsInvStep DEF HeapInv
<1>2. In("snapshot")' = In("snapshot") /\ Split' = Split /\ Kept' = Kept
  BY <1>0 DEF In, Split, Listed, Kept
<1>3. StageOK' /\ HalvesOK' /\ NoMarks' /\ PromiseOK' /\ SweepingOK'
  BY <1>0, <1>2 DEF HeapInv, StageOK, PlaceOK, HalvesOK, NoMarks, PromiseOK, SweepingOK
<1>4. RootsOK' /\ FieldsOK' /\ HeldOK'
  BY <1>0, <1>2 DEF HeapInv, RootsOK, FieldsOK, HeldOK
<1> QED
  BY <1>1, <1>3, <1>4

\* Something promised is marked, and is grey until its pointer has been followed (480-532).
LEMMA InvMark ==
  ASSUME HeapInv, UNCHANGED <<hsVars, heap, gc, todo, temp, scan, promised, left>>, gc = "roots",
         NEW found \in SUBSET promised, marked' = marked \cup found,
         grey' \subseteq marked', found \subseteq grey',
         \A o \in marked \ grey' : ptr[o].snap \in marked' \cup {Null}
  PROVE  HeapInv'
<1>0. /\ UNCHANGED <<phase, open, mode>>
      /\ UNCHANGED <<ptr, list, home, owned, wasOwned, reg>>
      /\ UNCHANGED <<gc, todo, temp, scan, promised, left>>
  BY DEF hsVars, heap
<1>1. ShTypeOK'
  BY <1>0 DEF HeapInv, ShTypeOK, HsTypeOK
<1>2. MarkingOK'
  <2>1. In("snapshot")' = In("snapshot")
    BY <1>0 DEF In
  <2>2. marked' \subseteq promised
    BY DEF HeapInv, MarkingOK
  <2>3. \A o \in marked' \ grey' : ptr[o].snap \in marked' \cup {Null}
    OBVIOUS
  <2>4. ASSUME NEW C \in SUBSET promised, Covers(C)' PROVE Covers(C)
    BY <1>0, <2>4 DEF Covers
  <2> QED
    BY <1>0, <2>1, <2>2, <2>3, <2>4 DEF HeapInv, MarkingOK
<1> QED
  BY <1>1, <1>2, MarkingFrame DEF HeapInv

LEMMA InvMarkRoot ==
  ASSUME HeapInv, NEW l \in Letters, MarkRoot(l)
  PROVE  HeapInv'
<1>1. /\ UNCHANGED <<hsVars, heap, gc, todo, temp, scan, promised, left>> /\ gc = "roots"
      /\ marked' = marked \cup {ptr[l].snap} /\ grey' = {ptr[l].snap} /\ grey = {}
      /\ l \in todo \cap wasOwned /\ ptr[l].snap # Null
  BY CellFacts DEF MarkRoot
<1>2. ptr[l].snap \in promised
  BY <1>1 DEF HeapInv, MarkingOK
<1>3. \A o \in marked : ptr[o].snap \in marked \cup {Null}
  BY <1>1 DEF HeapInv, MarkingOK
<1> QED
  BY <1>1, <1>2, <1>3, InvMark

LEMMA InvMarkObject ==
  ASSUME HeapInv, NEW o \in Objects, MarkObject(o)
  PROVE  HeapInv'
<1> DEFINE found == {ptr[o].snap} \cap (Objects \ marked)
<1>1. /\ UNCHANGED <<hsVars, heap, gc, todo, temp, scan, promised, left>> /\ gc = "roots"
      /\ marked' = marked \cup found /\ grey' = (grey \ {o}) \cup found /\ o \in grey
  BY DEF MarkObject
<1>2. o \in promised /\ grey \subseteq marked /\ o \in Cells
  BY <1>1, CellFacts DEF HeapInv, MarkingOK, ShTypeOK
<1>3. ptr[o].snap \in promised \cup {Null}
  BY <1>1, <1>2 DEF HeapInv, PromiseOK
<1>4. found \subseteq promised
  BY <1>3, CellFacts
<1>5. ptr[o].snap \in marked' \cup {Null}
  BY <1>1, <1>2, ListFacts DEF Values
<1>6. \A x \in marked \ grey' : ptr[x].snap \in marked' \cup {Null}
  BY <1>1, <1>5 DEF HeapInv, MarkingOK
<1> HIDE DEF found
<1> QED
  BY <1>1, <1>2, <1>4, <1>6, InvMark

\* The collector is done with a root: what it keeps is marked, so it covers nothing new; if
\* nobody owns it any more its letter goes (306-330).
LEMMA InvFinishRoot ==
  ASSUME HeapInv, NEW l \in Letters, FinishRoot(l)
  PROVE  HeapInv'
<1>0. /\ UNCHANGED <<phase, open, mode, owned, reg>> /\ UNCHANGED hsVars
      /\ UNCHANGED <<marked, gc, grey, temp, scan, promised, left>>
      /\ gc = "roots" /\ grey = {} /\ l \in todo
      /\ l \in wasOwned => ptr[l].snap \in marked \cup {Null}
      /\ wasOwned' = IF l \in owned THEN wasOwned ELSE wasOwned \ {l}
      /\ IF l \in owned THEN UNCHANGED <<list, home, ptr>> ELSE Delete(l)
      /\ todo' = todo \ {l}
  BY DEF FinishRoot, hsVars
<1>1. HsInv'
  BY <1>0, HsInvStep DEF HeapInv
<1>2. l \in Cells /\ l \notin Objects /\ Objects \subseteq Cells
  BY CellFacts
<1>3. /\ list' \in [Cells -> {"active", "snapshot", "free"}]
      /\ home' \in [Cells -> Threads \cup {Null}]
      /\ ptr' \in [Cells -> [cur : Values, snap : Values]]
      /\ \A x \in Cells : x # l => list'[x] = list[x] /\ ptr'[x] = ptr[x]
      /\ l \in owned => list' = list /\ ptr' = ptr
      /\ l \notin owned => list'[l] = "free"
  <2>1. CASE l \in owned
    BY <1>0, <2>1, ListFacts
  <2>2. CASE l \notin owned
    BY <1>0, <1>2, <2>2, ListFacts, CellFacts DEF Delete, Pair
  <2> QED
    BY <2>1, <2>2
<1>4. ShTypeOK'
  BY <1>0, <1>3 DEF HeapInv, ShTypeOK, HsTypeOK
<1>5. In("snapshot")' \subseteq In("snapshot") /\ In("snapshot") \subseteq In("snapshot")' \cup {l}
  BY <1>3 DEF In
<1>6. StageOK' /\ NoMarks' /\ HalvesOK' /\ SweepingOK'
  BY <1>0, <1>5 DEF HeapInv, StageOK, PlaceOK, NoMarks, HalvesOK, SweepingOK
<1>7. PromiseOK'
  <2>1. promised \subseteq In("snapshot")'
    BY <1>0, <1>2, <1>5 DEF HeapInv, PromiseOK, ShTypeOK
  <2>2. \A o \in promised : o \in Cells /\ o # l
    BY <1>2 DEF HeapInv, ShTypeOK
  <2> QED
    BY <1>0, <1>3, <2>1, <2>2 DEF HeapInv, PromiseOK
<1>8. MarkingOK'
  <2>1. todo' \subseteq In("snapshot")' \cap Letters
    BY <1>0, <1>5 DEF HeapInv, MarkingOK
  <2>2. \A o \in promised : o \in Cells /\ o # l
    BY <1>2 DEF HeapInv, ShTypeOK
  <2>3. \A x \in todo' \cap wasOwned' : x \in todo \cap wasOwned /\ x # l /\ x \in Cells
    BY <1>0 DEF HeapInv, ShTypeOK
  <2>4. \A x \in todo \cap wasOwned : x = l \/ (x \in todo' \cap wasOwned' /\ x \in Cells)
    BY <1>0 DEF HeapInv, ShTypeOK
  <2>5. ASSUME NEW C \in SUBSET promised, Covers(C)' PROVE Covers(C)
    <3>1. marked \subseteq C
      BY <1>0, <2>5 DEF Covers
    <3>2. \A x \in todo \cap wasOwned : ptr[x].snap \in C \cup {Null}
      BY <1>0, <1>3, <2>4, <2>5, <3>1 DEF Covers
    <3>3. \A o \in C : ptr[o].snap \in C \cup {Null}
      BY <1>3, <2>2, <2>5 DEF Covers
    <3> QED
      BY <3>1, <3>2, <3>3 DEF Covers
  <2>6. \A C \in SUBSET promised' : Covers(C)' => C = promised'
    BY <1>0, <2>5 DEF HeapInv, MarkingOK
  <2>7. marked' \subseteq promised' /\ marked' \subseteq Cells \ {l}
    BY <1>0, <2>2 DEF HeapInv, MarkingOK
  <2>8. \A o \in marked' \ grey' : ptr'[o].snap \in marked' \cup {Null}
    BY <1>0, <1>3, <2>7 DEF HeapInv, MarkingOK
  <2>9. \A x \in todo' \cap wasOwned' : ptr'[x].snap \in promised' \cup {Null}
    BY <1>0, <1>3, <2>3 DEF HeapInv, MarkingOK
  <2> QED
    BY <2>1, <2>6, <2>7, <2>8, <2>9 DEF MarkingOK
<1>9. Kept' = Kept /\ Kept \subseteq Cells \ {l}
  BY <1>0, <1>2, <1>3 DEF Kept
<1>10. RootsOK' /\ FieldsOK' /\ HeldOK'
  <2>1. \A x \in wasOwned' : x \in wasOwned /\ x \in Cells /\ (x # l \/ l \in owned)
    BY <1>0, ListFacts, CellFacts
  <2>2. RootsOK'
    BY <1>0, <1>3, <1>9, <2>1 DEF HeapInv, RootsOK
  <2>3. FieldsOK' /\ HeldOK'
    BY <1>0, <1>3, <1>9 DEF HeapInv, FieldsOK, HeldOK
  <2> QED
    BY <2>2, <2>3
<1> QED
  BY <1>1, <1>4, <1>6, <1>7, <1>8, <1>10 DEF HeapInv

\* Marking is over: nothing is left that the snapshot keeps and that is not marked.
LEMMA InvStartSweep ==
  ASSUME HeapInv, StartSweep
  PROVE  HeapInv'
<1>0. /\ UNCHANGED <<phase, open, mode>> /\ UNCHANGED hsVars
      /\ UNCHANGED <<ptr, list, home, owned, wasOwned, reg>>
      /\ UNCHANGED <<marked, grey, temp, scan, promised, left>>
      /\ gc = "roots" /\ todo = {} /\ grey = {} /\ gc' = "sweep"
      /\ todo' = In("snapshot") \cap Objects
  BY DEF StartSweep, hsVars, heap
<1>1. HsInv'
  BY <1>0, HsInvStep DEF HeapInv
<1>2. ShTypeOK'
  BY <1>0, CellFacts DEF HeapInv, ShTypeOK, HsTypeOK
<1>3. In("snapshot")' = In("snapshot") /\ Split' = Split /\ Kept' = Kept
  BY <1>0 DEF In, Split, Listed, Kept
<1>4. marked = promised
  <2>1. marked \subseteq promised /\ Covers(marked)
    BY <1>0 DEF HeapInv, MarkingOK, Covers
  <2> QED
    BY <1>0, <2>1 DEF HeapInv, MarkingOK
<1>5. StageOK' /\ HalvesOK' /\ NoMarks' /\ PromiseOK' /\ MarkingOK'
  BY <1>0, <1>3 DEF HeapInv, StageOK, PlaceOK, HalvesOK, NoMarks, PromiseOK, MarkingOK
<1>6. SweepingOK'
  BY <1>0, <1>3, <1>4 DEF HeapInv, ShTypeOK, PromiseOK, SweepingOK
<1>7. RootsOK' /\ FieldsOK' /\ HeldOK'
  BY <1>0, <1>3 DEF HeapInv, RootsOK, FieldsOK, HeldOK
<1> QED
  BY <1>1, <1>2, <1>5, <1>6, <1>7 DEF HeapInv

\* One object swept: deleted, if it is not marked, and then it was not a kept one (332-345).
LEMMA InvSweep ==
  ASSUME HeapInv, NEW o \in Objects, Sweep(o)
  PROVE  HeapInv'
<1>0. /\ UNCHANGED <<phase, open, mode, owned, wasOwned, reg>> /\ UNCHANGED hsVars
      /\ UNCHANGED <<gc, grey, temp, scan, promised, left>>
      /\ gc = "sweep" /\ o \in todo /\ todo' = todo \ {o} /\ marked' = marked \ {o}
      /\ IF o \in marked THEN UNCHANGED <<list, home, ptr>> ELSE Delete(o)
  BY DEF Sweep, hsVars
<1>1. HsInv'
  BY <1>0, HsInvStep DEF HeapInv
<1>2. o \in Cells /\ Objects \subseteq Cells /\ Null \in Values
  BY CellFacts
<1>3. /\ list' \in [Cells -> {"active", "snapshot", "free"}]
      /\ home' \in [Cells -> Threads \cup {Null}]
      /\ ptr' \in [Cells -> [cur : Values, snap : Values]]
      /\ \A x \in Cells : x # o => list'[x] = list[x] /\ ptr'[x] = ptr[x]
      /\ o \in marked => list' = list /\ ptr' = ptr
      /\ o \notin marked => list'[o] = "free"
  <2>1. CASE o \in marked
    BY <1>0, <2>1, ListFacts
  <2>2. CASE o \notin marked
    BY <1>0, <1>2, <2>2, ListFacts DEF Delete, Pair
  <2> QED
    BY <2>1, <2>2
<1>4. /\ todo \subseteq In("snapshot") \cap Objects /\ marked = promised \cap todo
      /\ In("snapshot") \cap Objects \subseteq promised \cup todo
      /\ promised \subseteq In("snapshot") /\ grey = {}
  BY <1>0 DEF HeapInv, SweepingOK, PromiseOK, StageOK, PlaceOK
<1>5. o \in promised <=> o \in marked
  BY <1>0, <1>4
<1>6. ShTypeOK'
  BY <1>0, <1>3, <1>4 DEF HeapInv, ShTypeOK, HsTypeOK
<1>7. /\ In("snapshot")' \subseteq In("snapshot")
      /\ In("snapshot") \subseteq In("snapshot")' \cup {o}
      /\ o \in marked => In("snapshot")' = In("snapshot")
      /\ o \notin marked => o \notin In("snapshot")'
  BY <1>3 DEF In
<1>8. StageOK' /\ HalvesOK' /\ NoMarks' /\ MarkingOK'
  BY <1>0, <1>7 DEF HeapInv, StageOK, PlaceOK, HalvesOK, NoMarks, MarkingOK
<1>9. \A x \in promised : ptr'[x] = ptr[x] /\ list'[x] = list[x] /\ x \in Cells
  BY <1>2, <1>3, <1>5 DEF HeapInv, ShTypeOK
<1>10. PromiseOK'
  BY <1>0, <1>4, <1>5, <1>7, <1>9 DEF HeapInv, PromiseOK
<1>11. SweepingOK'
  BY <1>0, <1>4, <1>5, <1>7 DEF SweepingOK
<1>12. Kept' = Kept /\ (\A x \in Kept : ptr'[x] = ptr[x]) /\ Kept \subseteq Cells
  <2>1. list[o] = "snapshot"
    BY <1>0, <1>4 DEF In
  <2>2. \A x \in Objects : (list'[x] = "active" \/ x \in promised)
                              <=> (list[x] = "active" \/ x \in promised)
    BY <1>2, <1>3, <1>5, <1>9, <2>1
  <2>3. Kept' = Kept
    BY <1>0, <2>2 DEF Kept
  <2>4. \A x \in Kept : x \in Cells /\ (x # o \/ o \in marked)
    BY <1>0, <1>2, <1>5, <2>1 DEF Kept
  <2> QED
    BY <1>3, <2>3, <2>4
<1>13. RootsOK' /\ FieldsOK' /\ HeldOK'
  <2>1. \A l \in wasOwned : list'[l] = list[l] /\ ptr'[l] = ptr[l]
    BY <1>3, ListFacts, CellFacts
  <2> QED
    BY <1>0, <1>12, <2>1 DEF HeapInv, RootsOK, FieldsOK, HeldOK
<1> QED
  BY <1>1, <1>6, <1>8, <1>10, <1>11, <1>13 DEF HeapInv

-----------------------------------------------------------------------------
(* Steps of the collector: restoring *)

\* A merge that leaves nothing behind empties the snapshot's lists and has every cell
\* restored.
LEMMA InvMerge ==
  ASSUME HeapInv, Merge
  PROVE  left' \/ HeapInv'
<1> SUFFICES ASSUME ~left' PROVE HeapInv'
  OBVIOUS
<1>0. /\ UNCHANGED <<phase, mode, ptr, home, owned, wasOwned, reg, marked, grey, temp>>
      /\ gc = "border" /\ phase = "RESTORING_SNAPSHOT" /\ open' = TRUE
      /\ scan' = {c \in Cells : list'[c] = "active"}
      /\ todo' = scan' /\ gc' = "restore" /\ promised' = {}
      /\ LeftBehind = {} /\ left' \in BOOLEAN
  BY DEF Merge, Open, HeapInv, ShTypeOK
<1>1. HsInv'
  BY HsInvStep DEF HeapInv, Merge, HsNext
<1>2. list' = [c \in Cells |-> IF list[c] = "snapshot" THEN "active" ELSE list[c]]
  <2>1. \A c \in Cells : (c \in In("snapshot") \ LeftBehind) <=> list[c] = "snapshot"
    BY <1>0 DEF In
  <2> QED
    BY <2>1 DEF Merge
<1>3. /\ list' \in [Cells -> {"active", "snapshot", "free"}]
      /\ \A c \in Cells : list'[c] # "snapshot" /\ (list'[c] = "free" <=> list[c] = "free")
      /\ scan' = Listed
  <2>1. list \in [Cells -> {"active", "snapshot", "free"}]
    BY ListFacts
  <2>2. /\ list' \in [Cells -> {"active", "snapshot", "free"}]
        /\ \A c \in Cells : /\ list'[c] # "snapshot" /\ (list'[c] = "free" <=> list[c] = "free")
                            /\ list'[c] = "active" <=> list[c] # "free"
    BY <1>2, <2>1
  <2> QED
    BY <1>0, <2>2 DEF Listed
<1>4. ShTypeOK'
  BY <1>0, <1>1, <1>3 DEF HeapInv, ShTypeOK, HsInv, Listed
<1>5. In("snapshot")' = {} /\ Split' \subseteq Listed
  BY <1>3 DEF In, Split, Listed
<1>6. marked = {} /\ grey = {} /\ temp = NoTemp
  BY <1>0 DEF HeapInv, NoMarks, StageOK, PlaceOK
<1>7. StageOK' /\ HalvesOK' /\ NoMarks' /\ PromiseOK' /\ MarkingOK' /\ SweepingOK'
  BY <1>0, <1>1, <1>3, <1>5, <1>6
     DEF StageOK, PlaceOK, HalvesOK, NoMarks, PromiseOK, MarkingOK, SweepingOK
<1>8. Kept' = Kept
  BY <1>0, <1>3, CellFacts DEF Kept
<1>9. RootsOK' /\ FieldsOK' /\ HeldOK'
  <2>1. \A l \in wasOwned : l \in Cells
    BY ListFacts, CellFacts
  <2> QED
    BY <1>0, <1>3, <1>8, <2>1 DEF HeapInv, RootsOK, FieldsOK, HeldOK
<1> QED
  BY <1>1, <1>4, <1>7, <1>9 DEF HeapInv

\* A step that only touches snapshot halves or the collector's loops, outside marking and
\* sweeping: what is left to show is where the collector is and which halves differ.
LEMMA RestoreFrame ==
  ASSUME HeapInv, UNCHANGED <<hsVars, list, home, owned, wasOwned, reg, marked, grey, promised, left>>,
         \A c \in Cells : ptr'[c].cur = ptr[c].cur,
         gc \notin {"roots", "sweep"}, gc' \notin {"roots", "sweep"}
  PROVE  /\ HsInv' /\ NoMarks' /\ PromiseOK' /\ MarkingOK' /\ SweepingOK'
         /\ RootsOK' /\ FieldsOK' /\ HeldOK'
<1>0. UNCHANGED <<phase, open, mode>> /\ UNCHANGED hsVars
  BY DEF hsVars
<1>1. HsInv'
  BY <1>0, HsInvStep DEF HeapInv
<1>2. NoMarks' /\ PromiseOK' /\ MarkingOK' /\ SweepingOK'
  BY DEF HeapInv, NoMarks, PromiseOK, MarkingOK, SweepingOK
<1>3. Kept' = Kept /\ Kept \subseteq Cells /\ wasOwned \subseteq Cells
  BY ListFacts, CellFacts DEF Kept
<1> QED
  BY <1>0, <1>1, <1>2, <1>3 DEF HeapInv, RootsOK, FieldsOK, HeldOK

\* fast_restore leaves a split pointer on its list, whether it has read it or mended it: a
\* mutator may have stored to it between the two (GCState.h 112-132).
LEMMA InvFastRead ==
  ASSUME HeapInv, NEW c \in Cells, FastRead(c)
  PROVE  HeapInv'
<1>0. /\ UNCHANGED <<hsVars, list, home, owned, wasOwned, reg, marked, grey, promised, left>>
      /\ UNCHANGED <<phase, open, mode>> /\ UNCHANGED <<ptr, gc, scan>>
      /\ gc = "restore" /\ c \in todo /\ todo' = todo \ {c} /\ temp = NoTemp
      /\ temp' = IF ptr[c].cur # ptr[c].snap THEN [cell |-> c, handle |-> ptr[c].cur] ELSE NoTemp
  BY DEF FastRead, heap, hsVars
<1>1. /\ HsInv' /\ NoMarks' /\ PromiseOK' /\ MarkingOK' /\ SweepingOK'
      /\ RootsOK' /\ FieldsOK' /\ HeldOK'
  BY <1>0, RestoreFrame
<1>2. NoTemp \in [cell : Cells \cup {Null}, handle : Values] /\ NoTemp.cell = Null
  BY CellFacts DEF NoTemp
<1>3. temp' \in [cell : Cells \cup {Null}, handle : Values]
  BY <1>0, <1>2, ListFacts
<1>4. ShTypeOK'
  BY <1>0, <1>3 DEF HeapInv, ShTypeOK, HsTypeOK
<1>5. In("snapshot")' = In("snapshot") /\ Split' = Split
  BY <1>0 DEF In, Split, Listed
<1>6. StageOK' /\ HalvesOK'
  BY <1>0, <1>5 DEF HeapInv, StageOK, PlaceOK, HalvesOK
<1> QED
  BY <1>1, <1>4, <1>6 DEF HeapInv

LEMMA InvFastWrite ==
  ASSUME HeapInv, FastWrite
  PROVE  HeapInv'
<1>0. /\ UNCHANGED <<hsVars, list, home, owned, wasOwned, reg, marked, grey, promised, left>>
      /\ UNCHANGED <<phase, open, mode>> /\ UNCHANGED <<gc, scan, todo>>
      /\ gc = "restore" /\ temp # NoTemp /\ temp' = NoTemp
      /\ ptr' = [ptr EXCEPT ![temp.cell].snap = temp.handle]
  BY DEF FastWrite, hsVars
<1>1. temp.cell \in scan /\ temp.cell \in Cells /\ temp.handle \in Values
  BY <1>0 DEF HeapInv, StageOK, PlaceOK, ShTypeOK
<1>2. /\ ptr' \in [Cells -> [cur : Values, snap : Values]]
      /\ \A x \in Cells : ptr'[x].cur = ptr[x].cur
      /\ \A x \in Cells : x # temp.cell => ptr'[x] = ptr[x]
  BY <1>0, <1>1, ListFacts
<1>3. /\ HsInv' /\ NoMarks' /\ PromiseOK' /\ MarkingOK' /\ SweepingOK'
      /\ RootsOK' /\ FieldsOK' /\ HeldOK'
  BY <1>0, <1>2, RestoreFrame
<1>4. NoTemp \in [cell : Cells \cup {Null}, handle : Values]
  BY CellFacts DEF NoTemp
<1>5. ShTypeOK'
  BY <1>0, <1>2, <1>4 DEF HeapInv, ShTypeOK, HsTypeOK
<1>6. In("snapshot")' = In("snapshot") /\ Split' \subseteq Split \cup {temp.cell}
  BY <1>0, <1>2 DEF In, Split, Listed
<1>7. StageOK' /\ HalvesOK'
  BY <1>0, <1>1, <1>6 DEF HeapInv, StageOK, PlaceOK, HalvesOK
<1> QED
  BY <1>3, <1>5, <1>7 DEF HeapInv

LEMMA InvStartFinalize ==
  ASSUME HeapInv, StartFinalize
  PROVE  HeapInv'
<1>0. /\ UNCHANGED <<phase, mode, ptr, list, home, owned, wasOwned, reg>>
      /\ UNCHANGED <<marked, grey, temp, scan, promised, left>>
      /\ gc = "border" /\ phase = "NOT_COLLECTING" /\ open' = TRUE
      /\ gc' = "finalize" /\ todo' = scan
  BY DEF StartFinalize, Open, heap
<1>1. HsInv'
  BY HsInvStep DEF HeapInv, StartFinalize, HsNext
<1>2. ShTypeOK'
  BY <1>0, <1>1 DEF HeapInv, ShTypeOK, HsInv
<1>3. In("snapshot")' = In("snapshot") /\ Split' = Split /\ Kept' = Kept
  BY <1>0 DEF In, Split, Listed, Kept
<1>4. StageOK' /\ HalvesOK'
  BY <1>0, <1>3 DEF HeapInv, StageOK, PlaceOK, HalvesOK
<1>5. NoMarks' /\ PromiseOK' /\ MarkingOK' /\ SweepingOK'
  BY <1>0 DEF HeapInv, NoMarks, PromiseOK, MarkingOK, SweepingOK
<1>6. RootsOK' /\ FieldsOK' /\ HeldOK'
  BY <1>0, <1>3 DEF HeapInv, RootsOK, FieldsOK, HeldOK
<1> QED
  BY <1>1, <1>2, <1>4, <1>5, <1>6 DEF HeapInv

\* restore is done with a pointer only when its halves are equal.
LEMMA InvRestore ==
  ASSUME HeapInv, NEW c \in Cells, Restore(c)
  PROVE  HeapInv'
<1>0. /\ UNCHANGED <<hsVars, list, home, owned, wasOwned, reg, marked, grey, promised, left>>
      /\ UNCHANGED <<phase, open, mode>> /\ UNCHANGED <<gc, scan, temp>>
      /\ gc = "finalize" /\ c \in todo /\ todo' = todo \ {c}
      /\ ptr' = [ptr EXCEPT ![c].snap = ptr[c].cur]
  BY DEF Restore, hsVars
<1>1. /\ ptr' \in [Cells -> [cur : Values, snap : Values]]
      /\ \A x \in Cells : ptr'[x].cur = ptr[x].cur
      /\ \A x \in Cells : x # c => ptr'[x] = ptr[x]
      /\ ptr'[c].cur = ptr'[c].snap
  BY <1>0, ListFacts
<1>2. /\ HsInv' /\ NoMarks' /\ PromiseOK' /\ MarkingOK' /\ SweepingOK'
      /\ RootsOK' /\ FieldsOK' /\ HeldOK'
  BY <1>0, <1>1, RestoreFrame
<1>3. ShTypeOK'
  BY <1>0, <1>1 DEF HeapInv, ShTypeOK, HsTypeOK
<1>4. In("snapshot")' = In("snapshot") /\ Split' \subseteq Split \ {c}
  BY <1>0, <1>1 DEF In, Split, Listed
<1>5. StageOK' /\ HalvesOK'
  BY <1>0, <1>4 DEF HeapInv, StageOK, PlaceOK, HalvesOK
<1> QED
  BY <1>2, <1>3, <1>5 DEF HeapInv

LEMMA InvEndCollection ==
  ASSUME HeapInv, EndCollection
  PROVE  HeapInv'
<1>0. /\ UNCHANGED <<hsVars, list, home, owned, wasOwned, reg, marked, grey, promised, left>>
      /\ UNCHANGED <<phase, open, mode>> /\ UNCHANGED <<ptr, todo, temp>>
      /\ gc = "finalize" /\ todo = {} /\ gc' = "idle" /\ scan' = {}
  BY DEF EndCollection, hsVars, heap
<1>1. /\ HsInv' /\ NoMarks' /\ PromiseOK' /\ MarkingOK' /\ SweepingOK'
      /\ RootsOK' /\ FieldsOK' /\ HeldOK'
  BY <1>0, RestoreFrame
<1>2. ShTypeOK'
  BY <1>0 DEF HeapInv, ShTypeOK, HsTypeOK
<1>3. In("snapshot")' = In("snapshot") /\ Split' = Split
  BY <1>0 DEF In, Split, Listed
<1>4. StageOK' /\ HalvesOK'
  BY <1>0, <1>3 DEF HeapInv, StageOK, PlaceOK, HalvesOK
<1> QED
  BY <1>1, <1>2, <1>4 DEF HeapInv

LEMMA InvCollector ==
  ASSUME HeapInv, Collector
  PROVE  left' \/ HeapInv'
BY InvStartBorder, InvFlip, InvStartSweep, InvMerge, InvFastWrite, InvStartFinalize,
   InvEndCollection, InvMarkRoot, InvFinishRoot, InvMarkObject, InvSweep, InvFastRead,
   InvRestore
   DEF Collector

-----------------------------------------------------------------------------
(* The theorems *)

LEMMA HeapInit == Init => HeapInv
<1> SUFFICES ASSUME Init PROVE HeapInv
  OBVIOUS
<1>1. HsInv
  BY HsInvInit DEF Init
<1>2. ShTypeOK
  BY <1>1, CellFacts DEF Init, ShTypeOK, HsInv, Pair, NoTemp
<1>3. In("snapshot") = {} /\ Split = {}
  BY DEF Init, In, Split, Listed
<1>4. StageOK /\ HalvesOK /\ NoMarks /\ PromiseOK /\ MarkingOK /\ SweepingOK
  BY <1>3 DEF Init, HsInit, StageOK, PlaceOK, HalvesOK, NoMarks, PromiseOK, MarkingOK, SweepingOK
<1>5. Kept = {}
  BY CellFacts DEF Init, Kept
<1>6. RootsOK /\ FieldsOK /\ HeldOK
  BY <1>5 DEF Init, RootsOK, FieldsOK, HeldOK
<1> QED
  BY <1>1, <1>2, <1>4, <1>6 DEF HeapInv

LEMMA HeapStep == HeapInv /\ [Next]_vars => left' \/ HeapInv'
<1> SUFFICES ASSUME HeapInv, [Next]_vars PROVE left' \/ HeapInv'
  OBVIOUS
<1>1. CASE Next
  BY <1>1, InvMutator, InvSync, InvCollector DEF Next
<1>2. CASE UNCHANGED vars
  <2>1. /\ UNCHANGED <<ptr, list, home, owned, wasOwned, reg>> /\ UNCHANGED work
        /\ UNCHANGED <<phase, open, mode>> /\ UNCHANGED hsVars
    BY <1>2 DEF vars, heap, hsVars
  <2>2. HsInv'
    BY <2>1, HsInvStep DEF HeapInv
  <2> QED
    BY <2>1, <2>2, InvRegs DEF HeapInv, ShTypeOK, HeldOK
<1> QED
  BY <1>1, <1>2

\* What a merge has left behind stays on record.
LEMMA LeftStays == left /\ [Next]_vars => left'
<1> SUFFICES ASSUME left, [Next]_vars PROVE left'
  OBVIOUS
<1>1. ASSUME NEW t \in Threads, Mutator(t) \/ Sync(t) PROVE left'
  BY <1>1 DEF Mutator, Alloc, Load, AssignRoot, AssignField, NewRoot, DropRoot, Sync, work
<1>2. ASSUME Collector PROVE left'
  BY <1>2 DEF Collector, StartBorder, Flip, StartSweep, Merge, FastWrite, StartFinalize,
              EndCollection, MarkRoot, FinishRoot, MarkObject, Sweep, FastRead, Restore
<1>3. CASE UNCHANGED vars
  BY <1>3 DEF vars, work
<1> QED
  BY <1>1, <1>2, <1>3 DEF Next

\* The invariant: always what no merge can disturb, and, until the first merge that leaves a
\* cell behind, all the rest.
LEMMA HeapInvariant == Spec => [](BaseInv /\ (left \/ HeapInv))
<1>1. (left \/ HeapInv) /\ [Next]_vars => (left \/ HeapInv)'
  BY HeapStep, LeftStays
<1> QED
  BY <1>1, HeapInit, BaseInit, BaseStep, PTL DEF Spec

\* Every variable of the heap and of the collector stays in range.
THEOREM HeapTypeCorrect == Spec => []ShTypeOK
<1>1. BaseInv => ShTypeOK
  BY DEF BaseInv
<1> QED
  BY <1>1, HeapInvariant, PTL

\* With the collector at work the mutators still have one write barrier, that of the phase
\* the collector works in (GCState.cpp 437, 474, 510).
THEOREM OneBarrierInHeap == Spec => []OneBarrier
<1>1. BaseInv => OneBarrier
  BY HsOneBarrier DEF BaseInv
<1> QED
  BY <1>1, HeapInvariant, PTL

\* No object that the program can reach from a root or holds is ever deleted, however many
\* mutators store while the collector marks (GCState.cpp 306-345), as long as no merge has
\* left a cell behind (Collectable.h 79-92).
THEOREM LiveObjectsStay == Spec => []NoDangling
<1>1. left \/ HeapInv => NoDangling
  <2> SUFFICES ASSUME HeapInv PROVE ReachableStay
    BY DEF NoDangling
  <2> DEFINE from == {ptr[l].cur : l \in owned} \cup {reg[t] : t \in Threads}
  <2>1. Cur \in [Objects -> Values]
    BY ListFacts, CellFacts DEF Cur
  <2>2. Kept \subseteq Objects /\ from \cap Objects \subseteq Kept
    BY CellFacts DEF HeapInv, RootsOK, HeldOK, Kept
  <2>3. \A x \in Kept : Cur[x] \in Kept \cup {Null}
    BY <2>2 DEF HeapInv, FieldsOK, Cur
  <2> HIDE DEF from
  <2>4. Reach(from, Cur) \subseteq Kept
    BY <2>1, <2>2, <2>3, ReachIsLeast
  <2> QED
    BY <2>4, ListFacts DEF ReachableStay, Live, from
<1> QED
  BY <1>1, HeapInvariant, PTL

\* Where every thread keeps cells of its own, no merge finds a list of one cell (Collectable.h
\* 79), and what the program can reach is never deleted, without any proviso.
THEOREM BusyThreadsLoseNothing == Busy = Threads => (Spec => []ReachableStay)
<1> SUFFICES ASSUME Busy = Threads PROVE Spec => []ReachableStay
  OBVIOUS
<1> DEFINE Homed == \A c \in Cells : list[c] # "free" => home[c] \in Threads
<1>1. Init => Homed /\ ~left
  BY DEF Init
<1>2. BaseInv /\ Homed /\ ~left /\ [Next]_vars => (Homed /\ ~left)'
  <2> SUFFICES ASSUME BaseInv, Homed, ~left, [Next]_vars PROVE Homed' /\ ~left'
    OBVIOUS
  <2>0. /\ list \in [Cells -> {"active", "snapshot", "free"}]
        /\ home \in [Cells -> Threads \cup {Null}]
        /\ Objects \subseteq Cells /\ Letters \subseteq Cells
    BY CellFacts DEF BaseInv, ShTypeOK
  <2>1. ASSUME UNCHANGED <<list, home>> PROVE Homed'
    BY <2>1
  <2>2. ASSUME NEW c \in Cells, Delete(c) PROVE Homed'
    BY <2>0, <2>2 DEF Delete
  <2>3. ASSUME NEW t \in Threads, Mutator(t) \/ Sync(t) PROVE Homed' /\ ~left'
    <3>0. ASSUME NEW c \in Cells, list' = [list EXCEPT ![c] = "active"],
                 home' = [home EXCEPT ![c] = t]
          PROVE  Homed'
      BY <2>0, <3>0
    <3>1. left' = left
      BY <2>3 DEF Mutator, Alloc, Load, AssignRoot, AssignField, NewRoot, DropRoot, Sync, work
    <3>2. CASE \E o \in Objects : Alloc(t, o)
      <4>1. PICK o \in Objects : /\ list' = [list EXCEPT ![o] = "active"]
                                 /\ home' = [home EXCEPT ![o] = t]
        BY <3>2 DEF Alloc
      <4> QED
        BY <2>0, <3>0, <3>1, <4>1
    <3>3. CASE \E l \in Letters : NewRoot(t, l)
      <4>1. PICK l \in Letters : /\ list' = [list EXCEPT ![l] = "active"]
                                 /\ home' = [home EXCEPT ![l] = t]
        BY <3>3 DEF NewRoot
      <4> QED
        BY <2>0, <3>0, <3>1, <4>1
    <3>4. CASE \/ Load(t) \/ Sync(t)
               \/ \E l \in Letters : AssignRoot(t, l) \/ AssignField(t, l) \/ DropRoot(t, l)
      BY <2>1, <3>1, <3>4 DEF Load, Sync, AssignRoot, AssignField, DropRoot
    <3> QED
      BY <2>3, <3>1, <3>2, <3>3, <3>4 DEF Mutator
  <2>4. CASE Flip
    BY <2>0, <2>4 DEF Flip
  <2>5. CASE Merge
    <3>1. LeftBehind = {}
      BY DEF LeftBehind, In
    <3>2. Homed'
      BY <2>0, <2>5 DEF Merge, In
    <3> QED
      BY <2>5, <3>1, <3>2 DEF Merge
  <2>6. CASE \E l \in Letters : FinishRoot(l)
    BY <2>0, <2>1, <2>2, <2>6 DEF FinishRoot
  <2>7. CASE \E o \in Objects : Sweep(o)
    BY <2>0, <2>1, <2>2, <2>7 DEF Sweep
  <2>8. CASE \/ StartBorder \/ StartSweep \/ FastWrite \/ StartFinalize \/ EndCollection
             \/ \E l \in Letters : MarkRoot(l)
             \/ \E o \in Objects : MarkObject(o)
             \/ \E c \in Cells : FastRead(c) \/ Restore(c)
    BY <2>1, <2>8 DEF StartBorder, StartSweep, FastWrite, StartFinalize, EndCollection,
                     MarkRoot, MarkObject, FastRead, Restore, heap
  <2>9. CASE UNCHANGED vars
    BY <2>1, <2>9 DEF vars, heap, work
  <2> QED
    BY <2>3, <2>4, <2>5, <2>6, <2>7, <2>8, <2>9 DEF Next, Collector
<1>3. NoDangling /\ ~left => ReachableStay
  BY DEF NoDangling
<1> QED
  BY <1>1, <1>2, <1>3, HeapInvariant, LiveObjectsStay, PTL DEF Spec

\* When the sweep has come to its end, the objects left of the snapshot are those that the
\* roots of the snapshot kept at the flip, no more and no fewer (306-345), as long as no merge has
\* left a cell behind.
THEOREM SweepLeavesTheSnapshot == Spec => []SweepIsExact
<1>1. left \/ HeapInv => SweepIsExact
  <2> SUFFICES ASSUME HeapInv, gc = "sweep", todo = {}, ~left
               PROVE  In("snapshot") \cap Objects = promised
    BY DEF SweepIsExact
  <2>1. In("snapshot") \cap Objects \subseteq promised /\ promised \subseteq In("snapshot")
    BY DEF HeapInv, SweepingOK, PromiseOK
  <2> QED
    BY <2>1 DEF HeapInv, ShTypeOK
<1> QED
  BY <1>1, HeapInvariant, PTL

\* Whatever fast_restore spoils in a race with a mutator is mended before the next
\* collection can begin (GCState.h 112-132), as long as no merge has left a cell behind.
THEOREM HalvesAgreeAgain == Spec => []SnapshotIsCurrent
<1>1. left \/ HeapInv => SnapshotIsCurrent
  BY DEF HeapInv, SnapshotIsCurrent, HalvesOK, StageOK, PlaceOK, Split, Listed
<1> QED
  BY <1>1, HeapInvariant, PTL

\* No mark is left over for the next collection to trip on (Collectable.h 486), as long as
\* no merge has left a cell behind.
THEOREM MarksAreCleared == Spec => []NoStaleMark
<1>1. left \/ HeapInv => NoStaleMark
  BY DEF HeapInv, NoMarks, NoStaleMark
<1> QED
  BY <1>1, HeapInvariant, PTL

\* The collector marks a snapshot and not a moving target: no step of anybody changes the
\* snapshot half of a pointer that stays in the snapshot (README.md 13).
THEOREM FrozenWhileMarked == Spec => SnapshotIsFrozen
<1> DEFINE Frozen == gc \in {"roots", "sweep"} =>
                       \A c \in Cells : list[c] = "snapshot" /\ list'[c] = "snapshot" =>
                                          ptr'[c].snap = ptr[c].snap
<1>1. BaseInv /\ [Next]_vars => Frozen
  <2> SUFFICES ASSUME BaseInv, [Next]_vars, gc \in {"roots", "sweep"},
                      NEW c \in Cells, list[c] = "snapshot", list'[c] = "snapshot"
               PROVE  ptr'[c].snap = ptr[c].snap
    OBVIOUS
  <2>1. CASE ptr' = ptr
    BY <2>1
  <2>2. ASSUME NEW t \in Threads, NEW x \in Cells, NEW v \in Values, Mutates(t),
               ptr' = Store(x, v, mode[t].in)
        PROVE  ptr'[c].snap = ptr[c].snap
    BY <2>2, StoreEffect
  <2>3. ASSUME NEW t \in Threads, Mutator(t)
        PROVE  ptr'[c].snap = ptr[c].snap
    <3>1. CASE \E o \in Objects : Alloc(t, o)
      BY <3>1, BaseFacts DEF Alloc
    <3>2. CASE Load(t)
      BY <2>1, <3>2 DEF Load
    <3>3. CASE \E l \in Letters : AssignRoot(t, l)
      <4>1. PICK l \in Letters : AssignRoot(t, l)
        BY <3>3
      <4>2. reg[t] \in Values /\ Null \in Values /\ l \in Cells
        BY CellFacts DEF BaseInv, ShTypeOK
      <4> QED
        BY <2>2, <4>1, <4>2 DEF AssignRoot
    <3>4. CASE \E l \in Letters : AssignField(t, l)
      <4>1. PICK l \in Letters : AssignField(t, l)
        BY <3>4
      <4>2. reg[t] \in Values /\ ptr[l].cur \in Values
        BY BaseFacts, CellFacts DEF BaseInv, ShTypeOK
      <4>3. /\ ptr[l].cur # Null => ptr[l].cur \in Cells
            /\ reg[t] # Null => reg[t] \in Cells
        BY <4>2, CellFacts DEF Values
      <4> QED
        BY <2>2, <4>1, <4>2, <4>3 DEF AssignField
    <3>5. CASE \E l \in Letters : NewRoot(t, l)
      BY <3>5, BaseFacts DEF NewRoot
    <3>6. CASE \E l \in Letters : DropRoot(t, l)
      BY <2>1, <3>6 DEF DropRoot
    <3> QED
      BY <2>3, <3>1, <3>2, <3>3, <3>4, <3>5, <3>6 DEF Mutator
  <2>4. ASSUME NEW t \in Threads, Sync(t) PROVE ptr' = ptr
    BY <2>4 DEF Sync
  <2>5. ASSUME Collector PROVE ptr'[c].snap = ptr[c].snap
    <3>1. CASE \E l \in Letters : FinishRoot(l)
      BY <3>1, BaseFacts DEF FinishRoot, Delete
    <3>2. CASE \E o \in Objects : Sweep(o)
      BY <3>2, BaseFacts DEF Sweep, Delete
    <3>3. CASE StartBorder \/ StartSweep \/ (\E l \in Letters : MarkRoot(l))
               \/ (\E o \in Objects : MarkObject(o))
      BY <2>1, <3>3 DEF StartBorder, StartSweep, MarkRoot, MarkObject, heap
    <3>4. ~Flip /\ ~Merge /\ ~FastWrite /\ ~StartFinalize /\ ~EndCollection
      BY DEF Flip, Merge, FastWrite, StartFinalize, EndCollection
    <3>5. \A x \in Cells : ~FastRead(x) /\ ~Restore(x)
      BY DEF FastRead, Restore
    <3> QED
      BY <2>5, <3>1, <3>2, <3>3, <3>4, <3>5 DEF Collector
  <2>6. CASE UNCHANGED vars
    BY <2>1, <2>6 DEF vars, heap
  <2> QED
    BY <2>1, <2>3, <2>4, <2>5, <2>6 DEF Next
<1>2. BaseInv /\ [Next]_vars =>
        [(gc \in {"roots", "sweep"}) =>
           \A c \in Cells : list[c] = "snapshot" /\ list'[c] = "snapshot" =>
                              ptr'[c].snap = ptr[c].snap]_vars
  BY <1>1
<1> QED
  BY <1>2, HeapInvariant, PTL DEF Spec, SnapshotIsFrozen
=============================================================================
