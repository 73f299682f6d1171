---------------------------- MODULE SnapshotHeap ----------------------------
(***************************************************************************)
(* The heap between mutators and collector: pointers that are pairs of     *)
(* handles (a current one and a snapshot), the two write barriers, root    *)
(* letters, and the collector's work in each phase: mark and sweep,        *)
(* restore the snapshot fast, restore it for good.  Phases change as the   *)
(* Handshake says.                                                         *)
(*                                                                         *)
(* Lists are sets here, walked in any order (ScanLists has the links); each *)
(* thread has its own, for objects and for letters. An object has one       *)
(* pointer (Mark has the walk over many), and the program does not exit     *)
(* (PhaseSync has the exit).                                                *)
(***************************************************************************)
EXTENDS Handshake, FiniteSets

CONSTANTS
  Objects,   \* handles of collectable objects
  Letters,   \* root letters
  Busy,      \* threads that keep two objects and two letters besides, that refer only
             \* to each other, as long as the program runs: each list has cells enough
  Null       \* handle 0, collectable_null

Cells == Objects \cup Letters     \* each holds one SnapPtr
Values == Objects \cup {Null}

ASSUME CellsAssumption ==
  /\ Objects \cap Letters = {}
  /\ Null \notin Cells
  /\ Objects # {} /\ Letters # {}
ASSUME BusyAssumption == Busy \subseteq Threads /\ Null \notin Threads

VARIABLES
  ptr,       \* the SnapPtr of each cell: handles[0] is cur, handles[1] is snap
  list,      \* the list a cell is in: lists[ActiveIndex], lists[ActiveIndex ^ 1], none
  home,      \* the thread whose lists those are: the one that made the cell
  owned,     \* letters whose RootPtr exists
  wasOwned,  \* was_owned: letters the running or next collection has to mark from
  reg,       \* a raw pointer a mutator holds between two safe points
  marked,    \* collectable_marked
  gc,        \* where the collector is
  todo,      \* the cells its loop has not come to yet
  grey,      \* marked objects whose pointer it has not followed yet
  temp,      \* the cell and the handle fast_restore has read but not yet copied
  scan,      \* collectables[2] and roots[2]: what restore and finalize walk
  promised,  \* history: what the snapshot keeps alive, taken at the flip
  left       \* history: has a merge left a cell in the snapshot's list?

heap == <<ptr, list, home, owned, wasOwned, reg>>
work == <<marked, gc, todo, grey, temp, scan, promised, left>>
vars == <<hsVars, heap, work>>

Pair(v, w) == [cur |-> v, snap |-> w]
NoTemp == [cell |-> Null, handle |-> Null]

ShTypeOK ==
  /\ HsTypeOK
  /\ ptr \in [Cells -> [cur : Values, snap : Values]]
  /\ list \in [Cells -> {"active", "snapshot", "free"}]
  /\ home \in [Cells -> Threads \cup {Null}]
  /\ owned \subseteq Letters /\ wasOwned \subseteq Letters
  /\ reg \in [Threads -> Values]
  /\ marked \subseteq Objects /\ grey \subseteq marked
  /\ gc \in {"idle", "border", "roots", "sweep", "restore", "finalize"}
  /\ todo \subseteq Cells /\ scan \subseteq Cells
  /\ temp \in [cell : Cells \cup {Null}, handle : Values]
  /\ promised \subseteq Objects /\ left \in BOOLEAN

Init ==
  /\ HsInit
  /\ ptr = [c \in Cells |-> Pair(Null, Null)]
  /\ list = [c \in Cells |-> "free"] /\ home = [c \in Cells |-> Null]
  /\ owned = {} /\ wasOwned = {}
  /\ reg = [t \in Threads |-> Null]
  /\ marked = {} /\ grey = {} /\ todo = {} /\ scan = {} /\ promised = {}
  /\ gc = "idle" /\ left = FALSE
  /\ temp = NoTemp

-----------------------------------------------------------------------------
(* Reachability, through handles[0] for the program, handles[1] for the collector. *)

\* The smallest set that holds what `from` holds and is closed under `next`.
Reach(from, next) ==
  {o \in Objects :
     \A C \in SUBSET Objects :
       (from \cap Objects \subseteq C /\ \A x \in C : next[x] \in C \cup {Null}) => o \in C}

Cur  == [o \in Objects |-> ptr[o].cur]
Snap == [o \in Objects |-> ptr[o].snap]

\* What the program can still get at: from its roots, and from what it holds.
Live == Reach({ptr[l].cur : l \in owned} \cup {reg[t] : t \in Threads}, Cur)

-----------------------------------------------------------------------------
(* The mutators.  A running thread uses the barrier of the phase it runs in. *)

\* collecting_write_barrier stores one handle, regular_write_barrier both.

Store_Double(c, v, p) == [ptr EXCEPT ![c] = Pair(v, v)]
Store(c, v, p) ==
  [ptr EXCEPT ![c] = Pair(v, IF p = "COLLECTING" THEN @.snap ELSE v)]

Mutates(t) == mode[t].st = "run"

\* new: the object joins the active list, its pointer is stored double whatever the
\* phase (InstancePtr's constructor).
Alloc(t, o) ==
  /\ Mutates(t)
  /\ list[o] = "free"
  /\ list' = [list EXCEPT ![o] = "active"] /\ home' = [home EXCEPT ![o] = t]
  /\ ptr' = [ptr EXCEPT ![o] = Pair(Null, Null)]
  /\ reg' = [reg EXCEPT ![t] = o]
  /\ UNCHANGED <<hsVars, owned, wasOwned, work>>

\* get(): load handles[0] of a root, or of the object held.
Load(t) ==
  /\ Mutates(t)
  /\ \E c \in owned \cup ({reg[t]} \cap Objects) : reg' = [reg EXCEPT ![t] = ptr[c].cur]
  /\ UNCHANGED <<hsVars, ptr, list, home, owned, wasOwned, work>>

\* Assign to a root what is held, or null.
AssignRoot(t, l) ==
  /\ Mutates(t)
  /\ l \in owned
  /\ \E v \in {reg[t], Null} : ptr' = Store(l, v, mode[t].in)
  /\ UNCHANGED <<hsVars, list, home, owned, wasOwned, reg, work>>

\* Assign to the pointer of an object: of the object a root refers to what is held,
\* or of the object held what a root refers to.
AssignField(t, l) ==
  /\ Mutates(t)
  /\ l \in owned
  /\ LET r == ptr[l].cur IN
       \/ r # Null /\ ptr' = Store(r, reg[t], mode[t].in)
       \/ reg[t] # Null /\ ptr' = Store(reg[t], r, mode[t].in)
  /\ UNCHANGED <<hsVars, list, home, owned, wasOwned, reg, work>>

\* RootPtr(v): a letter in the active list, stored double whatever the phase.
NewRoot(t, l) ==
  /\ Mutates(t)
  /\ list[l] = "free"
  /\ list' = [list EXCEPT ![l] = "active"] /\ home' = [home EXCEPT ![l] = t]
  /\ ptr' = [ptr EXCEPT ![l] = Pair(reg[t], reg[t])]
  /\ owned' = owned \cup {l}
  /\ wasOwned' = wasOwned \cup {l}
  /\ UNCHANGED <<hsVars, reg, work>>

\* ~RootPtr: while a collection marks, its letter is still part of the snapshot.
DropRoot_Always(t, l) ==
  /\ Mutates(t)
  /\ l \in owned
  /\ owned' = owned \ {l}
  /\ wasOwned' = wasOwned \ {l}
  /\ UNCHANGED <<hsVars, ptr, list, home, reg, work>>
DropRoot(t, l) ==
  /\ Mutates(t)
  /\ l \in owned
  /\ owned' = owned \ {l}
  /\ wasOwned' = IF mode[t].in = "COLLECTING" THEN wasOwned ELSE wasOwned \ {l}
  /\ UNCHANGED <<hsVars, ptr, list, home, reg, work>>

\* Safe points and opt-outs: nothing is held across them but roots.
Sync(t) ==
  /\ \/ (Stop(t) \/ Leave(t)) /\ reg' = [reg EXCEPT ![t] = Null]
     \/ (Resume(t) \/ Enter(t)) /\ UNCHANGED reg
  /\ UNCHANGED <<ptr, list, home, owned, wasOwned, work>>

-----------------------------------------------------------------------------
(* The collector. *)

\* delete: the cell leaves its list, and nothing in it can be read any more.
Delete(c) ==
  /\ list' = [list EXCEPT ![c] = "free"] /\ home' = [home EXCEPT ![c] = Null]
  /\ ptr' = [ptr EXCEPT ![c] = Pair(Null, Null)]

In(which) == {c \in Cells : list[c] = which}

\* one_collect goes on to the next phase change when the work of a phase is done.
StartBorder ==
  /\ gc \in {"idle", "sweep", "restore"}
  /\ todo = {}
  /\ temp = NoTemp
  /\ Announce
  /\ gc' = "border"
  /\ UNCHANGED <<heap, marked, todo, grey, temp, scan, promised, left>>

\* _start_collection flips ActiveIndex, which makes the active lists the snapshot's and
\* the snapshot's, with what a merge has left there, the active ones, and goes on to mark.
Flip ==
  /\ gc = "border"
  /\ phase = "COLLECTING"
  /\ Open
  /\ list' = [c \in Cells |-> CASE list[c] = "active"   -> "snapshot"
                               [] list[c] = "snapshot" -> "active"
                               [] list[c] = "free"     -> "free"]
  /\ gc' = "roots"
  /\ todo' = In("active") \cap Letters
  /\ promised' = Reach({ptr[l].snap : l \in wasOwned}, Snap)
  /\ UNCHANGED <<ptr, home, owned, wasOwned, reg, marked, grey, temp, scan, left>>

MarkRoot_Unmarked(l) ==
  /\ gc = "roots"
  /\ grey = {}
  /\ l \in todo \cap wasOwned
  /\ ptr[l].snap \in Objects \ marked
  /\ grey' = {ptr[l].snap}
  /\ UNCHANGED <<hsVars, heap, marked, gc, todo, temp, scan, promised, left>>
\* _do_collection comes to a root: it marks what the snapshot of a root that was
\* owned refers to.
MarkRoot(l) ==
  /\ gc = "roots"
  /\ grey = {}
  /\ l \in todo \cap wasOwned
  /\ ptr[l].snap \in Objects \ marked
  /\ marked' = marked \cup {ptr[l].snap}
  /\ grey' = {ptr[l].snap}
  /\ UNCHANGED <<hsVars, heap, gc, todo, temp, scan, promised, left>>

\* collectable_mark follows the snapshot of a marked object's pointer.
MarkObject_Cur(o) ==
  LET found == {ptr[o].cur} \cap (Objects \ marked) IN
  /\ gc = "roots"
  /\ o \in grey
  /\ marked' = marked \cup found
  /\ grey' = (grey \ {o}) \cup found
  /\ UNCHANGED <<hsVars, heap, gc, todo, temp, scan, promised, left>>
MarkObject(o) ==
  LET found == {ptr[o].snap} \cap (Objects \ marked) IN
  /\ gc = "roots"
  /\ o \in grey
  /\ marked' = marked \cup found
  /\ grey' = (grey \ {o}) \cup found
  /\ UNCHANGED <<hsVars, heap, gc, todo, temp, scan, promised, left>>

FinishRoot_Kept(l) ==
  /\ gc = "roots"
  /\ grey = {}
  /\ l \in todo
  /\ l \in wasOwned => ptr[l].snap \in marked \cup {Null}
  /\ todo' = todo \ {l}
  /\ UNCHANGED <<hsVars, heap, marked, gc, grey, temp, scan, promised, left>>
\* A root that was owned is marked from; if it is still owned it is owned next time
\* too, and if not its letter is deleted.
FinishRoot(l) ==
  /\ gc = "roots"
  /\ grey = {}
  /\ l \in todo
  /\ l \in wasOwned => ptr[l].snap \in marked \cup {Null}
  /\ wasOwned' = IF l \in owned THEN wasOwned ELSE wasOwned \ {l}
  /\ IF l \in owned THEN UNCHANGED <<list, home, ptr>> ELSE Delete(l)
  /\ todo' = todo \ {l}
  /\ UNCHANGED <<hsVars, owned, reg, marked, gc, grey, temp, scan, promised, left>>

StartSweep ==
  /\ gc = "roots"
  /\ todo = {} /\ grey = {}
  /\ gc' = "sweep"
  /\ todo' = In("snapshot") \cap Objects
  /\ UNCHANGED <<hsVars, heap, marked, grey, temp, scan, promised, left>>

\* Delete an object of the snapshot that is not marked, unmark one that is.
Sweep_KeepMark(o) ==
  /\ gc = "sweep"
  /\ o \in todo
  /\ todo' = todo \ {o}
  /\ IF o \in marked THEN UNCHANGED <<list, home, ptr>> ELSE Delete(o)
  /\ UNCHANGED <<hsVars, owned, wasOwned, reg, marked, gc, grey, temp, scan, promised, left>>
Sweep(o) ==
  /\ gc = "sweep"
  /\ o \in todo
  /\ todo' = todo \ {o}
  /\ IF o \in marked THEN UNCHANGED <<list, home, ptr>> ELSE Delete(o)
  /\ marked' = marked \ {o}
  /\ UNCHANGED <<hsVars, owned, wasOwned, reg, gc, grey, temp, scan, promised, left>>

\* What else is in the list a cell is in: those of objects and of letters are apart.
ListOf(c) ==
  {d \in IF c \in Objects THEN Objects ELSE Letters : list[d] = list[c] /\ home[d] = home[c]}

\* merge_from_to takes a list for empty when its sentinel's next and prev are the same,
\* and so leaves a list of exactly one cell where it is.
LeftBehind == {c \in In("snapshot") : ListOf(c) = {c} /\ home[c] \notin Busy}

\* merge_collected puts the snapshot's lists back into the active ones, and keeps
\* where those begin: what is there now is to be restored.
Merge ==
  /\ gc = "border"
  /\ phase = "RESTORING_SNAPSHOT"
  /\ Open
  /\ list' = [c \in Cells |-> IF c \in In("snapshot") \ LeftBehind THEN "active" ELSE list[c]]
  /\ scan' = {c \in Cells : list'[c] = "active"}
  /\ todo' = scan'
  /\ gc' = "restore"
  /\ promised' = {}
  /\ left' = (left \/ LeftBehind # {})
  /\ UNCHANGED <<ptr, home, owned, wasOwned, reg, marked, grey, temp>>

\* fast_restore reads the pair ...
FastRead(c) ==
  /\ gc = "restore"
  /\ temp = NoTemp
  /\ c \in todo
  /\ todo' = todo \ {c}
  /\ temp' = IF ptr[c].cur # ptr[c].snap THEN [cell |-> c, handle |-> ptr[c].cur] ELSE NoTemp
  /\ UNCHANGED <<hsVars, heap, marked, gc, grey, scan, promised, left>>

\* ... and writes the snapshot half, which a mutator may have stored to meanwhile.
FastWrite ==
  /\ gc = "restore"
  /\ temp # NoTemp
  /\ ptr' = [ptr EXCEPT ![temp.cell].snap = temp.handle]
  /\ temp' = NoTemp
  /\ UNCHANGED <<hsVars, list, home, owned, wasOwned, reg, marked, gc, todo, grey, scan, promised, left>>

\* The third border: _end_sweep goes on to _do_finalize_snapshot.
StartFinalize ==
  /\ gc = "border"
  /\ phase = "NOT_COLLECTING"
  /\ Open
  /\ gc' = "finalize"
  /\ todo' = scan
  /\ UNCHANGED <<heap, marked, grey, temp, scan, promised, left>>

\* restore: its compare-and-swap loop ends with the two halves equal.
Restore_Skip(c) ==
  /\ gc = "finalize"
  /\ c \in todo
  /\ todo' = todo \ {c}
  /\ UNCHANGED <<hsVars, heap, marked, gc, grey, temp, scan, promised, left>>
Restore(c) ==
  /\ gc = "finalize"
  /\ c \in todo
  /\ todo' = todo \ {c}
  /\ ptr' = [ptr EXCEPT ![c].snap = ptr[c].cur]
  /\ UNCHANGED <<hsVars, list, home, owned, wasOwned, reg, marked, gc, grey, temp, scan, promised, left>>

EndCollection ==
  /\ gc = "finalize"
  /\ todo = {}
  /\ gc' = "idle"
  /\ scan' = {}
  /\ UNCHANGED <<hsVars, heap, marked, todo, grey, temp, promised, left>>

-----------------------------------------------------------------------------
Mutator(t) ==
  \/ \E o \in Objects : Alloc(t, o)
  \/ Load(t)
  \/ \E l \in Letters : AssignRoot(t, l) \/ AssignField(t, l) \/ NewRoot(t, l) \/ DropRoot(t, l)

Collector ==
  \/ StartBorder \/ Flip \/ StartSweep \/ Merge \/ FastWrite \/ StartFinalize \/ EndCollection
  \/ \E l \in Letters : MarkRoot(l) \/ FinishRoot(l)
  \/ \E o \in Objects : MarkObject(o) \/ Sweep(o)
  \/ \E c \in Cells : FastRead(c) \/ Restore(c)

Next ==
  \/ \E t \in Threads : Mutator(t) \/ Sync(t)
  \/ Collector

Spec == Init /\ [][Next]_vars

\* Mutators go through safe points; collections keep being asked for and the collector
\* keeps working.  No mutator need ever allocate, store, drop a root or opt in or out.
FairSpec ==
  /\ Spec
  /\ WF_vars(Collector)
  /\ \A t \in Threads : WF_vars((Stop(t) \/ Resume(t)) /\ Sync(t))

-----------------------------------------------------------------------------
(* What the collector must guarantee.  A list of one cell is left behind by the merge:   *)
(* it is not restored, and the next collection neither marks from it nor sweeps it.  The  *)
(* properties that this breaks are stated up to the first merge that leaves a cell        *)
(* behind, and ReachableStay, which is not, is refuted.                                   *)

\* README.md 7, "The other is for root variables and for keeping temporary values on the
\* stack from being collected": what the program can still reach, through its roots or a
\* pointer it holds, is not deleted (GCState.cpp 332-334).
ReachableStay == \A o \in Live : list[o] # "free"

\* No object the program can still reach is ever deleted, whatever mutators store while
\* the collector marks, in what order they make and drop roots and where they opt out,
\* as long as no merge has left a cell behind (GCState.cpp 332-334).
NoDangling == left \/ ReachableStay

\* The collector deletes exactly what the snapshot, taken at the flip, does not keep:
\* marking misses nothing and keeps nothing else (GCState.cpp 306-345), as long as no
\* merge has left a cell behind.
SweepIsExact ==
  gc = "sweep" /\ todo = {} /\ ~left => In("snapshot") \cap Objects = promised

\* When a collection starts, the two halves of every pointer agree again, so that the
\* flip is a snapshot: what fast_restore spoilt in a race, restore has mended
\* (GCState.h 112-132, comment GCState.cpp 129-134), as long as no merge has left a cell
\* behind.
SnapshotIsCurrent ==
  gc = "idle" /\ ~left => \A c \in Cells : list[c] # "free" => ptr[c].cur = ptr[c].snap

\* A mark never outlives the sweep: collectable_mark would take an object that is
\* still marked for one whose pointers have been followed (Collectable.h 486); as long as
\* no merge has left a cell behind.
NoStaleMark == gc \notin {"roots", "sweep"} /\ ~left => marked = {}

\* While the collector marks and sweeps, nobody writes the snapshot half of a pointer
\* that belongs to the snapshot (README.md 13: "the other pointer is considered part of
\* a snapshot that the collector follows").
SnapshotIsFrozen ==
  [][(gc \in {"roots", "sweep"}) =>
       \A c \in Cells : list[c] = "snapshot" /\ list'[c] = "snapshot" =>
                          ptr'[c].snap = ptr[c].snap]_vars

\* What the program can no longer reach is deleted in the end, also when its last root
\* went away in the middle of a collection, and also when a merge has left it behind.
GarbageIsFreed ==
  \A o \in Objects : (list[o] # "free" /\ o \notin Live) ~> list[o] = "free"
=============================================================================
