----------------------------- MODULE ScanLists -----------------------------
(***************************************************************************)
(* The lists the collector walks: per thread two circular doubly linked    *)
(* lists with a sentinel (CircularDoubleList), one for what is new and one *)
(* for the snapshot, swapped by a flip of ActiveIndex and joined again by  *)
(* merge_collected, and the iterators that walk them while mutators link   *)
(* new cells.  The code keeps one such pair for objects and one for root   *)
(* letters; they are handled alike and one is modelled.                    *)
(*                                                                         *)
(* Handshake has what is needed of the phases here: flip and merge happen  *)
(* with every mutator stopped.  init_thread registers a thread before it   *)
(* takes part in the handshake, so that may happen at any time.            *)
(***************************************************************************)
EXTENDS Integers, FiniteSets

CONSTANTS
  Threads,     \* slots of ScanListsByThread
  Cells,       \* objects, or root letters
  Nil          \* an unset or freed pointer

Sentinels == Threads \X {0, 1}
Nodes == Sentinels \cup Cells

ASSUME NodesAssumption == Nil \notin Nodes /\ Sentinels \cap Cells = {} /\ IsFiniteSet(Cells)

VARIABLES
  next, prev,   \* circular_double_list_next and _prev, Nil where there is no node
  ActiveIndex,
  saved,        \* collectables[2]: where restore and finalize begin
  gc,           \* where the collector is
  todo,         \* the slots its loop has not come to yet
  it,           \* its iterator: the node it is at and the next one, read in advance
  visited,      \* history: cells this walk has come to
  owed,         \* history: cells it has to come to
  late          \* history: threads registered after the last merge and before the flip,
                \* whose walk would begin at a pointer nobody has set (read by the proofs)

rings == <<next, prev>>
slVars == <<rings, ActiveIndex, saved, gc, todo, it, visited, owed, late>>

Nowhere == [center |-> Nil, next |-> Nil]
Registered == {t \in Threads : next[<<t, 0>>] # Nil}
Living == {c \in Cells : next[c] # Nil}
Snapshot == 1 - ActiveIndex

\* The cells of a list, walked from its sentinel.
Ring(s) ==
  LET from[n \in 0 .. Cardinality(Cells)] ==
        [x \in Nodes \cup {Nil} |->
           IF n = 0 \/ x \notin Cells THEN {} ELSE {x} \cup from[n - 1][next[x]]]
  IN  from[Cardinality(Cells)][next[s]]
Active == UNION {Ring(<<t, ActiveIndex>>) : t \in Registered}

SlTypeOK ==
  /\ next \in [Nodes -> Nodes \cup {Nil}] /\ prev \in [Nodes -> Nodes \cup {Nil}]
  /\ ActiveIndex \in {0, 1}
  /\ saved \in [Threads -> Nodes \cup {Nil}]
  /\ gc \in {"idle", "sweep", "merge", "restore", "finalize", "wild"}
  /\ todo \subseteq Threads
  /\ it = Nowhere \/ it \in [center : Nodes, next : Nodes]
  /\ visited \subseteq Cells /\ owed \subseteq Cells /\ late \subseteq Threads

SlInit ==
  /\ next = [n \in Nodes |-> Nil] /\ prev = [n \in Nodes |-> Nil]
  /\ ActiveIndex = 0
  /\ saved = [t \in Threads |-> Nil]
  /\ gc = "idle"
  /\ todo = {} /\ visited = {} /\ owed = {} /\ late = {}
  /\ it = Nowhere

-----------------------------------------------------------------------------
(* The mutators. *)

\* init_thread, for a slot used for the first time: two empty lists, and a third
\* pointer that is what `new ScanLists` found in memory.
Merged(t) == gc \in {"restore", "finalize"} \/ (gc = "merge" /\ t \notin todo)
Register(t) ==
  /\ t \notin Registered
  /\ next' = [n \in Nodes |-> IF n \in {t} \X {0, 1} THEN n ELSE next[n]]
  /\ prev' = [n \in Nodes |-> IF n \in {t} \X {0, 1} THEN n ELSE prev[n]]
  /\ late' = IF Merged(t) THEN late \cup {t} ELSE late
  /\ UNCHANGED <<ActiveIndex, saved, gc, todo, it, visited, owed>>

\* The constructor with _START_: a new cell goes right behind the active sentinel.
Insert(t, c) ==
  LET s == <<t, ActiveIndex>> IN
  /\ t \in Registered
  /\ gc # "merge"
  /\ c \notin Living
  /\ next' = [next EXCEPT ![c] = next[s], ![s] = c]
  /\ prev' = [prev EXCEPT ![c] = s, ![next[s]] = c]
  /\ UNCHANGED <<ActiveIndex, saved, gc, todo, it, visited, owed, late>>

-----------------------------------------------------------------------------
(* The collector. *)

Iterate(n) == [center |-> n, next |-> next[n]]

\* A loop over the slots begins.
StartLoop(where, cells) ==
  /\ gc' = where
  /\ todo' = Threads
  /\ visited' = {}
  /\ owed' = cells

LoopIsOver == todo = {} /\ it = Nowhere

\* The flip: what was active is the snapshot now.
Flip ==
  /\ gc = "idle"
  /\ ActiveIndex' = 1 - ActiveIndex
  /\ StartLoop("sweep", Active)
  /\ late' = {}
  /\ UNCHANGED <<rings, saved, it>>

\* Slots without lists are skipped.
SkipSlot(t) ==
  /\ gc \in {"sweep", "merge", "restore", "finalize"}
  /\ it = Nowhere
  /\ t \in todo \ Registered
  /\ todo' = todo \ {t}
  /\ UNCHANGED <<rings, ActiveIndex, saved, gc, it, visited, owed, late>>

\* _do_collection walks the snapshot list from its sentinel.
SweepSlot(t) ==
  /\ gc = "sweep"
  /\ it = Nowhere
  /\ t \in todo \cap Registered
  /\ todo' = todo \ {t}
  /\ it' = Iterate(<<t, Snapshot>>)
  /\ UNCHANGED <<rings, ActiveIndex, saved, gc, visited, owed, late>>

\* ++it reads the next pointer before the cell can be removed.
Advance(c) == Iterate(c)

\* The destructor of a list cell.
Unlink(c) ==
  /\ next' = [next EXCEPT ![prev[c]] = next[c], ![c] = Nil]
  /\ prev' = [prev EXCEPT ![next[c]] = prev[c], ![c] = Nil]

\* The next cell of the snapshot is kept or deleted, until the sentinel comes round.
SweepCell ==
  LET c == it.next IN
  /\ gc = "sweep"
  /\ it # Nowhere
  /\ \/ /\ c \in Sentinels
        /\ it' = Nowhere
        /\ UNCHANGED <<rings, visited>>
     \/ /\ c \in Cells
        /\ UNCHANGED rings \/ Unlink(c)
        /\ it' = Advance(c)
        /\ visited' = visited \cup {c}
  /\ UNCHANGED <<ActiveIndex, saved, gc, todo, owed, late>>

\* CircularDoubleList::empty, true of a list of one cell as well.
Empty(s) == next[s] = prev[s]

StartMerge ==
  /\ gc = "sweep"
  /\ LoopIsOver
  /\ StartLoop("merge", {})
  /\ UNCHANGED <<rings, ActiveIndex, saved, it, late>>

Merge_Twice(s, d) ==
  IF Empty(s) THEN UNCHANGED rings
  ELSE /\ next' = [next EXCEPT ![prev[s]] = next[d], ![d] = next[s]]
       /\ prev' = [prev EXCEPT ![next[s]] = d, ![next[d]] = prev[s]]
\* merge_from_to: the cells of s go before those of d, and s is empty.
Merge(s, d) ==
  IF Empty(s) THEN UNCHANGED rings
  ELSE /\ next' = [next EXCEPT ![prev[s]] = next[d], ![d] = next[s], ![s] = s]
       /\ prev' = [prev EXCEPT ![next[s]] = d, ![next[d]] = prev[s], ![s] = s]

MergeSlot_SaveFirst(t) ==
  LET active == <<t, ActiveIndex>> IN
  /\ gc = "merge"
  /\ t \in todo \cap Registered
  /\ todo' = todo \ {t}
  /\ Merge(<<t, Snapshot>>, active)
  /\ saved' = [saved EXCEPT ![t] = next[active]]
  /\ UNCHANGED <<ActiveIndex, gc, it, visited, owed, late>>
\* merge_collected, one slot: join the lists and keep the first cell, "save the start
\* before any new allocations".
MergeSlot(t) ==
  LET active == <<t, ActiveIndex>> IN
  /\ gc = "merge"
  /\ t \in todo \cap Registered
  /\ todo' = todo \ {t}
  /\ Merge(<<t, Snapshot>>, active)
  /\ saved' = [saved EXCEPT ![t] = next'[active]]
  /\ UNCHANGED <<ActiveIndex, gc, it, visited, owed, late>>

StartRestore ==
  /\ gc = "merge"
  /\ LoopIsOver
  /\ StartLoop("restore", Active)
  /\ UNCHANGED <<rings, ActiveIndex, saved, it, late>>

\* _do_restore_snapshot and _do_finalize_snapshot walk from the cell that was first at
\* the merge.  From a pointer nobody has set the walk may go anywhere: "wild".
RestoreSlot(t) ==
  /\ gc \in {"restore", "finalize"}
  /\ it = Nowhere
  /\ t \in todo \cap Registered
  /\ todo' = todo \ {t}
  /\ \/ saved[t] # Nil /\ it' = Iterate(saved[t]) /\ UNCHANGED gc
     \/ saved[t] = Nil /\ gc' = "wild" /\ UNCHANGED it
  /\ UNCHANGED <<rings, ActiveIndex, saved, visited, owed, late>>

RestoreCell ==
  /\ gc \in {"restore", "finalize"}
  /\ it # Nowhere
  /\ \/ /\ it.center \in Sentinels
        /\ it' = Nowhere
        /\ UNCHANGED visited
     \/ /\ it.center \in Cells
        /\ it' = Iterate(it.next)
        /\ visited' = visited \cup {it.center}
  /\ UNCHANGED <<rings, ActiveIndex, saved, gc, todo, owed, late>>

StartFinalize ==
  /\ gc = "restore"
  /\ LoopIsOver
  /\ StartLoop("finalize", owed)
  /\ UNCHANGED <<rings, ActiveIndex, saved, it, late>>

EndCollection ==
  /\ gc = "finalize"
  /\ LoopIsOver
  /\ gc' = "idle"
  /\ visited' = {} /\ owed' = {}
  /\ UNCHANGED <<rings, ActiveIndex, saved, todo, it, late>>

-----------------------------------------------------------------------------
SlNext ==
  \/ \E t \in Threads : Register(t) \/ \E c \in Cells : Insert(t, c)
  \/ Flip \/ StartMerge \/ StartRestore \/ StartFinalize \/ EndCollection
  \/ SweepCell \/ RestoreCell
  \/ \E t \in Threads : SkipSlot(t) \/ SweepSlot(t) \/ MergeSlot(t) \/ RestoreSlot(t)

SlSpec == SlInit /\ [][SlNext]_slVars

-----------------------------------------------------------------------------
(* What the lists must guarantee. *)

\* The links lead to nodes, next and prev stay inverse of each other, and every cell is in
\* exactly one list, whatever is linked, deleted and merged in between (Collectable.h 66-92).
RingsOK ==
  /\ SlTypeOK
  /\ \A n \in Living \cup (Registered \X {0, 1}) :
       /\ next[n] # Nil /\ prev[next[n]] = n
       /\ prev[n] # Nil /\ next[prev[n]] = n
  /\ \A c \in Living : \E s \in Registered \X {0, 1} :
       {r \in Registered \X {0, 1} : c \in Ring(r)} = {s}

\* Every walk of the collector comes to every cell it is for, and to no other: at the
\* sweep those of the lists that became the snapshot, when the snapshot is restored and
\* finalized those that were there at the merge, not those linked since (Collectable.h 177).
WalkIsComplete ==
  gc \in {"sweep", "restore", "finalize"} /\ LoopIsOver => visited = owed
=============================================================================
