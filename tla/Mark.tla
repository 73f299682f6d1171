-------------------------------- MODULE Mark --------------------------------
(***************************************************************************)
(* Collectable::collectable_mark (Collectable.h 480-532): marking from one *)
(* root after another without a stack.  The way back from an object is     *)
(* kept in the object, as a pointer to where the walk came from and the    *)
(* number of the pointer it came by.                                       *)
(*                                                                         *)
(* Pointers are the snapshot halves, which do not change while the         *)
(* collector marks (SnapshotIsFrozen of SnapshotHeap).  Between two        *)
(* collections the way back is left as it is.                              *)
(***************************************************************************)
EXTENDS Integers, FiniteSetsExt

CONSTANTS
  Objects,
  MaxVars,   \* bound on the pointers in an object
  Null       \* collectable_null; a root that holds it marks nothing

ASSUME MarkAssumption ==
  /\ IsFiniteSet(Objects) /\ Null \notin Objects /\ MaxVars \in Nat \ {0}

VARIABLES
  vars,      \* total_instance_vars of an object
  ptr,       \* the object behind each of its pointers, 0 first
  live,      \* objects that no collection has deleted
  todo,      \* what the root letters not yet marked from refer to
  done,      \* what those marked from refer to
  marked,    \* collectable_marked
  backPtr,   \* collectable_back_ptr
  backCtr,   \* collectable_back_ptr_from_counter
  this,      \* the object collectable_mark was called for
  c, t,      \* its locals: the object the walk is at, the next pointer to follow
  pc         \* mutate, roots (the loop over root letters), walk

graph == <<vars, ptr, live>>
walk == <<this, c, t>>
mkVars == <<graph, todo, done, marked, backPtr, backCtr, walk, pc>>

Pointers == 0 .. MaxVars - 1
Targets == Objects \cup {Null}

Init ==
  /\ vars \in [Objects -> 0 .. MaxVars]
  /\ ptr \in [Objects -> [Pointers -> Targets]]
  /\ \A o \in Objects, i \in Pointers : i >= vars[o] => ptr[o][i] = Null
  /\ live = Objects
  /\ todo = {} /\ done = {} /\ marked = {}
  /\ backPtr = [o \in Objects |-> Null] /\ backCtr = [o \in Objects |-> 0]
  /\ this = Null /\ c = Null /\ t = 0
  /\ pc = "mutate"

-----------------------------------------------------------------------------
\* _do_collection: the roots of the snapshot.
StartMarking(roots) ==
  /\ pc = "mutate"
  /\ roots \subseteq live
  /\ todo' = roots /\ done' = {}
  /\ pc' = "roots"
  /\ UNCHANGED <<graph, marked, backPtr, backCtr, walk>>

\* collectable_mark is called for the object of a root letter.
MarkRoot(o) ==
  /\ pc = "roots" /\ o \in todo
  /\ todo' = todo \ {o} /\ done' = done \cup {o}
  /\ IF o \in marked THEN UNCHANGED <<marked, walk, pc>>
     ELSE /\ marked' = marked \cup {o}
          /\ this' = o /\ c' = o /\ t' = vars[o] - 1
          /\ pc' = "walk"
  /\ UNCHANGED <<graph, backPtr, backCtr>>

\* A pointer that is not there or leads to nothing, or to an object that has been marked.
Skip ==
  /\ pc = "walk" /\ t >= 0
  /\ ptr[c][t] \in marked \cup {Null}
  /\ t' = t - 1
  /\ UNCHANGED <<graph, todo, done, marked, backPtr, backCtr, this, c, pc>>

Descend_OneMore ==
  /\ pc = "walk" /\ t >= 0
  /\ LET n == ptr[c][t] IN
     /\ n \notin marked \cup {Null}
     /\ marked' = marked \cup {n}
     /\ backCtr' = [backCtr EXCEPT ![n] = t]
     /\ backPtr' = [backPtr EXCEPT ![n] = c]
     /\ c' = n
     /\ t' = vars[n]
  /\ UNCHANGED <<graph, todo, done, this, pc>>
Descend_Unmarked ==
  /\ pc = "walk" /\ t >= 0
  /\ LET n == ptr[c][t] IN
     /\ n \notin marked \cup {Null}
     /\ backCtr' = [backCtr EXCEPT ![n] = t]
     /\ backPtr' = [backPtr EXCEPT ![n] = c]
     /\ c' = n
     /\ t' = vars[n] - 1
  /\ UNCHANGED <<graph, marked, todo, done, this, pc>>
Descend_NoCounter ==
  /\ pc = "walk" /\ t >= 0
  /\ LET n == ptr[c][t] IN
     /\ n \notin marked \cup {Null}
     /\ marked' = marked \cup {n}
     /\ backPtr' = [backPtr EXCEPT ![n] = c]
     /\ c' = n
     /\ t' = vars[n] - 1
  /\ UNCHANGED <<graph, backCtr, todo, done, this, pc>>
Descend ==
  /\ pc = "walk" /\ t >= 0
  /\ LET n == ptr[c][t] IN
     /\ n \notin marked \cup {Null}
     /\ marked' = marked \cup {n}
     /\ backCtr' = [backCtr EXCEPT ![n] = t]
     /\ backPtr' = [backPtr EXCEPT ![n] = c]
     /\ c' = n
     /\ t' = vars[n] - 1
  /\ UNCHANGED <<graph, todo, done, this, pc>>

Return_OfParent ==
  /\ pc = "walk" /\ t < 0 /\ c # this
  /\ c' = backPtr[c]
  /\ t' = backCtr[backPtr[c]] - 1
  /\ UNCHANGED <<graph, todo, done, marked, backPtr, backCtr, this, pc>>
Return ==
  /\ pc = "walk" /\ t < 0 /\ c # this
  /\ c' = backPtr[c]
  /\ t' = backCtr[c] - 1
  /\ UNCHANGED <<graph, todo, done, marked, backPtr, backCtr, this, pc>>

Finish ==
  /\ pc = "walk" /\ t < 0 /\ c = this
  /\ pc' = "roots"
  /\ UNCHANGED <<graph, todo, done, marked, backPtr, backCtr, walk>>

\* The sweep of _do_collection: what is not marked is deleted, the rest is unmarked.
Sweep ==
  /\ pc = "roots" /\ todo = {}
  /\ live' = marked
  /\ marked' = {}
  /\ pc' = "mutate"
  /\ UNCHANGED <<vars, ptr, todo, done, backPtr, backCtr, walk>>

Next ==
  \/ \E roots \in SUBSET Objects : StartMarking(roots)
  \/ \E o \in Objects : MarkRoot(o)
  \/ Skip \/ Descend \/ Return \/ Finish \/ Sweep

Spec == Init /\ [][Next]_mkVars

-----------------------------------------------------------------------------
(* Properties *)

MkTypeOK ==
  /\ vars \in [Objects -> 0 .. MaxVars]
  /\ ptr \in [Objects -> [Pointers -> Targets]]
  /\ live \subseteq Objects /\ todo \subseteq Objects /\ done \subseteq Objects
  /\ marked \subseteq Objects
  /\ backPtr \in [Objects -> Targets] /\ backCtr \in [Objects -> Pointers]
  /\ this \in Targets /\ c \in Targets /\ t \in -1 .. MaxVars - 1
  /\ pc \in {"mutate", "roots", "walk"}

Children(o) == {ptr[o][i] : i \in 0 .. vars[o] - 1} \ {Null}
Closed(S) == \A o \in S : Children(o) \subseteq S

\* What is reached from R: the least closed set around it.
Reachable(R) ==
  {o \in Objects : \A S \in SUBSET Objects : R \subseteq S /\ Closed(S) => o \in S}

\* Between two roots exactly what the roots so far reach is marked; in particular a pointer
\* met with a mark on its object, in a cycle or shared, hides nothing (480-532).
MarksExactly == pc = "roots" => marked = Reachable(done)

\* The way back from c, as far as this: each object once.
OnPath ==
  LET back[k \in Nat] == IF k = 0 THEN c
                         ELSE LET o == back[k - 1]
                              IN IF o \in {this, Null} THEN o ELSE backPtr[o]
  IN  {back[k] : k \in 0 .. Cardinality(Objects)}

\* The walk can go home: the way back leads to the object it began with, over marked objects
\* that each come by the pointer they have noted, and every marked object has been seen to
\* the end but for the pointers that the way back still has to look at (513-528).
WalkIsOnCourse ==
  pc = "walk" =>
    /\ this \in OnPath /\ OnPath \subseteq marked
    /\ \A o \in OnPath \ {this} : ptr[backPtr[o]][backCtr[o]] = o
    /\ \A o \in marked : \A i \in 0 .. vars[o] - 1 :
         \/ ptr[o][i] \in marked \cup {Null}
         \/ o = c /\ i <= t
         \/ \E p \in OnPath \ {this} : backPtr[p] = o /\ i < backCtr[p]

\* What is left to do before the walk is home: pointers still to follow from c, from the
\* objects on the way back and from those not marked yet, and the steps between them.
Work ==
  t + 1 + MapThenSumSet(LAMBDA o : backCtr[o] + 1, OnPath \ {this, Null})
        + MapThenSumSet(LAMBDA o : vars[o] + 1, Objects \ marked)

\* Every call of collectable_mark comes to an end: each turn of its loop leaves less to do,
\* and there is always a next one until Finish (495-530).
WalkEnds == [][pc = "walk" /\ pc' = "walk" => Work' < Work /\ Work' >= 0]_mkVars
=============================================================================
