----------------------------- MODULE HandlePool -----------------------------
(***************************************************************************)
(* Where the handles of objects come from and go to: a free list per       *)
(* thread, a queue of full blocks that threads take a list from when       *)
(* theirs is empty, the collector's growing block, and a queue of the      *)
(* lists that ending threads leave (portablegc.cpp 13-81, GCState.h        *)
(* 35-78).  The block queue is a LockFreeLIFO, taken as the two atomic     *)
(* stacks of Stacks; a thread is its thread number.                        *)
(*                                                                         *)
(* broken is a history variable: what has happened to the pool that it     *)
(* does not survive.  "inherited": a thread number was taken again while   *)
(* HandleList still held the list its last owner gave away.  "drained":    *)
(* the first block, which holds the handle given to thread 0 at the        *)
(* start, was taken too, or a thread found the block queue empty.          *)
(***************************************************************************)
EXTENDS Stacks, FiniteSets

CONSTANTS
  Collector,    \* the collector thread
  BlockSize,    \* HandlesPerBlock
  Blocks,       \* HandleBlocks
  End,          \* EndOfHandleFreeList
  Object        \* what a handle's entry holds while an object has it

Numbers == Threads \ {Collector}
HandleSet == 1 .. BlockSize * Blocks - 1
First == CHOOSE n \in Numbers : TRUE   \* thread number 0

ASSUME PoolAssumption ==
  /\ Collector \in Threads /\ IsFiniteSet(Threads) /\ Numbers # {}
  /\ BlockSize \in Nat \ {0, 1} /\ Blocks \in Nat \ {0, 1}
  /\ MaxLen = Blocks + Cardinality(Numbers) + 1
  /\ End \notin HandleSet /\ Object \notin HandleSet /\ End # Object

VARIABLES
  data,         \* the handle in each slot of HandleBlockQueue
  link,         \* Handles: the next free handle, or Object
  handleList,   \* HandleList: the head of each thread's list
  released,     \* ReleaseHandlesQueue: heads of lists, the last one first
  taken,        \* ThreadSlots: the numbers of running threads
  listed,       \* numbers with a ScanLists, whose sentinels have the first handles
  unqueued,     \* unqueued_handles
  prevUnqueued, \* prev_unqueued_handle
  gc,           \* where the collector is: idle, draining, sweeping
  cursor,       \* n of FreeThreadHandlesInGC, or End between two lists
  objects,      \* how many objects have each handle
  given,        \* history: numbers whose last owner gave its list away
  broken,       \* history: see above
  wild          \* an undefined index or handle has been used

queue == <<data, stack, held>>
poolVars == <<queue, link, handleList, released, taken, listed, unqueued, prevUnqueued, gc, cursor,
          objects, given, broken, wild>>

\* Deallocating 1, 2, ... in turn makes full blocks and one block that lacks a handle.
BlockHead(i) == i * BlockSize
InitLink(h) == IF h % BlockSize = 1 THEN End ELSE h - 1

PoolInit ==
  /\ data = [i \in Indices |-> IF MaxLen - i < Blocks THEN BlockHead(MaxLen - i) ELSE End]
  /\ stack = [q \in Lists |-> IF q = "fifo" THEN [k \in 1 .. Blocks - 1 |-> MaxLen - Blocks + k]
                              ELSE [k \in 1 .. MaxLen - Blocks + 1 |-> MaxLen - Blocks + 1 - k]]
  /\ held = [t \in Threads |-> -1]
  /\ link = [h \in HandleSet |-> InitLink(h)]
  /\ handleList = [n \in Numbers |-> IF n = First THEN 1 ELSE End]
  /\ released = <<>>
  /\ taken = {} /\ listed = {}
  /\ unqueued = BlockSize - 1 /\ prevUnqueued = BlockSize * Blocks - 1
  /\ gc = "idle" /\ cursor = End
  /\ objects = [h \in HandleSet |-> 0]
  /\ given = {} /\ broken = {} /\ wild = FALSE

-----------------------------------------------------------------------------
(* Threads *)

\* init_thread takes a free number; HandleList is as the last owner left it.
Register(n) ==
  /\ n \notin taken
  /\ taken' = taken \cup {n}
  /\ broken' = broken \cup (IF n \in given THEN {"inherited"} ELSE {})
  /\ given' = given \ {n}
  /\ UNCHANGED <<queue, link, handleList, released, listed, unqueued, prevUnqueued, gc,
                 cursor, objects, wild>>

\* The rest of AllocateHandle, and the constructor's store, once next is known.
Hand(n, next) ==
  /\ link' = [link EXCEPT ![next] = Object]
  /\ objects' = [objects EXCEPT ![next] = @ + 1]
  /\ listed' = listed \cup {n}
  /\ IF link[next] = Object THEN wild' = TRUE /\ UNCHANGED handleList
     ELSE handleList' = [handleList EXCEPT ![n] = link[next]] /\ UNCHANGED wild

AllocateHandle(n) ==
  /\ n \in taken /\ held[n] = -1 /\ handleList[n] # End
  /\ Hand(n, handleList[n])
  /\ UNCHANGED <<queue, released, taken, unqueued, prevUnqueued, gc, cursor, given, broken>>

\* GrabHandleList: pop_fifo; an empty queue gives index -1, which is used.
GrabBlock(n) ==
  /\ n \in taken /\ held[n] = -1 /\ handleList[n] = End
  /\ IF stack["fifo"] = <<>> THEN wild' = TRUE /\ UNCHANGED <<stack, held>>
     ELSE Pop(n, "fifo") /\ UNCHANGED wild
  /\ broken' = broken \cup (IF Len(stack["fifo"]) <= 1 THEN {"drained"} ELSE {})
  /\ UNCHANGED <<data, link, handleList, released, taken, listed, unqueued, prevUnqueued, gc,
                 cursor, objects, given>>

\* The rest of GrabHandleList and of the AllocateHandle that called it.
UseBlock(n) ==
  /\ n \in taken /\ held[n] # -1 /\ handleList[n] = End
  /\ Push(n, "free")
  /\ Hand(n, data[held[n]])
  /\ UNCHANGED <<data, released, taken, unqueued, prevUnqueued, gc, cursor, given, broken>>

\* exit_thread, FreeThreadHandles: nothing to give, or no slot to give it in.
ExitKeeping(n) ==
  /\ n \in taken \cap listed /\ held[n] = -1
  /\ handleList[n] = End \/ stack["free"] = <<>>
  /\ taken' = taken \ {n}
  /\ UNCHANGED <<queue, link, handleList, released, listed, unqueued, prevUnqueued, gc,
                 cursor, objects, given, broken, wild>>

TakeReleaseSlot(n) ==
  /\ n \in taken \cap listed /\ handleList[n] # End
  /\ Pop(n, "free")
  /\ UNCHANGED <<data, link, handleList, released, taken, listed, unqueued, prevUnqueued, gc,
                 cursor, objects, given, broken, wild>>

\* The slot goes to the other queue, whose free list it joins in the end, for good.
ReleaseList(n) ==
  /\ n \in taken /\ handleList[n] # End /\ held[n] # -1
  /\ released' = <<handleList[n]>> \o released
  /\ held' = [held EXCEPT ![n] = -1]
  /\ taken' = taken \ {n}
  /\ given' = given \cup {n}
  /\ UNCHANGED <<data, stack, link, handleList, listed, unqueued, prevUnqueued, gc, cursor,
                 objects, broken, wild>>

-----------------------------------------------------------------------------
(* The collector *)

\* DeallocHandleInGC up to pop_free; QueueBlock is the rest for a full block.
Dealloc(h) ==
  /\ held[Collector] = -1
  /\ link' = [link EXCEPT ![h] = prevUnqueued]
  /\ unqueued' = unqueued + 1
  /\ prevUnqueued' = h
  /\ IF unqueued + 1 # BlockSize THEN UNCHANGED <<stack, held, wild>>
     ELSE IF stack["free"] = <<>> THEN wild' = TRUE /\ UNCHANGED <<stack, held>>
     ELSE Pop(Collector, "free") /\ UNCHANGED wild

QueueBlock ==
  /\ held[Collector] # -1
  /\ data' = [data EXCEPT ![held[Collector]] = prevUnqueued]
  /\ Push(Collector, "fifo")
  /\ unqueued' = 0 /\ prevUnqueued' = End
  /\ UNCHANGED <<link, handleList, released, taken, listed, gc, cursor, objects, given,
                 broken, wild>>

\* _do_collection begins with FreeThreadHandlesInGC.
StartCollection ==
  /\ gc = "idle"
  /\ gc' = "draining"
  /\ UNCHANGED <<queue, link, handleList, released, taken, listed, unqueued, prevUnqueued,
                 cursor, objects, given, broken, wild>>

TakeReleased ==
  /\ gc = "draining" /\ cursor = End /\ held[Collector] = -1
  /\ IF released = <<>> THEN gc' = "sweeping" /\ UNCHANGED <<cursor, released>>
     ELSE cursor' = Head(released) /\ released' = Tail(released) /\ UNCHANGED gc
  /\ UNCHANGED <<queue, link, handleList, taken, listed, unqueued, prevUnqueued, objects, given,
                 broken, wild>>

FreeReleased_NextAfter ==
  /\ gc = "draining" /\ cursor # End
  /\ IF link[cursor] = Object
     THEN wild' = TRUE /\ UNCHANGED <<stack, held, link, unqueued, prevUnqueued, cursor>>
     ELSE Dealloc(cursor) /\ cursor' = link'[cursor]
  /\ UNCHANGED <<data, handleList, released, taken, listed, gc, objects, given, broken>>
FreeReleased ==
  /\ gc = "draining" /\ cursor # End
  /\ IF link[cursor] = Object
     THEN wild' = TRUE /\ UNCHANGED <<stack, held, link, unqueued, prevUnqueued, cursor>>
     ELSE Dealloc(cursor) /\ cursor' = link[cursor]
  /\ UNCHANGED <<data, handleList, released, taken, listed, gc, objects, given, broken>>

\* The sweep deletes an object.  The handle that thread 0 begins with belongs to the
\* sentinel of its first list, which no sweep visits.
FreeObject(h) ==
  /\ gc = "sweeping" /\ objects[h] > 0 /\ h # 1
  /\ Dealloc(h)
  /\ objects' = [objects EXCEPT ![h] = @ - 1]
  /\ UNCHANGED <<data, handleList, released, taken, listed, gc, cursor, given, broken>>

EndSweep ==
  /\ gc = "sweeping" /\ held[Collector] = -1
  /\ gc' = "idle"
  /\ UNCHANGED <<queue, link, handleList, released, taken, listed, unqueued, prevUnqueued,
                 cursor, objects, given, broken, wild>>

PoolNext ==
  /\ ~wild /\ broken = {}
  /\ \/ \E n \in Numbers : \/ Register(n) \/ AllocateHandle(n) \/ GrabBlock(n) \/ UseBlock(n)
                           \/ ExitKeeping(n) \/ TakeReleaseSlot(n) \/ ReleaseList(n)
     \/ QueueBlock \/ StartCollection \/ TakeReleased \/ FreeReleased \/ EndSweep
     \/ \E h \in HandleSet : FreeObject(h)

PoolSpec == PoolInit /\ [][PoolNext]_poolVars

-----------------------------------------------------------------------------
(* Properties *)

PoolTypeOK ==
  /\ data \in [Indices -> HandleSet \cup {End}]
  /\ stack \in [Lists -> Seq(Indices)]
  /\ held \in [Threads -> Indices \cup {-1}]
  /\ link \in [HandleSet -> HandleSet \cup {End, Object}]
  /\ handleList \in [Numbers -> HandleSet \cup {End}]
  /\ released \in Seq(HandleSet)
  /\ taken \subseteq Numbers /\ listed \subseteq Numbers /\ given \subseteq Numbers \ taken
  /\ unqueued \in 0 .. BlockSize
  /\ prevUnqueued \in HandleSet \cup {End} /\ cursor \in HandleSet \cup {End}
  /\ gc \in {"idle", "draining", "sweeping"}
  /\ objects \in [HandleSet -> Nat]
  /\ broken \subseteq {"inherited", "drained"} /\ wild \in BOOLEAN

\* The handles of the free list that begins with h.
Chain(h) ==
  LET ahead[k \in 0 .. BlockSize * Blocks] ==
        IF k = 0 THEN {h} \cap HandleSet
        ELSE LET found == ahead[k - 1] IN found \cup ({link[i] : i \in found} \cap HandleSet)
  IN  ahead[BlockSize * Blocks]

\* Slots that hold a block: those in the queue and those of threads that use one.
BlockSlots ==
  {stack["fifo"][k] : k \in DOMAIN stack["fifo"]} \cup
  {held[n] : n \in {m \in taken : held[m] # -1 /\ handleList[m] = End}}
FirstSlot == MaxLen - 1

\* The places of handle h, one for each list that it is in and each object that has it.  The
\* first block does not count for the handle that thread 0 was given.
Places(h) ==
  objects[h]
  + Cardinality({n \in Numbers \ given : h \in Chain(handleList[n])})
  + Cardinality({i \in BlockSlots : h \in Chain(data[i]) /\ ~(i = FirstSlot /\ h = 1)})
  + Cardinality({k \in DOMAIN released : h \in Chain(released[k])})
  + Cardinality({x \in {"block"} : h \in Chain(prevUnqueued)})
  + Cardinality({x \in {"cursor"} : h \in Chain(cursor)})

\* The variables are in range.  Until one of the two things in broken happens, a handle is with one object, or in one
\* list, at any time: none is handed out twice and none is lost (AllocateHandle,
\* DeallocHandleInGC, FreeThreadHandles, GrabHandleList).  And no undefined index or handle is
\* used before, because the slots of the block queue suffice (FreeThreadHandles uses up one
\* per exit) and so does the queue itself.
OnePlace ==
  /\ PoolTypeOK
  /\ wild => broken # {}
  /\ broken = {} => \A h \in HandleSet : Places(h) = 1
=============================================================================
