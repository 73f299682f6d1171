# portablegc in TLA+

A verification project for portablegc, a precise concurrent garbage collector for C++
with handles, snapshot pointers and no stop-the-world phase. The modules model the C++
code under `src/`; line numbers refer to it.

## 1. The system

One collector thread and up to 256 mutator threads share one state word, a table of
handles and, per mutator, linked lists of objects and root letters.

| Component | State | Operations | Talks to |
|---|---|---|---|
| Phase handshake (`GCState.cpp` 97-166, 402-796) | the 64-bit `State`: phase and four 8-bit counters; per thread `ThreadState` and `NotMutatingCount`; `exit_program_flag` | `safe_point`, `thread_leave_mutation`, `thread_enter_mutation`, `init_thread`, `exit_thread`; `collect_thread`, `one_collect`, `_start_collection`, `_end_collection_start_restore_snapshot`, `_end_sweep`; `exit_collect_thread` | every component that depends on the phase |
| Snapshot pointers and collection work (`GCState.h` 80-132, `GCState.cpp` 212-221, 306-400, `Collectable.h` 107-145, 417-564) | pairs of handles (current, snapshot), marks | the two write barriers, allocation, mark, sweep, `fast_restore`, `restore` | handshake (which barrier), scan lists (what to walk) |
| Root pointers (`Collectable.h` 198-349) | letters with `owned`, `was_owned` | construct, assign, destroy a `RootPtr` | collection work, scan lists |
| Scan lists (`Collectable.h` 21-92, 173-189, `GCState.cpp` 234-256) | two rings per thread and kind, `ActiveIndex`, the saved start `[2]` | link, unlink, iterate, flip, merge, register | handshake (flip and merge at a border) |
| Lock-free LIFO (`LockFreeLIFO.h`) | two tagged heads, one array of links | push and pop of `fifo` and `free` | handle pool |
| Handle pool (`portablegc.cpp`, `GCState.h` 35-78) | a free list per thread, a queue of blocks, a queue of returned lists | allocate, free in the collector, return at thread exit | LIFO, sweep |
| Collection trigger (`GCState.cpp` 59-89, 158-209, 284-290, 788-796) | bytes and counts of allocations, an event | `log_alloc`, `alloc_merge`, wait and send | handshake (starts a collection) |
| Marking with back pointers (`Collectable.h` 480-532) | back pointer and counter per object | `collectable_mark` in constant space | collection work |
| Growable vectors (`Collectable.h` 1026-1628) | size, reserve, `scan_size` | push, insert, erase, grow across safe points | mark, restore |
| Hash tables (`CollectableHash.h`) | open addressing with tombstones | find, insert, erase, grow | marking |
| Single-thread mode (`GCState.cpp` 158, 402-543) | `CombinedThread`, a flag for the event, the state word | the mutator collects inside `safe_point` | trigger (when) |
| Grapheme strings (`grapheme.*`) | text | slices, search | none of the above |

Not considered: the vendored `utf8proc` and `spooky`, the demonstration `pauselessgc.cpp`
and the build files, and the `CollectableBlock` family, which cannot be instantiated.

### What is hard

* *Interleaving*: everything above runs concurrently, with compare-and-swap loops and
  spinning instead of locks. A mutator may be anywhere when a phase is announced, may
  register, opt out, opt in or end at a border, and may be so slow that it meets the
  announcement after next.
* *Snapshot*: the collector follows one half of each pointer while mutators overwrite the
  other; what it marks must be exact for the moment of the flip, must be restored
  afterwards against concurrent stores, and must agree again before the next flip.
* *Lists*: mutators link into the list that the collector walks.
* *Limits*: 8-bit counters, 32-bit tags, sums in an int, empty queues and lists of one element.
* *Wakeups*: an event sent between the test for it and the wait.
* *Exit*: a flag that is polled in some loops and not in others.

`PROJECT.json` lists each hazard at its line with the properties that watch it.

### What makes each component correct

* Handshake: no two mutators run with different barriers; the collector works only when
  everyone has switched; flip and merge are exclusive; collections end; waiters are let go.
* Heap: nothing reachable is deleted, garbage is, and the snapshot is true when it is taken
  and frozen while it is read.
* Lists: rings stay rings; each walk comes to exactly the cells it is for.
* LIFO: each operation atomic, no slot lost or duplicated, lock freedom.
* Pool: a handle belongs to one list or one object; blocks are never lost.
* Marking: marks exactly what is reachable, finds its way back, and ends.
* Trigger: no byte is forgotten, enough of them start a collection, no wakeup is lost.
* Single-thread mode: a collection ends, and leaves counters and barrier as they were.
* Vectors and tables: what is marked and restored covers what the snapshot holds; a key
  stored is found.

## 2. Modules

| Module | Models | Role |
|---|---|---|
| `Handshake` | what the state word promises | abstract: phases, one gate, and per thread out / running / held |
| `PhaseSync` | the state word and both sides of the protocol | detailed; implements `Handshake` |
| `PhaseSyncProofs`, `SnapshotHeapProofs`, `ObjectProofs`, `LifoProofs`, `ScanProofs`, `HashProofs`, `TriggerProofs` | | theorems about `PhaseSync`, `Handshake` with `SnapshotHeap`, `Mark` and `HandlePool`, `LockFreeLIFO`, `VectorScan` and `ScanLists`, `HashTable`, `CollectionTrigger` with `SingleThread` |
| `DataInduction` | | lemmas on induction and sums |
| `SnapshotHeap` | pointer pairs, barriers, roots, mark, sweep, restore, finalize | built on `Handshake` (EXTENDS), with the lists of each thread as sets |
| `MCSnapshotHeap` | | adds symmetry, and where the search stops |
| `ScanLists` | the linked rings, iterators, flip, merge, saved starts | link by link, phases reduced to the order of the collector's loops |
| `MCScanLists` | | adds symmetry |
| `VectorScan` | the array behind a growable vector, its two sizes, mark and restore | one vector, one mutator; phases and walks in one step each |
| `MCVectorScan` | | says where the search stops |
| `Dictionary` | what a hash table promises | abstract: a partial function |
| `HashTable` | probing, erased slots, growth | detailed; implements `Dictionary` |
| `Mark` | `collectable_mark`, over objects with several pointers | one turn of its loop a step |
| `MCMark` | | adds symmetry |
| `SingleThread` | the state word when the mutator collects by itself | a component of `CollectionTrigger` |
| `CollectionTrigger` | allocation accounting, the event, both ways to begin a collection | EXTENDS `SingleThread` |
| `HandlePool` | free lists of threads, queue of blocks, queue of returned lists | EXTENDS `Stacks` (the block queue) |
| `Stacks` | what the LIFO promises | abstract: two atomic stacks |
| `LockFreeLIFO` | push and pop, one atomic access a step | detailed; implements `Stacks` |

The layers rest on each other so: `PhaseSync` is shown to implement `Handshake`;
`SnapshotHeap` uses the actions of `Handshake` for the phases and takes a list for a set of
cells, which flip swaps and merge moves as a whole, unless it has exactly one cell;
`ScanLists` shows that the rings behave as those sets. `SnapshotHeap` marks object by object; that the loop without a
stack does no more and no less is `Mark`, which in turn takes the snapshot halves for
constant, as `SnapshotIsFrozen` says. `LockFreeLIFO` implements `Stacks`, on which
`HandlePool` is built. `CollectionTrigger` ends where `ReceiveEvent` of `PhaseSync` begins.

### PhaseSync and the code

* `phase`, `counter`, `notMutating` are the fields of `State`. The code names its three
  counters after the phase whose threads they hold (`threads_out_of_collection`,
  `threads_in_collection`, `threads_in_sweep`); here they are one function of the phase.
  `Inc` and `Dec` wrap like `uint8_t`.
* A compare-and-swap loop is one action, its successful iteration, because it recomputes
  the new word from what it has just read. `safe_point` decides before its loop whether
  and from which phase to count out, so it has two steps, `SafePoint` and `CountOut`; the
  wait loop is `StopWaiting`. In the COLLECTING case the loop can give up on exit:
  `AbandonSafePoint`.
* `LeaveMutation`, `EnterMutation` are the outermost and the nested calls;
  `InitThread`, `ExitThread` include the enter and leave they end with. `uncounted` is a
  history variable for threads that opted out of an announced phase before they had
  acknowledged it.
* The collector: `ReceiveEvent` (`collect_thread`), `Announce` (first loop of each phase
  change), `Gather` (the counter is 1: the one-shot work), `Release` (second loop),
  `FinishWork` (the walk of the phase is over), `CollectorExit` (a test of the exit flag:
  `LooksAtExitFlag` says where there is one).
* A thread may opt out or end at any place where it runs, at a border too: `LeavePhase` has
  no guard, as `thread_leave_mutation` has none. The program may exit at any time.

### SnapshotHeap and the code

`ptr[c]` is the `SnapPtr` of a cell: an object (one pointer each) or a root letter.
`Store` is the two write barriers, chosen by the phase the thread runs in. `reg` is one raw
pointer a mutator may hold between safe points; it is lost at a safe point or an opt-out,
because "keeping temporary values on the stack from being collected" (README.md 9) is what
root pointers are for. A root letter is `owned` while its `RootPtr` lives and
`wasOwned` as long as a collection must mark from it (`DropRoot` follows `~RootPtr`).
Marking takes one object a step (`MarkRoot`, `MarkObject`), so mutators run between any
two. `FastRead` and `FastWrite` are the unsynchronised read and write of `fast_restore`;
`Restore` is the compare-and-swap of `restore`. `promised` is a history variable: what the
snapshot reaches at the flip.

`home[c]` is the thread in whose lists a cell is. `Merge` leaves a list of exactly one cell
where it is (`LeftBehind`), because `empty()` takes it for an empty one (Collectable.h 79,
85): that cell is not restored, and the next `Flip`, which swaps the lists as the code does,
makes it active again while the rest is walked. `left` remembers that this has happened. A
thread in `Busy` keeps two objects and two letters besides, which refer only to each other,
as long as the program runs; they need no variables, since all they do is to make each of
its lists too long to be left behind. The first thread of a program that uses the `Sexp` root
of `init_thread` is on the way there, with one letter and one object of its own.

### ScanLists and the code

`next` and `prev` are the link fields, `<<t, k>>` the sentinels, `saved[t]` the third
pointer. `it` is the iterator, with the next cell read in advance. `SweepCell` is the
loops of `_do_collection` (a cell is kept or deleted, whichever), `MergeSlot` one turn
of `merge_collected`, `RestoreCell` the loops of restore and finalize. Mutators link at
any time but at the merge, where the handshake has them stopped; registration of a thread
comes before it takes part in the handshake and is possible at any time. A walk from an
unset pointer ends in the state "wild", from which the collector never returns, and
`WalkIsComplete` says nothing of it; `late` remembers which threads registered when the merge
had gone past their slot, whose walk that is. A list of exactly one cell is taken for empty by
the merge (`Empty`) and stays behind, so what is owed to the walks is what the active lists
hold; what that does to the heap is in `SnapshotHeap`.

### LockFreeLIFO and the code

A push is `LoadHead`, `Link`, `Swing`; a pop is `LoadPair`, `ReadNext`, `Take`. A push
compares only the head, a pop head and tag. A thread owns at most one slot, as in
`GrabHandleList`, `DeallocHandleInGC` and `FreeThreadHandles`. `NobodySleepsOver` is an
assumption on scheduling: no pop sleeps through exactly 2^32 others. The mapping to
`Stacks` follows the links from each head.

### VectorScan and the code

`cell[a]` is the array of pairs of one `CollectableVectoreUse`, `data` the vector's own
pair. `first` is the array it is born with and `grown` the one that `reserve` or
`push_front` makes when there is no room; a second growth would repeat the first. `ShrinkTo`
is `pop_back`, `clear` and `resize` with an exemplar to a smaller size, `FillTo` the latter
to a larger one; `ResizeTo` is `CollectableVector::resize(int)`, which touches no slot (a
`reserve` it begins with is `Reserve`). `Reserve`, `PushFront` and `PushFrontFull` start a
loop (`move`) that `MoveElement` steps through and `Finish` ends with `update_scan_size`. A
phase change finds the mutator between two operations or at the safe point inside a loop
(`Stride` is the code's 1024). A walk of the collector over an array is one step, because it
reads `scan_size` once and the barriers leave the halves it reads alone, or make the two
halves equal. `promised` is what the vector holds at the flip, `followed` what the collector
follows from there. The other history variables are the values that the code can lose or
bring back: `displaced`, what a `push_front` had moved past the end of what the collector walks
at the flip; `kept`, what was in slots given up uncleared (`resize(int)` to a smaller size);
`stale`, what the snapshot half of a slot still showed when `scan_size` fell below it; `torn`,
what a loop had copied whose array was restored, if at all, before the loop ended. Each is
needed: without any one of them the properties are violated.

A program puts null in a vector as well as objects. The array grows only when it is full here;
`reserve` and `resize(int)` may also grow one that is not (Collectable.h 1568-1571), with the same
loop over fewer elements.

Left out, because no program can instantiate them: `swap` (1507 makes a root for an element
from a pointer to an array), `erase` and `insert` (they compare an int with the member
function `size` and construct iterators from what no constructor takes), the iterators made
for them, and the part of `resize` with an exemplar that grows the array (a constructor with
two arguments that does not exist).

### Mark and the code

`c`, `t` and `this` are those of `collectable_mark`; `Skip`, `Descend` and `Return` are the three
ways through its loop, `MarkRoot` the test before it, `Finish` its return. An object has up
to `MaxVars` pointers, any number of which lead nowhere. Any set of living objects may be
the roots of a collection, one after another in any order; the back pointers and counters of
earlier collections stay where they are. The assertion builds' `deleted` flag is left out.

### CollectionTrigger, SingleThread and the code

`alloc_merge` is taken apart where other threads can come between: the addition (`Add`), the
first look at `Allocated` (`Look`), the exchange with the decision on what it gave (`Take`),
and the addition that gives it back (`GiveBack`). `ToInt` is the conversion to `int`; when
it changes the value, `truncated` is set and nothing is followed any more. `Send` and
`Notify` are the two parts of `SendCollectionEvent`; `Lock`, `TestEvent`, `Sleep` and
`SpuriousWake` are `wait` with its predicate. `CollectionEventId` and
`CollectionEventRecieved` are compared for being different only, so `pending` is that they
are. `owed` remembers the bytes no event has answered.

With `combined` there is one thread and no collector. Its safe points look at `singleEvent`
and run `one_collect`, which is `SingleThread`: `Announce` and `Release` are the two loops of
each phase change, run by the thread whose own count is in the word. `EnterMutation` may come
in a thread that mutates (`EnterMutationRAII`, GCState.h 201), whose count goes to -1 then;
`unbalanced` remembers that.

### HandlePool and the code

A handle is a number, its entry in `link` the next free one or `Object`. `AllocateHandle`
takes from the thread's list; `GrabBlock` and `UseBlock` are `GrabHandleList` with the
allocation it is called from, parted where the slot is in the thread's hands. `Dealloc` and
`QueueBlock` are `DeallocHandleInGC`, likewise. `TakeReleaseSlot`, `ReleaseList` and
`ExitKeeping` are the end of a thread (`FreeThreadHandles`); `TakeReleased` and
`FreeReleased` are `FreeThreadHandlesInGC`, one handle a step, `FreeObject` the deletion of
an object in the sweep. The queue of returned lists has one consumer and more slots than are
ever used, so it is a sequence. `broken` remembers the two things that the pool does not
survive; the model stops there.

### HashTable and the code

`data` is the table of slots: `Free`, `Skip` (erased) or an entry. `Distance` is how far the
loop of `findu` goes, `SlotFor` the slot it hands to an insertion, `Rehashed` the loop of
`inc_used`, which inserts the entries in the order of their slots into a table twice as
large. An operation is one step, growth included: a table has one user at a time, and the
safe points inside only let the phase change. `hash` is a variable that keeps its initial
value, so that a run covers every hash function into `Hashes`. The keys of a growing table
are all different, so the growth inside the growth that the code's recursion allows never
happens. `CollectableKeyHashTable`, `CollectableValueHashTable` and `CollectableHashTable`
differ from `HashTable` in where a slot keeps its key and value (snapshot pointers in a
`CollectableInlineVector`) and have no `clear`; their control is the same line by line.

## 3. Runs

| Run | Instance | What it shows |
|---|---|---|
| `phase` | 3 threads, counters modulo 5 (the tightest that can carry them), nesting 2, opt-outs and ends anywhere, exit at any time, fairness | counters exact, collector and mutators agree, borders exclusive, `Handshake` implemented; collections end, waiters resume and the exit joins, unless a thread opts out or ends while it owes an acknowledgement |
| `phase_optout` | 2 threads, the same | violation: after an opt-out at a border the collector waits for ever |
| `heap` | 2 threads, of which one busy, 2 objects, 1 letter, symmetry; nothing followed after a merge that leaves a cell behind | nothing reachable deleted, exact sweep, true and frozen snapshot, no stale marks; one write barrier |
| `heap_garbage` | 2 threads, of which one busy, 1 object, 1 letter, fairness; merges may leave cells behind | garbage is freed in the end |
| `heap_left` | 1 thread, 1 object, 1 letter | violation: what a lone root refers to is deleted |
| `lists` | 2 threads, 4 cells, symmetry | rings intact, walks complete, until the collector walks from an unset pointer |
| `lifo` | 2 threads, 3 slots, tag modulo 3, fairness, deadlock checked | no slot lost or duplicated, atomic stacks, lock freedom |
| `vector` | 1 value and null, room for 3 and then 8, at most 4 elements, `Stride` 1; nothing followed once the value has been left in an uncleared slot | nothing that was in a vector at the flip is missed, and nothing else followed, but for what `displaced`, `kept`, `stale` and `torn` say |
| `hash` | 3 keys, 2 values, any hash function into {0, 7, 15}, 8 slots at first | the table is a dictionary, its counts are exact, every probe ends |
| `mark` | any graph of 3 objects with up to 2 pointers each, any roots, symmetry, deadlock checked | marks exactly what is reached, the way back is intact at each step, every walk ends |
| `trigger` | 2 threads and the one that ends the program, trigger point 3, allocations of 2, a merge after 2 allocations, an int of 4 bits; or single-thread mode, nesting 2; fairness | bytes are counted, collections follow, no lost wakeup; single-thread collections end with counters and barrier as they were |
| `pool` | 2 thread numbers and the collector, 3 blocks of 2 handles, 6 slots | every handle in one place, no undefined index, until the pool is broken in one of two ways |

Why the bounds are enough. The handshake compares counters with 0 and 1 only, so three
threads give one, several and all; a border can overlap with at most one thread each that
is slow, opts out and registers. In the heap a hidden pointer needs one object to hide
and one to hide it in; a letter that dies and is born again stands for several. A thread
that is not busy has its only letter, or object, left behind by a merge, and two objects or none
moved; the busy one has everything moved. Two lists
of four cells give lists of zero, two and more to be merged at once. An ABA in the LIFO needs a
sleeping pop and one other thread that takes two slots in turn, parks one on the other list and
puts the first one back.

A vector of four elements in an array for three outgrows it while others are pushed,
given up and copied; with a `Stride` of 1 there is a safe point, and so perhaps a border, at
every turn of a loop, where the code has one at every 1024th: whatever can happen at one of
the code's can happen at one of these. One value is enough beside null: no operation compares
values, and both properties speak of one value at a time, so a run of many values with the
others replaced by null is a run of this instance.

In the hash table three keys collide in every way, wrap round the end of the table and,
erased and put again, make it grow twice.

A marking walk over three objects has a way back of up to two steps, cycles of every length, and
objects met over two ways; two pointers each make the counters differ. In `pool` blocks of two
end in the middle of a returned list or at its end, three of them last for a thread with full
hands, one in the queue and one to run dry on, and six slots are what the code's formula gives. In
`trigger` two allocations are more than the trigger point and one is not, two threads take
each other's bytes between look and exchange, a merge is due to its bytes alone and, when
another thread has taken them, to its handles, and an int of 4 bits overflows when both add
up without a merge between.

Deadlock is not checked where the system really stops: after exit, after a walk from an
unset pointer (`lists`), a truncation (`trigger`) or a broken pool. In `heap` every state
has a next step.

### Fairness

`phase` and `phase_optout` assume weak fairness of `SafePoint`, `CountOut` and `StopWaiting` of each
thread (the program's README asks mutators to go through safe points periodically; the waits
are loops that yield the processor) and of the collector's own steps. No thread need ever
start, opt in or out, or end, and nobody need ask for a collection. `heap_garbage` adds that
collections go on being asked for. `lifo` assumes only that some thread inside an operation
runs, whichever. `trigger` assumes weak fairness of threads inside `alloc_merge`, of
allocation by those that run, of `notify_all`, of the collector and of a collection that a
safe point runs; and strong fairness of the mutex, which the collector may take again and
again while a sender waits for it, and of the safe point of single-thread mode, which a
program comes to time and again although it is opted out or in `alloc_merge` in between. No
thread need end or start, and no wakeup need be spurious.

### Wrong forms

Definitions with a suffix are wrong on purpose and used by no specification. Each stands
for a plausible bug, and replacing the right one by it makes TLC find the property violated.

| Wrong form | Bug | Breaks |
|---|---|---|
| `Dec_Wide` | a counter wider than its field | `TypeOK` |
| `Release_Forgotten` | the collector never counts itself out | `HandshakeInv` |
| `CountOut_SameBarrier` | `safe_point` counts without setting the write barrier | `PhaseAgreement` |
| `Gathered_Uncounted` | it forgets that it counts itself | `CollectionEnds` |
| `CountOut_Early` | a thread does not wait for the collector's hold | `ImplementsHandshake` |
| `Waits_Never` | no wait after counting | `MutatorsAgree` |
| `Announce_Unheld` | the collector does not hold the border | `BorderIsExclusive` |
| `StopWaiting_Deaf` | wait loops without an exit test | `WaitEnds` |
| `CollectorExit_Loops` | `collect_thread` waits for another event | `ExitJoins` |
| `Stop_Unheld` | the gate is not there | `OneBarrier` |
| `MarkRoot_Unmarked` | a root's object is queued without its mark | `ShTypeOK` |
| `DropRoot_Always` | `was_owned` cleared in mid-collection | `NoDangling` |
| `MarkObject_Cur` | marking follows the current pointer | `SweepIsExact` |
| `Restore_Skip` | no second pass | `SnapshotIsCurrent` |
| `Sweep_KeepMark` | the sweep forgets to unmark | `NoStaleMark` |
| `Store_Double` | one write barrier for all phases | `SnapshotIsFrozen` |
| `FinishRoot_Kept` | dead letters are kept | `GarbageIsFreed` |
| `Merge_Twice` | the merged list is not emptied | `RingsOK` |
| `MergeSlot_SaveFirst` | the start is saved before the merge | `WalkIsComplete` |
| `ScanSize_Follows` | `scan_size` shrinks while the snapshot is followed | `NothingMissed` |
| `Restore_BySize` | the second pass goes by `size`, not `scan_size` | `NothingStale` |
| `PutNew_KeepsWasted` | an erased slot taken again still counts as wasted | `CountsExact` |
| `Crowded_Used` | erased slots do not count towards growth | `ProbesEnd` |
| `Erase_Free` | an erased slot becomes free and cuts the probes of others | `ImplementsDictionary` |
| `Descend_OneMore` | the walk of an object begins past its last pointer | `MkTypeOK` |
| `Descend_NoCounter` | the number of the pointer is not noted | `WalkIsOnCourse` |
| `Descend_Unmarked` | an object is entered without its mark | `WalkEnds` |
| `Return_OfParent` | the counter of the wrong object is used on the way back | `MarksExactly` |
| `Add_KeepThread` | a thread's bytes are added again and again | `BytesAreCounted` |
| `Locked_Never` | the event is sent without the mutex | `CollectionsFollow` |
| `Release_KeepBarrier` | single-thread mode forgets its own barrier | `SingleAgrees` |
| `Release_KeepCount` | the collector's count is not taken back | `SingleCollects` |
| `FreeReleased_NextAfter` | the next handle is read after the link is overwritten | `OnePlace` |
| `Bump_Wide` | a tag wider than its field | `LlTypeOK` |
| `Matches_HeadOnly` | a pop without a tag | `Conserved` |
| `Swing_Blind` | a store instead of a compare-and-swap | `ImplementsStacks` |
| `Take_Stale` | a failed swap does not reload | `LockFree` |

## 4. Findings

1. `phase_optout`: `thread_leave_mutation` (GCState.cpp 689) decrements the counter of the
   announced phase. A thread that opts out, or ends, after an announcement and before its
   next safe point leaves the collector, and then everyone, waiting for ever.

2. `heap_left`: `empty()` (Collectable.h 79) holds for a list of one, so the merge leaves a
   thread's only root letter, or only object, in the lists of the snapshot. The next
   collection does not mark from that letter, and deletes the object that only it refers to,
   although src/README.md 7 says that root variables keep values from being collected, and
   Collectable.h 176-177 that between collections the active list "stores ALL collectable
   objects". A lone object misses a sweep and is deleted later (`heap_garbage`).

Seen on the way; the first five go against what a comment, an assertion or README.md of the
repository says, the others against nothing that is written down. No run is made to fail on
them; where a run goes past one, the property names it and a history variable keeps it apart.

* After the exit flag is set, a mutator that gives up its safe point in COLLECTING (GCState.cpp
  550) is not counted out of that phase; if it ends then, `exit_thread` counts it out of
  another one, and the collector spins in `_end_collection_start_restore_snapshot` (454-472),
  which does not test the flag, so that `exit_collect_thread` waits in its join for ever. The
  flag is there "to tell programs not to bother syncing with the gc anymore" (101-102); only a
  program that ends its mutators first, as 103 advises, is safe. `ExitJoins` is stated for the
  runs in which no thread ends while it owes an acknowledgement; `uncounted` names the others.
* "Any number of mutator threads are allowed" (src/README.md 28), and 256 by GCState.h 35, but
  the counters of the state word are `uint8_t` and count the collector too: with 256 threads
  a counter wraps to zero and the collector goes on without waiting (`PhaseSync` with
  `CounterMod = 2` and two threads violates `PhaseAgreement`). Everything said of the
  handshake is for up to 254 threads (`CapacityOK`). `exit_thread` counts a thread into
  `threads_not_mutating` for good; nothing reads that counter.
* The restore loops assert a first element (GCState.cpp 360, 369, 386, 394). The saved start is
  the active sentinel, and the assertion fails, whenever a registered thread has no objects or
  no roots at the merge. Without assertions the walk ends at once, which is what `ScanLists`
  has.
* A thread that registers after the merge is walked from an unset pointer (`late`), which is
  not what those assertions expect either.
* "if gc happens inside of allocation then the easiest thing is to transition to not-mutating
  and do the GC" (GCState.cpp 43): in single-thread mode a safe point in a thread that has opted
  out and has an event waiting never returns, for the phase changes wait for a counter of 1
  that is 255 + 1, although each tests whether the thread is mutating when it is through (436,
  473, 509). `SingleCollects` asks for a thread that mutates.
* `push_front` on a vector of more than 1025 elements passes a safe point while its last
  element is only in the slot past `size`; a collection that begins there does not mark it
  (`displaced`).
* A pop while marking followed by a shrink before the walk that restores leaves an old
  snapshot in a slot above `scan_size`, and a push in a later collection hands it to the
  collector (`stale`). `resize(int)` to a smaller size leaves values behind, which a later
  one brings back although no collection has followed them (`kept`).
* An array that is being copied while a collection marks, and until its restore and finalize have
  passed, has scan_size 0 when they come, so the next collection misses what was copied (`torn`).
* The list of an ending thread is given to the collector and left in `HandleList`; the next
  thread with that number allocates from it too, and a handle comes to have two objects
  ("inherited"). Each such exit uses up a slot of the block queue, for the release queue
  gets it back (portablegc.cpp 60-63).
* Handle 1 is given to thread 0 and is in the first block as well (41): whoever takes that
  block, the last of the queue, gets it again; one more allocation of a block, and the empty
  queue's index -1 is used (48) ("drained").
* `alloc_merge` keeps an `Allocated` of 2^31 or more as a negative number and does not start
  a collection (`truncated`); as `Allocated` is wider, that takes threads that together
  allocate this much between merges.
* `EnterMutationRAII` in a thread that mutates takes its count to -1, and its destructor
  leaves mutation for good (`unbalanced`).
* `RootPtr`'s move constructor is defaulted, so two of them share a letter, and the first to
  be destroyed disowns it for both (Collectable.h 256).

With `CapacityOK` and the history variables above everything that is stated holds.

## 5. Proofs

Each theorem holds for every value of the constants that the named assumption of its module
admits (finite sets of objects and threads of any size, any number of slots, any width of a
counter or tag, and so on); the runs show the same properties on small instances, some under
a specification with fairness, which implies `Spec`.

| Module | Theorem | Assumes | Says |
|---|---|---|---|
| `PhaseSyncProofs` | `TypeCorrect` | | `Spec => []TypeOK` |
| | `CountersNeverDrift` | `CapacityOK` | `Spec => []HandshakeInv` |
| | `CollectorAgreesWithMutators` | `CapacityOK` | `Spec => []PhaseAgreement` |
| | `MutatorsAgreeAlways` | `CapacityOK` | `Spec => []MutatorsAgree` |
| | `BordersAreExclusive` | `CapacityOK` | `Spec => BorderIsExclusive` |
| | `HandshakeImplemented` | `CapacityOK` | `Spec => ImplementsHandshake` |
| `SnapshotHeapProofs` | `HandshakeHasOneBarrier` | | `HsSpec => []OneBarrier` |
| | `HeapTypeCorrect` | | `Spec => []ShTypeOK` |
| | `OneBarrierInHeap` | | `Spec => []OneBarrier` |
| | `LiveObjectsStay` | | `Spec => []NoDangling` |
| | `BusyThreadsLoseNothing` | `Busy = Threads` | `Spec => []ReachableStay` |
| | `SweepLeavesTheSnapshot` | | `Spec => []SweepIsExact` |
| | `HalvesAgreeAgain` | | `Spec => []SnapshotIsCurrent` |
| | `MarksAreCleared` | | `Spec => []NoStaleMark` |
| | `FrozenWhileMarked` | | `Spec => SnapshotIsFrozen` |
| `ObjectProofs` | `MarkTypeCorrect` | | `Spec => []MkTypeOK` |
| | `MarksAreExact` | | `Spec => []MarksExactly` |
| | `TheWalkIsOnCourse` | | `Spec => []WalkIsOnCourse` |
| | `EveryWalkEnds` | | `Spec => WalkEnds` |
| | `HandlesInOnePlace` | | `PoolSpec => []OnePlace` |
| `LifoProofs` | `LlTypeCorrect` | | `Spec => []LlTypeOK` |
| | `NoSlotIsLost` | | `Spec => []Conserved` |
| | `ListsAreStacks` | | `Spec => ImplementsStacks` |
| `ScanProofs` | `NothingIsMissed` | | `Spec => []NothingMissed` |
| | `NothingIsStale` | | `Spec => []NothingStale` |
| | `RingsStayWhole` | | `SlSpec => []RingsOK` |
| | `WalksAreComplete` | | `SlSpec => []WalkIsComplete` |
| `HashProofs` | `CountsAreExact` | | `Spec => []CountsExact` |
| | `EveryProbeEnds` | | `Spec => []ProbesEnd` |
| | `TableIsDictionary` | | `Spec => ImplementsDictionary` |
| `TriggerProofs` | `NoByteIsLost` | | `Spec => []BytesAreCounted` |
| | `SingleThreadAgrees` | | `Spec => []SingleAgrees` |

`CapacityOK` is what the wrapping counter lacks: two more values than there are threads, one for
the collector and one for a thread that is counted twice, because it opted out at a border and in again.
With 256 threads and `uint8_t` it is false; with up to 254 it holds.

**PhaseSync.** The inductive invariant is `HandshakeInv` with the typing facts. `PhaseAgreement`
alone is not inductive: that everybody has switched when the collector sees 1 in a counter
follows from the counter being the number of threads in the old phase plus the collector's own
hold (`CountersExact`); that in turn survives an increment only if no thread is a phase
behind or ahead (`Abreast`), and a decrement only if a thread's own state says where it is
counted (`Coherent`, and `HoldOK` for the threads that opted out too late and are still
counted). It is about the program until it exits: after that threads give up waiting, and
only liveness is claimed. The arithmetic of it is in `InPhaseMove` and `SubsetCardinality`: what a move of
one thread does to the cardinality of each phase. There is one lemma per kind of step
(`InvEnter`, `InvLeave`, `InvCountOut`, ...), and the other theorems follow from the
invariant without further induction. The refinement maps a step to a step of `Handshake`
or a stutter: `RefinesThread` and `RefinesCollector`.

**Handshake and SnapshotHeap.** `HsInv` says where a thread may be while the gate is open or shut.
`BaseInv` is what holds whatever the merges leave behind, and all that `FrozenWhileMarked` needs;
the rest of the invariant, `HeapInv`, holds until `left`, which never becomes false again.
`HeapInv` adds to it what each stage of a collection has in hand (`StageOK`, `HalvesOK`) and
the facts that `NoDangling` and `SweepIsExact` need. While it marks, every set that holds
what is marked, what the roots to come refer to, and with an object what its snapshot refers to,
holds the whole snapshot (`MarkingOK`, with `Covers`): so when no root and no grey object is
left, the marked objects are the snapshot. And the objects that a collection will not delete
(`Kept`) are closed under everything a mutator can follow: roots, current pointers of kept
objects, and the raw pointers of running threads (`RootsOK`, `FieldsOK`, `HeldOK`). The
closed-set form of reachability needs no recursion. If all threads are busy no cell is ever left
behind, and `BusyThreadsLoseNothing` has reachable objects stay without a proviso.

**Mark.** `MarkInv` says that from the object where the walk is a sequence of distinct marked objects
leads home, each the back pointer of the one before, which it refers to at the counter
(`IsWay`), and that whatever has not been marked of a marked object is still to come,
here or at a counter on that way (`Seen`). At the end of the walk nothing is left to come, so the
marked set is closed; it is never more than what is reachable. `OnPath` in the property is computed
with a recursive function; `PathIsWay` shows that it is that way. The measure of
`WalkEnds` is the pointers still to be looked at; that each turn lessens it needs sums over
finite sets.

**HandlePool.** `PoolInv` gives each handle the place where it is (`w`: with an object, in the first
block, or in one of the piles that the lists of threads, slots, ended threads and the
collector are) and its rank there, counted from the end of the list (`p`). That the links of a pile are what the
ranks say (`Below`) and that the variables of the pool are the tops of the piles (`Tops`) make a
pile a list without a branch, a cycle or a handle of another one (`Piled`). Counting from the end
has it that taking a handle from a list or putting one on it changes the rank of no other, and
that giving a whole list away is a change of its name (`TakeTop`, `PutOnTop`, `MovePile`): so
each operation is one or two of these. `OnePlace` alone is not inductive: that a handle is in one
list says nothing of what the list is after its head has been taken. The first block is
apart, since its first handle is also the list of thread 0: it lies at the bottom of the queue
with all its handles (`FirstBlock`), and taking it is what `broken` remembers.
The other half is the slots of the queue: each is in the queue, free, in a hand, or lost with a list
that a thread gave away, at most one for each thread number (`SlotsOK`). When the collector's block is full,
full blocks and the slots in hands and lost are together fewer than the slots, because a full
block takes `BlockSize` handles (`BlocksOK`) and there are fewer handles than `BlockSize * Blocks`: so a slot is free
(`FreeSlotThere`). `Chain`, in the property, is a recursive function; `ChainIs` shows that it
exists and computes the handles of a pile. `PoolAssumption` asks for two blocks of two handles at least
(the code has 8192) and the slots that the code's constants give, one more than blocks and threads.

**LockFreeLIFO.** `LifoInv` says that two sequences exist, which the heads and links spell
(`LinkedAs`), without a slot in common with each other or with a hand (`Apart`), and that a pop whose tag is still
current has seen a slot of its list and read that slot's link (`PopsOK`). Alone, `Conserved`
is not inductive: it takes the last to know that the head a pop swings to is the
second of the list; that the pops it overtakes do not come to look current again is
`NobodySleepsOver`, the only use of that assumption. A push swings to
a slot whose link is the head it has seen (`HandsOK`), whatever the tag. Each step moves the two
sequences as a push, a pop or not at all (`StacksMove`); they are what `Chain` computes
(`ChainIs`), and that is the refinement.

**VectorScan.** `VectorInv` follows both arrays: where a loop is (`MoveOK`), what it has filled
beyond the size (`FreshOK`, `CopyOK`), what slots past a size (`ClearedOK`) or a scan_size
(`HigherOK`) can show, what the snapshot halves show before a flip of what is in the array
(`SettledOK`) and of nothing else (`MendedOK`), and that what has been promised and not
followed is still in the snapshot half of an array to be walked (`PromiseOK`). Each exception
is a set of values, those in `displaced`, `kept`, `stale` or `torn`, so a slot given up says
nothing of the elements that were in no such slot. No assumption is made on stride or size.

**ScanLists.** `SlInv` says that there are sequences of cells, one for each sentinel, without a
cell in common, which the links spell forwards and backwards and which have every cell that
lives (`Ringed`). Neither of the two properties is inductive without them: an insertion, a
deletion or a merge touches two to six links, and that the rest of a ring and the other rings
are as before follows only when the ring is known as a sequence. Each operation is then shown to be
one of sequences: an insertion puts a cell first (`PushedRinged`), a deletion drops a place
(`DroppedRinged`), a merge joins two (`JoinedRinged`), and `empty()` is true of at most one cell
(`EmptyIs`). Beside them the invariant counts, for each thread, the cells linked since the merge, so that
the saved start is the place after these (`Starts`); and it says that what a walk has come to, what lies
ahead of its iterator and the slots it has not come to are together what it owes (`SweepGoes`,
`RestoreGoes`), also when the iterator stands on the next cell read in advance and cells are linked or
deleted behind it. There is one lemma per action. `Ring` is computed by a recursive function;
`WalkExists` and `RingIs` show that it is the set of the cells of the sequence, for which the cells
must be finitely many (`NodesAssumption`).

**HashTable.** The invariant (`Well`) is a sound table and counters that are the numbers of its full
and erased slots. A table is `Sound` if no key has two slots, each entry is where a probe for
its key comes to before any free slot, and a slot is free. `CountsExact` alone is not inductive: that
an insertion does not put a key in twice takes the second, which an erasure keeps because it
leaves a mark and no free slot. The arithmetic is `ProbesAll`, that the probes of one key are
a permutation of the slots, and `Room`, that a slot is free while full and erased ones are
fewer than all. Growth is an induction over the slots of the old table (`RehashSound`), whose
recursive function is shown to exist (`MovesExist`). What a look-up gives depends on the set of
entries only (`AtFacts`), and each operation changes that set at one key at most, or empties it: that is the
refinement. `MarkerAssumption` keeps the two marks of a slot apart from entries.

**CollectionTrigger.** `Balanced` counts the bytes in the three places they can be, as a sum
over the threads of two functions; `OnlyGivers` says when the second is zero. `SingleInv` gives
the three counters of single-thread mode at every stage, as long as the calls are balanced.

**DataInduction** holds what the others need of induction: an inductive set of numbers has all of
them, and a non-empty set of finite sets has a smallest one. Stated of sets rather than of
formulas they can be used to show that a recursive function exists and what its values are: the
sum of a function over a finite set does not depend on the order, adding to one summand adds to the sum.

Only model-checked: the liveness properties
(`CollectionEnds`, `WaitEnds`, `ExitJoins`, `GarbageIsFreed`, `LockFree`,
`CollectionsFollow`, `SingleCollects`: fairness is out of the prover's reach).

## 6. Abstractions

* Sequential consistency: the plain and relaxed accesses of the code are taken to be seen in
  program order. The races the code has on purpose (`fast_restore`) are separate steps.
* `compare_exchange_weak` may fail without cause; the loop then repeats, and nothing
  changes. Not modelled as a step.
* `steal_fifo` and `steal_free`, which nothing calls; the backward iterator, likewise.
* The `Sexp` root created by the first `init_thread` is defined outside the repository.
* A copy of a `RootPtr` is a `Load` and a `NewRoot` with no safe point between; moving one is not
  modelled. Destructors of user classes and `clean_after_collect` do nothing.
* An entry of `Handles` is either free or with an object: that a handle is stored, loaded and
  followed is `SnapshotHeap`, with handles for objects.
* `TriggerPoint` is what it is at the start; a program may set it at any time.
* The end of a program in single-thread mode, where nobody waits for anybody.

### Not modelled

* `log_array_alloc` (195-209): only a macro that is commented out calls it. It takes its
  count out of `Allocated` without giving it back, which `alloc_merge` does.
* Grapheme strings (`grapheme.h`, `grapheme.cpp`): what they compute is normalisation and
  grapheme breaks, which are utf8proc's, and arithmetic on three index tables; no state
  outlives a call, nothing runs beside it, and to the collector a string is one root and one
  object without pointers. They are built for Windows only.
* The collectable hash tables: their control is that of `HashTable`, and to the collector
  they are objects with a table of pointers.
* The `CollectableBlock` family and `SharableVector`: abstract classes that nothing can
  instantiate.
* `utf8proc` (18,000 lines, most of them one table) and `spooky`: vendored. The
  demonstration `pauselessgc.cpp` and the build files have no logic of their own.

## 7. Plan

Done: 1 `Handshake`, `PhaseSync`, `PhaseSyncProofs`; 2 `SnapshotHeap`; 3 `ScanLists`;
4 `Stacks`, `LockFreeLIFO`; 5 `VectorScan`; 6 `Dictionary`, `HashTable`; 7 `HandlePool`; 8 `Mark`;
9 `SingleThread`, `CollectionTrigger`.

To come, as far as modelling goes: letters with two owners (a moved `RootPtr`) in `SnapshotHeap`.

Proofs are complete as far as the prover reaches: every invariant and action property of the
runs is the conclusion of a theorem in section 5, and what is left to TLC is the liveness.
