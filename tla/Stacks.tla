------------------------------- MODULE Stacks -------------------------------
(***************************************************************************)
(* What LockFreeLIFO promises: two stacks over the same slots, pushed and  *)
(* popped in one step by threads that hold at most one slot at a time.     *)
(***************************************************************************)
EXTENDS Integers, Sequences

CONSTANTS
  Threads,
  MaxLen     \* number of slots

Indices == 0 .. MaxLen - 1
Lists == {"fifo", "free"}

VARIABLES
  stack,   \* the slots of each list, the next to be popped first
  held     \* the slot a thread holds, or -1

stVars == <<stack, held>>

\* The constructor puts every slot on the free list, the highest on top.
StInit ==
  /\ stack = [q \in Lists |-> IF q = "fifo" THEN <<>> ELSE [k \in 1 .. MaxLen |-> MaxLen - k]]
  /\ held = [t \in Threads |-> -1]

Push(t, q) ==
  /\ held[t] # -1
  /\ stack' = [stack EXCEPT ![q] = <<held[t]>> \o @]
  /\ held' = [held EXCEPT ![t] = -1]

Pop(t, q) ==
  /\ held[t] = -1
  /\ stack[q] # <<>>
  /\ held' = [held EXCEPT ![t] = Head(stack[q])]
  /\ stack' = [stack EXCEPT ![q] = Tail(@)]

StNext == \E t \in Threads, q \in Lists : Push(t, q) \/ Pop(t, q)

StSpec == StInit /\ [][StNext]_stVars
=============================================================================
