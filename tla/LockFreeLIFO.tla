---------------------------- MODULE LockFreeLIFO ----------------------------
(***************************************************************************)
(* LockFreeLIFO.h, one atomic access a step: two linked stacks, fifo and   *)
(* free, over one array of links.  A push swings the 32-bit head, a pop    *)
(* the 64-bit pair of head and tag (`aba`), which only pops advance.       *)
(* steal_fifo and steal_free are called nowhere and left out.              *)
(*                                                                         *)
(* A compare_exchange_weak that fails without cause reloads what it had:   *)
(* the loop then repeats steps it has done, and changes nothing.           *)
(***************************************************************************)
EXTENDS Integers, Sequences

CONSTANTS
  Threads,
  MaxLen,    \* MAX_LEN, the number of slots
  TagMod     \* 2^32 in the code: aba is an int32_t

ASSUME LengthAssumption == MaxLen \in Nat \ {0} /\ TagMod \in Nat /\ TagMod > 1

Indices == 0 .. MaxLen - 1
Lists == {"fifo", "free"}

VARIABLES
  head,   \* head of each list, -1 when empty
  aba,    \* tag of each list
  next,   \* all_links[i].next
  pc,     \* where each thread is in an operation
  at,     \* the list it operates on
  seen,   \* the head and tag its operation has loaded
  after,  \* the link a pop has read
  held    \* the slot a thread owns between a pop and its next push, or -1

shared == <<head, aba, next>>
vars == <<head, aba, next, pc, at, seen, after, held>>

Nothing == [head |-> -1, aba |-> 0]

LlTypeOK ==
  /\ head \in [Lists -> Indices \cup {-1}]
  /\ aba \in [Lists -> 0 .. TagMod - 1]
  /\ next \in [Indices -> Indices \cup {-1}]
  /\ pc \in [Threads -> {"idle", "link", "swing", "read", "take"}]
  /\ at \in [Threads -> Lists]
  /\ seen \in [Threads -> [head : Indices \cup {-1}, aba : 0 .. TagMod - 1]]
  /\ after \in [Threads -> Indices \cup {-1}]
  /\ held \in [Threads -> Indices \cup {-1}]

Init ==
  /\ head = [q \in Lists |-> IF q = "fifo" THEN -1 ELSE MaxLen - 1]
  /\ aba = [q \in Lists |-> 0]
  /\ next = [i \in Indices |-> i - 1]
  /\ pc = [t \in Threads |-> "idle"]
  /\ at = [t \in Threads |-> "fifo"]
  /\ seen = [t \in Threads |-> Nothing]
  /\ after = [t \in Threads |-> -1]
  /\ held = [t \in Threads |-> -1]

Bump_Wide(tag) == tag + 1
Bump(tag) == (tag + 1) % TagMod

\* The end of an operation; its locals are gone.
Return(t) ==
  /\ pc' = [pc EXCEPT ![t] = "idle"]
  /\ at' = [at EXCEPT ![t] = "fifo"]
  /\ seen' = [seen EXCEPT ![t] = Nothing]
  /\ after' = [after EXCEPT ![t] = -1]

-----------------------------------------------------------------------------
(* push_fifo and push_free. *)

LoadHead(t, q) ==
  /\ pc[t] = "idle"
  /\ held[t] # -1
  /\ pc' = [pc EXCEPT ![t] = "link"]
  /\ at' = [at EXCEPT ![t] = q]
  /\ seen' = [seen EXCEPT ![t].head = head[q]]
  /\ UNCHANGED <<shared, after, held>>

Link(t) ==
  /\ pc[t] = "link"
  /\ next' = [next EXCEPT ![held[t]] = seen[t].head]
  /\ pc' = [pc EXCEPT ![t] = "swing"]
  /\ UNCHANGED <<head, aba, at, seen, after, held>>

\* The 32-bit compare-and-swap: the tag may have moved, the head may not.
Swing_Blind(t) ==
  /\ pc[t] = "swing"
  /\ head' = [head EXCEPT ![at[t]] = held[t]]
  /\ held' = [held EXCEPT ![t] = -1]
  /\ Return(t)
  /\ UNCHANGED <<next, aba>>
Swing(t) ==
  LET q == at[t] IN
  /\ pc[t] = "swing"
  /\ \/ /\ head[q] = seen[t].head
        /\ head' = [head EXCEPT ![q] = held[t]]
        /\ held' = [held EXCEPT ![t] = -1]
        /\ Return(t)
     \/ /\ head[q] # seen[t].head
        /\ seen' = [seen EXCEPT ![t].head = head[q]]
        /\ pc' = [pc EXCEPT ![t] = "link"]
        /\ UNCHANGED <<head, held, at, after>>
  /\ UNCHANGED <<aba, next>>

-----------------------------------------------------------------------------
(* pop_fifo and pop_free. *)

\* The 64-bit load; of an empty list the pop returns -1 at once.
LoadPair(t, q) ==
  /\ pc[t] = "idle"
  /\ held[t] = -1
  /\ head[q] # -1
  /\ pc' = [pc EXCEPT ![t] = "read"]
  /\ at' = [at EXCEPT ![t] = q]
  /\ seen' = [seen EXCEPT ![t] = [head |-> head[q], aba |-> aba[q]]]
  /\ UNCHANGED <<shared, after, held>>

ReadNext(t) ==
  /\ pc[t] = "read"
  /\ after' = [after EXCEPT ![t] = next[seen[t].head]]
  /\ pc' = [pc EXCEPT ![t] = "take"]
  /\ UNCHANGED <<shared, at, seen, held>>

\* Nobody sleeps through a whole turn of the tag: the one assumption on scheduling.
NobodySleepsOver(q) ==
  \A u \in Threads : pc[u] \in {"read", "take"} /\ at[u] = q => seen[u].aba # Bump(aba[q])

\* The 64-bit compare-and-swap.
Matches_HeadOnly(t, q) == head[q] = seen[t].head
Matches(t, q) == head[q] = seen[t].head /\ aba[q] = seen[t].aba

\* As written below, but a pop that has lost tries again with what it first loaded.
Take_Stale(t) ==
  LET q == at[t] IN
  /\ pc[t] = "take"
  /\ \/ /\ Matches(t, q)
        /\ NobodySleepsOver(q)
        /\ head' = [head EXCEPT ![q] = after[t]]
        /\ aba' = [aba EXCEPT ![q] = Bump(@)]
        /\ held' = [held EXCEPT ![t] = seen[t].head]
        /\ Return(t)
     \/ /\ ~Matches(t, q)
        /\ pc' = [pc EXCEPT ![t] = "read"]
        /\ UNCHANGED <<head, aba, held, seen, at, after>>
  /\ UNCHANGED next
Take(t) ==
  LET q == at[t] IN
  /\ pc[t] = "take"
  /\ \/ /\ Matches(t, q)
        /\ NobodySleepsOver(q)
        /\ head' = [head EXCEPT ![q] = after[t]]
        /\ aba' = [aba EXCEPT ![q] = Bump(@)]
        /\ held' = [held EXCEPT ![t] = seen[t].head]
        /\ Return(t)
     \/ /\ ~Matches(t, q)
        /\ head[q] # -1
        /\ seen' = [seen EXCEPT ![t] = [head |-> head[q], aba |-> aba[q]]]
        /\ pc' = [pc EXCEPT ![t] = "read"]
        /\ UNCHANGED <<head, aba, held, at, after>>
     \/ /\ ~Matches(t, q)
        /\ head[q] = -1
        /\ Return(t)
        /\ UNCHANGED <<head, aba, held>>
  /\ UNCHANGED next

-----------------------------------------------------------------------------
\* What a thread does within an operation.
Step(t) == Link(t) \/ Swing(t) \/ ReadNext(t) \/ Take(t)

Next ==
  \E t \in Threads :
    \/ \E q \in Lists : LoadHead(t, q) \/ LoadPair(t, q)
    \/ Step(t)

Spec == Init /\ [][Next]_vars

\* The weakest scheduling there is: some thread in an operation, whichever, gets to run.
FairSpec == Spec /\ WF_vars(\E t \in Threads : Step(t))

-----------------------------------------------------------------------------
(* What the lists must guarantee. *)

\* The slots from a head on, following at most n links.
Chain ==
  LET chain[n \in 0 .. MaxLen] ==
        [i \in Indices \cup {-1} |->
           IF n = 0 \/ i = -1 THEN <<>> ELSE <<i>> \o chain[n - 1][next[i]]]
  IN  [q \in Lists |-> chain[MaxLen][head[q]]]

\* Every slot is in exactly one place, once: on one of the lists or in the hands of one
\* thread, so none is lost and no two threads get the same block of handles
\* (GCState.h 66-78, portablegc.cpp 46-52).
Conserved ==
  LET Places(i) ==
        {p \in Lists \X (1 .. MaxLen) : p[2] \in DOMAIN Chain[p[1]] /\ Chain[p[1]][p[2]] = i}
          \cup {t \in Threads : held[t] = i}
  IN  \A i \in Indices : \E p \in Places(i) : Places(i) = {p}

S == INSTANCE Stacks WITH stack <- Chain

\* Each push and pop takes effect at one instant, as one on a stack; a pop that others
\* overtake cannot put back a link it read too early (the tag against ABA).
ImplementsStacks == S!StSpec

\* Lock freedom, "without there being any mutexes" (portablegc.cpp 22): whoever else is
\* stopped, as long as an operation is under way some operation returns; the loops
\* cannot turn for ever against each other.
Returns == \E t \in Threads : pc[t] # "idle" /\ pc'[t] = "idle"
LockFree == []<><<Returns>>_vars \/ <>[](\A t \in Threads : pc[t] = "idle")
=============================================================================
