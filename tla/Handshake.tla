------------------------------ MODULE Handshake ------------------------------
(***************************************************************************)
(* What the state word of GCState.cpp promises, with no counters in it:    *)
(* the collector announces the next phase, every mutator is stopped at its *)
(* next safe point (or has opted out, or opts in and is held), the         *)
(* collector opens the gate, and only then does anyone run in the new      *)
(* phase.  PhaseSync is shown to implement this specification, and         *)
(* SnapshotHeap is built on it.                                            *)
(***************************************************************************)
CONSTANT Threads

VARIABLES
  phase,   \* the phase announced last
  open,    \* FALSE from an announcement until every mutator is accounted for
  mode     \* what each thread is doing

hsVars == <<phase, open, mode>>

Phases == {"NOT_COLLECTING", "COLLECTING", "RESTORING_SNAPSHOT"}

\* The cycle of phases; Pred is its inverse because the cycle has length 3.
Succ(p) == CASE p = "NOT_COLLECTING"     -> "COLLECTING"
             [] p = "COLLECTING"         -> "RESTORING_SNAPSHOT"
             [] p = "RESTORING_SNAPSHOT" -> "NOT_COLLECTING"
Pred(p) == Succ(Succ(p))

\* A thread is out of mutation, runs in a phase, or is held on its way into one.
Out == [st |-> "out", in |-> "NOT_MUTATING"]
Runs(p) == [st |-> "run", in |-> p]
Held(p) == [st |-> "held", in |-> p]
Modes == {Out} \cup {Runs(p) : p \in Phases} \cup {Held(p) : p \in Phases}

HsTypeOK ==
  /\ phase \in Phases
  /\ open \in BOOLEAN
  /\ mode \in [Threads -> Modes]

HsInit ==
  /\ phase = "NOT_COLLECTING"
  /\ open = TRUE
  /\ mode = [t \in Threads |-> Out]

Announce ==
  /\ open
  /\ phase' = Succ(phase)
  /\ open' = FALSE
  /\ UNCHANGED mode

Stop_Unheld(t) ==
  /\ ~open
  /\ mode[t] = Runs(Pred(phase))
  /\ mode' = [mode EXCEPT ![t] = Runs(phase)]
  /\ UNCHANGED <<phase, open>>
\* A running mutator reaches a safe point while an announcement is pending.
Stop(t) ==
  /\ ~open
  /\ mode[t] = Runs(Pred(phase))
  /\ mode' = [mode EXCEPT ![t] = Held(phase)]
  /\ UNCHANGED <<phase, open>>

\* The gate opens once nobody runs, or waits to run, in the old phase.
Open ==
  /\ ~open
  /\ \A t \in Threads : mode[t] \in {Out, Held(phase)}
  /\ open' = TRUE
  /\ UNCHANGED <<phase, mode>>

\* A held thread goes on once the gate of its phase has opened; it may be so
\* slow that the next announcement is already out.
Resume(t) ==
  /\ \/ open /\ mode[t] = Held(phase)
     \/ ~open /\ mode[t] = Held(Pred(phase))
  /\ mode' = [mode EXCEPT ![t] = Runs(mode[t].in)]
  /\ UNCHANGED <<phase, open>>

Leave(t) ==
  /\ mode[t].st = "run"
  /\ mode' = [mode EXCEPT ![t] = Out]
  /\ UNCHANGED <<phase, open>>

Enter(t) ==
  /\ mode[t] = Out
  /\ mode' = [mode EXCEPT ![t] = IF open THEN Runs(phase) ELSE Held(phase)]
  /\ UNCHANGED <<phase, open>>

HsNext ==
  \/ Announce
  \/ Open
  \/ \E t \in Threads : Stop(t) \/ Resume(t) \/ Leave(t) \/ Enter(t)

HsSpec == HsInit /\ [][HsNext]_hsVars

(***************************************************************************)
(* What the users of the handshake rely on.                                *)
(***************************************************************************)

\* While the gate is open, every mutator that runs, or is about to, is in the
\* announced phase: the collector marks, restores or finalizes (GCState.cpp
\* 437, 474, 510) only with every mutator using the write barrier of that phase.
\* And no two mutators ever run with different write barriers: those that have
\* acknowledged the new phase spin until the last one has (558-611).
OneBarrier ==
  /\ open => \A t \in Threads : mode[t].in \in {phase, "NOT_MUTATING"}
  /\ \A t, u \in Threads :
       mode[t].st = "run" /\ mode[u].st = "run" => mode[t].in = mode[u].in
==============================================================================
