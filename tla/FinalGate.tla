----------------------------- MODULE FinalGate -----------------------------
(***************************************************************************)
(* The policy that holds back an early "final" answer, shared by the       *)
(* dynamic loop (agent_loop.go) and the static loop (static_loop.go).      *)
(* A gate is what the loop remembers of the final answers so far: the      *)
(* number of uncovered places at the last one and how many in a row made   *)
(* no progress.  trail is a history: those numbers, oldest first.          *)
(***************************************************************************)
EXTENDS Integers, Sequences

Gate == [prev : Int, stalled : Nat, trail : Seq(Nat)]

(* prevUncovered := -1, unproductiveNudges := 0 *)
OpenGate == [prev |-> 0 - 1, stalled |-> 0, trail |-> << >>]

(* Mutant: a final answer that made progress does not reset the count. *)
AfterFinalNoReset(gate, left) ==
  [prev    |-> left,
   stalled |-> IF gate.prev >= 0 /\ left >= gate.prev
               THEN gate.stalled + 1 ELSE gate.stalled,
   trail   |-> Append(gate.trail, left)]

(* A final answer while `left` places are uncovered. *)
AfterFinal(gate, left) ==
  [prev    |-> left,
   stalled |-> IF gate.prev >= 0 /\ left >= gate.prev
               THEN gate.stalled + 1 ELSE 0,
   trail   |-> Append(gate.trail, left)]

(* Mutant: one nudge too many. *)
HoldsLonger(gate, maxNudges) == gate.stalled <= maxNudges

(* The answer is pushed back unless the gate has stalled maxNudges times. *)
Holds(gate, maxNudges) == gate.stalled < maxNudges

(* The last n final answers each left at least as much uncovered as the    *)
(* one before.                                                             *)
Stalled(trail, n) ==
  /\ Len(trail) > n
  /\ \A i \in (Len(trail) - n + 1) .. Len(trail) : trail[i] >= trail[i - 1]

(* The invariant of a gate: its count is the number of final answers in a  *)
(* row that made no progress, no more and no less.                         *)
GateCounts(gate) ==
  LET trail == gate.trail
      n     == gate.stalled
  IN  \/ /\ trail = << >>
         /\ n = 0
         /\ gate.prev = 0 - 1
      \/ /\ n < Len(trail)
         /\ gate.prev = trail[Len(trail)]
         /\ \A i \in (Len(trail) - n + 1) .. Len(trail) : trail[i] >= trail[i - 1]
         /\ Len(trail) - n > 1
              => trail[Len(trail) - n] < trail[Len(trail) - n - 1]
=============================================================================
