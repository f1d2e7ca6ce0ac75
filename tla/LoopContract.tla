---------------------------- MODULE LoopContract ----------------------------
(***************************************************************************)
(* What a scan's runner relies on in the loop it calls, dynamic or static, *)
(* and what ScanLifecycle takes the loop to be: deterministic steps first, *)
(* then turns of the agent, each recording at most one step, within a      *)
(* budget of turns; it ends without an error when the agent or the budget  *)
(* says so, and with one when the context is dead at the top of a turn or  *)
(* the model call fails.                                                   *)
(***************************************************************************)
EXTENDS Naturals

CONSTANT MaxTurns

VARIABLES
  phase,    \* "prelude", "loop", "turn" or "over"
  turns,    \* turns taken
  steps,    \* steps recorded
  outcome   \* "none", "ok" or "error"

vars == <<phase, turns, steps, outcome>>

Init ==
  /\ phase = "prelude"
  /\ turns = 0
  /\ steps = 0
  /\ outcome = "none"

Prepare ==
  /\ phase = "prelude"
  /\ steps' = steps + 1
  /\ UNCHANGED <<phase, turns, outcome>>

Begin ==
  /\ phase = "prelude"
  /\ phase' = "loop"
  /\ UNCHANGED <<turns, steps, outcome>>

Turn ==
  /\ phase = "loop"
  /\ turns < MaxTurns
  /\ phase' = "turn"
  /\ turns' = turns + 1
  /\ UNCHANGED <<steps, outcome>>

(* The agent's answer costs nothing or records one step. *)
Answer ==
  /\ phase = "turn"
  /\ phase' = "loop"
  /\ steps' \in {steps, steps + 1}
  /\ UNCHANGED <<turns, outcome>>

End ==
  /\ phase \in {"loop", "turn"}
  /\ phase' = "over"
  /\ outcome' \in {"ok", "error"}
  /\ UNCHANGED <<turns, steps>>

Next == Prepare \/ Begin \/ Turn \/ Answer \/ End

Spec == Init /\ [][Next]_vars
=============================================================================
