----------------------------- MODULE StaticLoop -----------------------------
(***************************************************************************)
(* The static scan's loop: runStaticLoop in internal/application/pentest/  *)
(* static_loop.go.  Detectors, a file listing and discovery greps run      *)
(* first; then the agent triages, held back by a gate until it has opened  *)
(* every source and sink location with read_file.  The reading window is   *)
(* executeReadFile's (internal/infrastructure/scanner/static_tools.go).    *)
(***************************************************************************)
EXTENDS FinalGate, FiniteSets

CONSTANTS
  Files,          \* paths of the uploaded tree
  FileLines,      \* lines each of them has
  Visible,        \* lines of it within read_file's byte limit
  OtherTools,     \* allowed tools other than read_file
  Refused,        \* calls the tool list or the policy refuses
  Forced,         \* steps before the discovery: detectors and the listing
  Greps,          \* discovery greps
  MaxSteps,       \* maxSteps, counting triage steps only
  MaxFailures,    \* maxConsecutiveFailures
  MaxNudges,      \* maxStaticFinalNudges
  Remote          \* do tool results arrive as JSON from the scanner service?

ASSUME StaticConstants ==
  /\ IsFiniteSet(Files)
  /\ FileLines \in [Files -> Nat]
  /\ Visible \in [Files -> Nat]
  /\ \A f \in Files : Visible[f] <= FileLines[f]
  /\ Forced \in Nat
  /\ Greps \in Nat
  /\ MaxSteps \in Nat \ {0}
  /\ MaxFailures \in Nat
  /\ MaxNudges \in Nat
  /\ Remote \in BOOLEAN

VARIABLES
  pc,         \* "forced", "grep", "head", "turn", "finalize" or "done"
  alive,      \* is the run context alive?
  stepNumber, \* steps recorded: the returned slice and the live progress
  greps,      \* discovery greps run
  sinks,      \* the tracker's source and sink locations
  reads,      \* the tracker's regions read
  triage,     \* triageSteps
  iteration,  \* turns begun
  failures,   \* consecutiveFailures
  gate,       \* prevUncovered and unproductiveNudges
  ended,      \* why the loop left its body
  hits,       \* history: the locations the discovery greps reported
  shown       \* history: the lines read_file returned

budget   == <<triage, iteration, failures>>
coverage == <<sinks, reads>>
history  == <<hits, shown>>
vars == <<pc, alive, stepNumber, greps, coverage, budget, gate, ended, history>>

Locations == UNION {{path} \X (1 .. FileLines[path]) : path \in Files}

Init ==
  /\ pc = "forced"
  /\ alive = TRUE
  /\ stepNumber = 0
  /\ greps = 0
  /\ sinks = {}
  /\ reads = {}
  /\ triage = 0
  /\ iteration = 0
  /\ failures = 0
  /\ gate = OpenGate
  /\ ended = "no"
  /\ hits = {}
  /\ shown = {}

-----------------------------------------------------------------------------
(* Before the triage.                                                      *)

(* semgrep_scan, gitleaks_scan, osv_scan and list_files, failed or not. *)
ForcedStep ==
  /\ pc = "forced"
  /\ stepNumber < Forced
  /\ stepNumber' = stepNumber + 1
  /\ UNCHANGED <<pc, alive, greps, coverage, budget, gate, ended, history>>

StartDiscovery ==
  /\ pc = "forced"
  /\ stepNumber = Forced
  /\ pc' = "grep"
  /\ UNCHANGED <<alive, stepNumber, greps, coverage, budget, gate, ended,
                 history>>

(* parseSinkHits reads a list of strings as the local executor builds it;  *)
(* the same list decoded from JSON has another type and yields no hits.    *)
ParseSinkHits(found) == IF Remote THEN {} ELSE found

(* Mutant: a grep without hits records no step. *)
DiscoverSilently ==
  /\ pc = "grep"
  /\ greps < Greps
  /\ \E found \in SUBSET Locations :
       /\ hits' = hits \cup found
       /\ sinks' = sinks \cup ParseSinkHits(found)
       /\ stepNumber' = IF found = {} THEN stepNumber ELSE stepNumber + 1
  /\ greps' = greps + 1
  /\ UNCHANGED <<pc, alive, reads, budget, gate, ended, shown>>

(* A grep reports any locations, or none when it fails. *)
Discover ==
  /\ pc = "grep"
  /\ greps < Greps
  /\ \E found \in SUBSET Locations :
       /\ hits' = hits \cup found
       /\ sinks' = sinks \cup ParseSinkHits(found)
  /\ greps' = greps + 1
  /\ stepNumber' = stepNumber + 1
  /\ UNCHANGED <<pc, alive, reads, budget, gate, ended, shown>>

StartTriage ==
  /\ pc = "grep"
  /\ greps = Greps
  /\ pc' = "head"
  /\ UNCHANGED <<alive, stepNumber, greps, coverage, budget, gate, ended,
                 history>>

-----------------------------------------------------------------------------
(* The coverage tracker and the reading window.                            *)

(* Mutant: a region without an end covers its first line only. *)
CoversBounded(region, line) ==
  line >= region.start /\ line <= region.end

(* covered: from the first line if no start is given, to the end of the    *)
(* file if no end is.                                                      *)
Covers(region, line) ==
  /\ line >= region.start
  /\ region.end <= 0 \/ line <= region.end

Covered(location) ==
  \E region \in reads :
    region.path = location[1] /\ Covers(region, location[2])

Uncovered == {l \in sinks : ~ Covered(l)}

(* sliceLines over the bytes kept: an end before the start, or past the    *)
(* end, reads to the end.                                                  *)
Window(path, start, end) ==
  LET last  == Visible[path]
      first == IF start < 1 THEN 1 ELSE start
      stop  == IF end < first \/ end > last THEN last ELSE end
  IN  IF start <= 0 /\ end <= 0 THEN 1 .. last ELSE first .. stop

-----------------------------------------------------------------------------
(* The triage loop.                                                        *)

BudgetLeft == iteration < 3 * MaxSteps /\ triage < MaxSteps

Leave(why) == ended' = why /\ pc' = "finalize"

BudgetSpent ==
  /\ pc = "head"
  /\ ~ BudgetLeft
  /\ Leave("budget")
  /\ UNCHANGED <<alive, stepNumber, greps, coverage, budget, gate, history>>

Interrupted ==
  /\ pc = "head"
  /\ BudgetLeft
  /\ ~ alive
  /\ pc' = "done"
  /\ ended' = "context"
  /\ UNCHANGED <<alive, stepNumber, greps, coverage, budget, gate, history>>

(* Mutant: only executed calls count as turns. *)
AskUncounted ==
  /\ pc = "head"
  /\ BudgetLeft
  /\ alive
  /\ pc' = "turn"
  /\ UNCHANGED <<alive, stepNumber, greps, coverage, budget, gate, ended,
                 history>>

Ask ==
  /\ pc = "head"
  /\ BudgetLeft
  /\ alive
  /\ pc' = "turn"
  /\ iteration' = iteration + 1
  /\ UNCHANGED <<alive, stepNumber, greps, coverage, triage, failures, gate,
                 ended, history>>

ModelFails ==
  /\ pc = "turn"
  /\ pc' = "done"
  /\ ended' = "model"
  /\ UNCHANGED <<alive, stepNumber, greps, coverage, budget, gate, history>>

(* Mutant: the failures are counted but end nothing. *)
FailTurnForever ==
  /\ failures' = failures + 1
  /\ pc' = "head"
  /\ UNCHANGED ended

FailTurn ==
  /\ failures' = failures + 1
  /\ IF failures + 1 > MaxFailures
     THEN Leave("failures")
     ELSE pc' = "head" /\ UNCHANGED ended

(* An answer that does not parse, or a call that is refused: there is no   *)
(* repeat detection here.                                                  *)
WastedTurn ==
  /\ pc = "turn"
  /\ FailTurn
  /\ UNCHANGED <<alive, stepNumber, greps, coverage, triage, iteration, gate,
                 history>>

Unparsable == WastedTurn

RejectAction(call) == call \in Refused /\ WastedTurn

FinalAnswer ==
  /\ pc = "turn"
  /\ IF Uncovered # {} /\ triage < MaxSteps
     THEN /\ gate' = AfterFinal(gate, Cardinality(Uncovered))
          /\ IF Holds(gate', MaxNudges)
             THEN pc' = "head" /\ UNCHANGED ended
             ELSE Leave("final")
     ELSE Leave("final") /\ UNCHANGED gate
  /\ UNCHANGED <<alive, stepNumber, greps, coverage, budget, history>>

(* Every executed call is a triage step and a recorded step. *)
RecordTriage ==
  /\ pc = "turn"
  /\ pc' = "head"
  /\ failures' = 0
  /\ triage' = triage + 1
  /\ stepNumber' = stepNumber + 1
  /\ UNCHANGED <<alive, greps, sinks, iteration, gate, ended, hits>>

RunTool(tool) ==
  /\ tool \in OtherTools
  /\ RecordTriage
  /\ UNCHANGED <<reads, shown>>

(* Mutant: a path remembers only the last region read of it. *)
ReadReplaces(path, start, end) ==
  /\ RecordTriage
  /\ reads' = {r \in reads : r.path # path}
              \cup {[path |-> path, start |-> start, end |-> end]}
  /\ \/ shown' = shown \cup {<<path, n>> : n \in Window(path, start, end)}
     \/ UNCHANGED shown

(* The region is marked as read whatever the tool answers. *)
ReadFile(path, start, end) ==
  /\ RecordTriage
  /\ reads' = reads \cup {[path |-> path, start |-> start, end |-> end]}
  /\ \/ shown' = shown \cup {<<path, n>> : n \in Window(path, start, end)}
     \/ UNCHANGED shown

(* Mutant: a failed synthesis sends the loop round again. *)
FinalizeResumes ==
  /\ pc = "finalize"
  /\ pc' \in {"done", "head"}
  /\ UNCHANGED <<alive, stepNumber, greps, coverage, budget, gate, ended,
                 history>>

(* The synthesis, whose failure is replaced by a fixed sentence. *)
Finalize ==
  /\ pc = "finalize"
  /\ pc' = "done"
  /\ UNCHANGED <<alive, stepNumber, greps, coverage, budget, gate, ended,
                 history>>

ContextDies ==
  /\ alive
  /\ pc # "done"
  /\ alive' = FALSE
  /\ UNCHANGED <<pc, stepNumber, greps, coverage, budget, gate, ended, history>>

-----------------------------------------------------------------------------

Discovery == ForcedStep \/ StartDiscovery \/ Discover \/ StartTriage

Reading ==
  \E path \in Files : \E start, end \in 0 .. (FileLines[path] + 1) :
    ReadFile(path, start, end)

Answer ==
  \/ ModelFails \/ Unparsable \/ FinalAnswer \/ Reading
  \/ (\E call \in Refused : RejectAction(call))
  \/ (\E tool \in OtherTools : RunTool(tool))

Loop == Discovery \/ BudgetSpent \/ Interrupted \/ Ask \/ Answer \/ Finalize

Next == Loop \/ ContextDies

Spec == Init /\ [][Next]_vars

(* Tools and model calls return within their timeouts. *)
FairSpec == Spec /\ WF_vars(Loop)

-----------------------------------------------------------------------------
(* Properties.                                                             *)

Region == [path : Files, start : Nat, end : Nat]

(* The type invariant; failures and turns stay within their limits. *)
TypeOK ==
  /\ pc \in {"forced", "grep", "head", "turn", "finalize", "done"}
  /\ alive \in BOOLEAN
  /\ stepNumber \in Nat
  /\ greps \in 0 .. Greps
  /\ sinks \subseteq Locations
  /\ reads \subseteq Region
  /\ triage \in 0 .. MaxSteps
  /\ iteration \in 0 .. (3 * MaxSteps)
  /\ failures \in 0 .. (MaxFailures + 1)
  /\ gate \in Gate
  /\ ended \in {"no", "budget", "context", "model", "failures", "final"}
  /\ hits \subseteq Locations
  /\ shown \subseteq Locations

(* However the agent, the model or a cancellation ends the run, the report *)
(* has every detector and discovery step ("regardless of how the agent     *)
(* behaves"), and the triage steps are counted apart from them.            *)
DetectorsAlwaysRun ==
  ended # "no" => stepNumber = Forced + Greps + triage

(* An end before the start: the tool reads on to the end of the file.      *)
Inverted(region) == region.end \in 1 .. (region.start - 1)

(* The tracker and the tool agree on every region, with or without a       *)
(* start, an end, or lines beyond the file: within what read_file can      *)
(* return, a line is covered exactly if the call returned it, save that    *)
(* an inverted region, of which the tool returns lines, covers none.       *)
CoverageIsTheWindow ==
  \A region \in reads : \A n \in 1 .. Visible[region.path] :
    Covers(region, n) <=>
      n \in Window(region.path, region.start, region.end) /\ ~ Inverted(region)

(* Discovery is over before the triage begins, so from then on what is     *)
(* uncovered only shrinks: no nudge names a location opened before.        *)
UncoveredShrinks ==
  [][(pc \in {"head", "turn"}) => (Uncovered' \subseteq Uncovered)]_vars

(* The loop ends, whatever the agent answers. *)
LoopEnds == <>(pc = "done")

(* The loop is the one its caller relies on. *)
Contract == INSTANCE LoopContract WITH
  phase <- CASE pc \in {"forced", "grep"}    -> "prelude"
             [] pc \in {"finalize", "done"}  -> "over"
             [] pc = "head"                  -> "loop"
             [] pc = "turn"                  -> "turn",
  turns <- iteration,
  steps <- stepNumber,
  outcome <- CASE ended = "no" -> "none"
               [] ended \in {"context", "model"} -> "error"
               [] OTHER -> "ok",
  MaxTurns <- 3 * MaxSteps

ContractSpec == Contract!Spec

(* "The matched locations seed the coverage gate below"                    *)
(* (static_loop.go:129).                                                   *)
MatchesSeedTheGate == pc \in {"head", "turn"} => sinks = hits

(* "so the coverage gate knows the agent actually looked at each candidate *)
(* region" (static_loop.go:249-250): what counts as covered was returned.  *)
CoveredWasShown == \A l \in sinks : Covered(l) => l \in shown

-----------------------------------------------------------------------------
(* The inductive invariant.                                                *)

(* The steps are the detectors' first, then the discovery's, then the      *)
(* triage's; nothing has ended a loop that runs, and a turn has budget.    *)
Ordered ==
  /\ pc = "forced" => stepNumber <= Forced /\ greps = 0 /\ triage = 0
  /\ pc = "grep" => stepNumber = Forced + greps /\ triage = 0
  /\ pc \notin {"forced", "grep"} => stepNumber = Forced + Greps + triage
  /\ pc = "turn" => triage < MaxSteps
  /\ pc \notin {"finalize", "done"} => ended = "no" /\ failures <= MaxFailures

(* The inductive invariant: every detector and discovery step is recorded  *)
(* before the triage, and the gate counts the agent's answers as it makes   *)
(* them, whatever the agent, the model or a cancellation does.              *)
LoopInv == TypeOK /\ Ordered /\ GateCounts(gate)
=============================================================================
