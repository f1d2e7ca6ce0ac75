-------------------------- MODULE StaticLoopProofs --------------------------
(***************************************************************************)
(* Theorems about StaticLoop, for every tree of files, every budget and    *)
(* both ways its tool results arrive.                                      *)
(***************************************************************************)
EXTENDS StaticLoop, SequenceTheorems, FiniteSetTheorems, TLAPS

-----------------------------------------------------------------------------
(* The gate.                                                               *)

(* A loop starts with an exact count. *)
LEMMA OpenGateCounts == OpenGate \in Gate /\ GateCounts(OpenGate)
BY DEF OpenGate, Gate, GateCounts

(* One more final answer keeps the count exact. *)
LEMMA AfterFinalCounts ==
  ASSUME NEW g \in Gate, GateCounts(g), NEW left \in Nat
  PROVE  /\ AfterFinal(g, left) \in Gate
         /\ GateCounts(AfterFinal(g, left))
         /\ AfterFinal(g, left).trail # << >>
<1>. DEFINE next == AfterFinal(g, left)
            trail == g.trail
            n == Len(trail)
            more == next.trail
<1>. SUFFICES next \in Gate /\ GateCounts(next) /\ more # << >>
  OBVIOUS
<1>1. /\ trail \in Seq(Nat) /\ n \in Nat /\ g.stalled \in Nat /\ g.prev \in Int
      /\ \A i \in 1 .. n : trail[i] \in Nat
  BY DEF Gate
<1>2. /\ more \in Seq(Nat) /\ Len(more) = n + 1 /\ more[n + 1] = left
      /\ \A i \in 1 .. n : more[i] = trail[i]
      /\ next.prev = left /\ next \in Gate
      /\ next.stalled = IF g.prev >= 0 /\ left >= g.prev THEN g.stalled + 1 ELSE 0
  BY <1>1 DEF AfterFinal, Gate
<1>. HIDE DEF next
<1>3. CASE trail = << >>
  <2>1. next.stalled = 0 /\ n = 0
    BY <1>1, <1>2, <1>3 DEF GateCounts
  <2>. QED
    BY <1>2, <2>1 DEF GateCounts
<1>4. CASE trail # << >>
  <2>1. /\ g.stalled < n /\ g.prev = trail[n] /\ n \in 1 .. n
        /\ \A i \in (n - g.stalled + 1) .. n : trail[i] >= trail[i - 1]
        /\ n - g.stalled > 1 => trail[n - g.stalled] < trail[n - g.stalled - 1]
    BY <1>1, <1>4 DEF GateCounts
  <2>. DEFINE m == Len(more)
  <2>2. m = n + 1 /\ m \in Nat
    BY <1>1, <1>2
  <2>. HIDE DEF trail, more, n, m
  <2>3. /\ next.stalled < m
        /\ \A i \in (m - next.stalled + 1) .. m : more[i] >= more[i - 1]
        /\ m - next.stalled > 1 => more[m - next.stalled] < more[m - next.stalled - 1]
    <3>1. CASE left >= g.prev
      <4>1. next.stalled = g.stalled + 1 /\ m - next.stalled = n - g.stalled
        BY <1>1, <1>2, <2>1, <2>2, <3>1
      <4>2. \A i \in (n - g.stalled + 1) .. n : i \in 1 .. n /\ i - 1 \in 1 .. n
        BY <1>1, <2>1
      <4>3. \A i \in (n - g.stalled + 1) .. n : more[i] >= more[i - 1]
        BY <1>2, <2>1, <4>2
      <4>4. more[m] >= more[m - 1]
        BY <1>1, <1>2, <2>1, <2>2, <3>1
      <4>5. ASSUME NEW i \in (m - next.stalled + 1) .. m PROVE more[i] >= more[i - 1]
        BY <1>1, <2>2, <4>1, <4>3, <4>4, i = m \/ i \in (n - g.stalled + 1) .. n
      <4>6. ASSUME n - g.stalled > 1
            PROVE  n - g.stalled \in 1 .. n /\ n - g.stalled - 1 \in 1 .. n
        BY <1>1, <4>6
      <4>7. n - g.stalled > 1 => more[n - g.stalled] < more[n - g.stalled - 1]
        BY <1>2, <2>1, <4>6
      <4>. QED
        BY <1>1, <2>1, <2>2, <4>1, <4>5, <4>7
    <3>2. CASE left < g.prev
      BY <1>1, <1>2, <2>1, <2>2, <3>2
    <3>. QED
      BY <1>1, <3>1, <3>2
  <2>4. next.prev = more[m] /\ more # << >>
    BY <1>1, <1>2, <2>2 DEF m
  <2>. QED
    BY <1>2, <2>3, <2>4 DEF GateCounts, more, m
<1>. QED
  BY <1>2, <1>3, <1>4

USE StaticConstants

-----------------------------------------------------------------------------
(* The invariant.                                                          *)

(* There are finitely many locations to open. *)
LEMMA LocationsFinite == IsFiniteSet(Locations)
<1>. DEFINE lines(path) == {path} \X (1 .. FileLines[path])
            all == {lines(path) : path \in Files}
<1>1. ASSUME NEW path \in Files PROVE IsFiniteSet(lines(path))
  <2>1. FileLines[path] \in Int
    OBVIOUS
  <2>2. IsFiniteSet({path})
    BY FS_Singleton
  <2>3. IsFiniteSet(1 .. FileLines[path])
    BY <2>1, 1 \in Int, FS_Interval
  <2>. QED
    BY <2>2, <2>3, FS_Product
<1>2. IsFiniteSet(all)
  <2>. HIDE DEF lines
  <2>1. [path \in Files |-> lines(path)] \in Surjection(Files, all)
    BY DEF Surjection
  <2>. QED
    BY <2>1, FS_Surjection
<1>3. \A set \in all : IsFiniteSet(set)
  BY <1>1
<1>. QED
  BY <1>2, <1>3, FS_UNION DEF Locations

LEMMA UncoveredFinite ==
  ASSUME TypeOK PROVE Cardinality(Uncovered) \in Nat
<1>1. Uncovered \subseteq Locations
  BY DEF TypeOK, Uncovered
<1>. QED
  BY <1>1, LocationsFinite, FS_Subset, FS_CardinalityType

LEMMA LoopInit == Init => LoopInv
BY OpenGateCounts DEF Init, LoopInv, TypeOK, Ordered

LEMMA LoopStep == LoopInv /\ [Next]_vars => LoopInv'
<1>. SUFFICES ASSUME LoopInv, [Next]_vars PROVE LoopInv'
  OBVIOUS
<1>. USE DEF LoopInv, TypeOK, Ordered, coverage, history
<1>1. CASE ForcedStep
  BY <1>1 DEF ForcedStep, budget
<1>2. CASE StartDiscovery
  BY <1>2 DEF StartDiscovery, budget
<1>3. CASE Discover
  BY <1>3 DEF Discover, ParseSinkHits, budget
<1>4. CASE StartTriage
  BY <1>4 DEF StartTriage, budget
<1>5. CASE BudgetSpent
  BY <1>5 DEF BudgetSpent, Leave, budget
<1>6. CASE Interrupted
  BY <1>6 DEF Interrupted, budget
<1>7. CASE Ask
  BY <1>7 DEF Ask, BudgetLeft
<1>8. CASE ModelFails
  BY <1>8 DEF ModelFails, budget
<1>9. CASE WastedTurn
  BY <1>9 DEF WastedTurn, FailTurn, Leave
<1>10. CASE FinalAnswer
  <2>1. GateCounts(gate) /\ gate \in Gate /\ Cardinality(Uncovered) \in Nat
    BY UncoveredFinite
  <2>2. /\ AfterFinal(gate, Cardinality(Uncovered)) \in Gate
        /\ GateCounts(AfterFinal(gate, Cardinality(Uncovered)))
    BY <2>1, AfterFinalCounts
  <2>3. gate' \in Gate /\ GateCounts(gate')
    BY <2>1, <2>2, <1>10 DEF FinalAnswer
  <2>4. /\ pc = "turn"
        /\ \/ pc' = "head" /\ UNCHANGED ended
           \/ pc' = "finalize" /\ ended' = "final"
        /\ UNCHANGED <<alive, stepNumber, greps, coverage, budget, history>>
    BY <1>10 DEF FinalAnswer, Leave
  <2>. QED
    BY <2>3, <2>4 DEF budget
<1>11. ASSUME RecordTriage, UNCHANGED <<reads, shown>> PROVE LoopInv'
  BY <1>11 DEF RecordTriage
<1>12. ASSUME NEW path \in Files, NEW start \in 0 .. (FileLines[path] + 1),
              NEW end \in 0 .. (FileLines[path] + 1), ReadFile(path, start, end)
       PROVE  LoopInv'
  <2>1. reads' \subseteq Region
    BY <1>12 DEF ReadFile, Region
  <2>2. \A n \in Window(path, start, end) : <<path, n>> \in Locations
    BY DEF Window, Locations
  <2>3. shown' \subseteq Locations
    BY <1>12, <2>2 DEF ReadFile
  <2>. QED
    BY <1>12, <2>1, <2>3 DEF ReadFile, RecordTriage
<1>13. CASE Finalize
  BY <1>13 DEF Finalize, budget
<1>14. CASE ContextDies
  BY <1>14 DEF ContextDies, budget
<1>15. CASE UNCHANGED vars
  BY <1>15 DEF vars, budget
<1>. QED
  BY <1>1, <1>2, <1>3, <1>4, <1>5, <1>6, <1>7, <1>8, <1>9, <1>10, <1>11, <1>12,
     <1>13, <1>14, <1>15
  DEF Next, Loop, Discovery, Answer, Unparsable, RejectAction, RunTool, Reading

(* The inductive invariant of the loop. *)
THEOREM LoopInvariant == Spec => []LoopInv
BY LoopInit, LoopStep, PTL DEF Spec

-----------------------------------------------------------------------------
(* Theorems.                                                               *)

(* Every variable keeps a value the code can give it; failures and turns   *)
(* stay within their limits.                                               *)
THEOREM LoopTyped == Spec => []TypeOK
<1>. LoopInv => TypeOK
  BY DEF LoopInv
<1>. QED
  BY LoopInvariant, PTL

(* The report has every detector and discovery step, however the run ends. *)
THEOREM DetectorsRun == Spec => []DetectorsAlwaysRun
<1>. LoopInv => DetectorsAlwaysRun
  BY DEF LoopInv, Ordered, TypeOK, DetectorsAlwaysRun
<1>. QED
  BY LoopInvariant, PTL

(* The tracker and the tool agree, for every file and every region. *)
LEMMA WindowIsCovered ==
  ASSUME NEW region \in Region, NEW n \in 1 .. Visible[region.path]
  PROVE  Covers(region, n) <=>
           n \in Window(region.path, region.start, region.end) /\ ~ Inverted(region)
BY DEF Region, Covers, Window, Inverted

(* Within what read_file can return, a line is covered by a region exactly *)
(* if the call returned it, and by an inverted region never.               *)
THEOREM TrackerAgreesWithTool == Spec => []CoverageIsTheWindow
<1>. LoopInv => CoverageIsTheWindow
  BY WindowIsCovered DEF LoopInv, TypeOK, CoverageIsTheWindow
<1>. QED
  BY LoopInvariant, PTL

(* What is uncovered only shrinks once the triage has begun. *)
THEOREM CoverageOnlyGrows == Spec => UncoveredShrinks
<1>1. [Next]_vars => [(pc \in {"head", "turn"}) => Uncovered' \subseteq Uncovered]_vars
  <2>. SUFFICES ASSUME Next, pc \in {"head", "turn"}
                PROVE  Uncovered' \subseteq Uncovered
    OBVIOUS
  <2>1. sinks' = sinks /\ reads \subseteq reads'
    BY DEF Next, Loop, Discovery, ForcedStep, StartDiscovery, Discover, StartTriage,
       BudgetSpent, Interrupted, Ask, Answer, ModelFails, Unparsable, RejectAction,
       WastedTurn, FinalAnswer, Reading, ReadFile, RunTool, RecordTriage, Finalize,
       ContextDies, coverage
  <2>2. \A l : Covered(l) => Covered(l)'
    BY <2>1 DEF Covered, Covers
  <2>. QED
    BY <2>1, <2>2 DEF Uncovered
<1>. QED
  BY <1>1, PTL DEF Spec, UncoveredShrinks

-----------------------------------------------------------------------------
(* The contract.                                                           *)

(* A step of the loop is a step of the contract, or nothing to it. *)
LEMMA ContractStep ==
  ASSUME LoopInv, [Next]_vars PROVE [Contract!Next]_(Contract!vars)
<1>0. /\ iteration \in 0 .. 3 * MaxSteps /\ stepNumber \in Nat
      /\ pc \notin {"finalize", "done"} => ended = "no"
      /\ pc \in {"forced", "grep", "head", "turn", "finalize", "done"}
  BY DEF LoopInv, TypeOK, Ordered
<1>1. CASE ForcedStep \/ Discover
  BY <1>1 DEF ForcedStep, Discover, budget, Contract!Next, Contract!Prepare
<1>2. CASE StartTriage
  BY <1>2 DEF StartTriage, budget, Contract!Next, Contract!Begin
<1>3. CASE BudgetSpent \/ Interrupted \/ ModelFails
  BY <1>0, <1>3 DEF BudgetSpent, Interrupted, ModelFails, Leave, budget, Contract!Next,
     Contract!End
<1>4. CASE Ask
  BY <1>0, <1>4 DEF Ask, BudgetLeft, Contract!Next, Contract!Turn
<1>5. CASE WastedTurn \/ FinalAnswer
  <2>1. /\ pc = "turn" /\ ended = "no"
        /\ UNCHANGED <<iteration, stepNumber>>
        /\ \/ pc' = "head" /\ UNCHANGED ended
           \/ pc' = "finalize" /\ ended' \in {"failures", "final"}
    BY <1>0, <1>5 DEF WastedTurn, FinalAnswer, FailTurn, Leave, budget
  <2>2. CASE pc' = "head" /\ UNCHANGED ended
    BY <2>1, <2>2 DEF Contract!Next, Contract!Answer
  <2>3. CASE pc' = "finalize" /\ ended' \in {"failures", "final"}
    BY <2>1, <2>3 DEF Contract!Next, Contract!End
  <2>. QED
    BY <2>1, <2>2, <2>3
<1>6. CASE RecordTriage
  BY <1>6 DEF RecordTriage, Contract!Next, Contract!Answer
<1>7. CASE StartDiscovery \/ Finalize \/ ContextDies \/ UNCHANGED vars
  BY <1>7 DEF StartDiscovery, Finalize, ContextDies, vars, budget, Contract!vars
<1>. QED
  BY <1>1, <1>2, <1>3, <1>4, <1>5, <1>6, <1>7
  DEF Next, Loop, Discovery, Answer, Unparsable, RejectAction, RunTool, Reading, ReadFile

(* The static loop is what its caller relies on, as the dynamic one is. *)
THEOREM LoopMeetsContract == Spec => ContractSpec
<1>1. Init => Contract!Init
  BY DEF Init, Contract!Init
<1>. QED
  BY <1>1, ContractStep, LoopInvariant, PTL DEF Spec, ContractSpec, Contract!Spec
=============================================================================
