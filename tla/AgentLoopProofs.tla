--------------------------- MODULE AgentLoopProofs ---------------------------
(***************************************************************************)
(* Theorems about AgentLoop, for every set of requests, endpoints and      *)
(* hosts and every budget.                                                 *)
(***************************************************************************)
EXTENDS AgentLoop, SequenceTheorems, FiniteSetTheorems, TLAPS

-----------------------------------------------------------------------------
(* The gate.                                                               *)

(* A loop starts with an exact count. *)
LEMMA OpenGateCounts == OpenGate \in Gate /\ GateCounts(OpenGate)
BY DEF OpenGate, Gate, GateCounts

(* One more final answer keeps the count exact. *)
LEMMA AfterFinalCounts ==
  ASSUME NEW g \in Gate, GateCounts(g), NEW left \in Nat
  PROVE  /\ AfterFinal(g, left) \in Gate
         /\ GateCounts(AfterFinal(g, left))
         /\ AfterFinal(g, left).trail # << >>
<1>. DEFINE next == AfterFinal(g, left)
            trail == g.trail
            n == Len(trail)
            more == next.trail
<1>. SUFFICES next \in Gate /\ GateCounts(next) /\ more # << >>
  OBVIOUS
<1>1. /\ trail \in Seq(Nat) /\ n \in Nat /\ g.stalled \in Nat /\ g.prev \in Int
      /\ \A i \in 1 .. n : trail[i] \in Nat
  BY DEF Gate
<1>2. /\ more \in Seq(Nat) /\ Len(more) = n + 1 /\ more[n + 1] = left
      /\ \A i \in 1 .. n : more[i] = trail[i]
      /\ next.prev = left /\ next \in Gate
      /\ next.stalled = IF g.prev >= 0 /\ left >= g.prev THEN g.stalled + 1 ELSE 0
  BY <1>1 DEF AfterFinal, Gate
<1>. HIDE DEF next
<1>3. CASE trail = << >>
  <2>1. next.stalled = 0 /\ n = 0
    BY <1>1, <1>2, <1>3 DEF GateCounts
  <2>. QED
    BY <1>2, <2>1 DEF GateCounts
<1>4. CASE trail # << >>
  <2>1. /\ g.stalled < n /\ g.prev = trail[n] /\ n \in 1 .. n
        /\ \A i \in (n - g.stalled + 1) .. n : trail[i] >= trail[i - 1]
        /\ n - g.stalled > 1 => trail[n - g.stalled] < trail[n - g.stalled - 1]
    BY <1>1, <1>4 DEF GateCounts
  <2>. DEFINE m == Len(more)
  <2>2. m = n + 1 /\ m \in Nat
    BY <1>1, <1>2
  <2>. HIDE DEF trail, more, n, m
  <2>3. /\ next.stalled < m
        /\ \A i \in (m - next.stalled + 1) .. m : more[i] >= more[i - 1]
        /\ m - next.stalled > 1 => more[m - next.stalled] < more[m - next.stalled - 1]
    <3>1. CASE left >= g.prev
      <4>1. next.stalled = g.stalled + 1 /\ m - next.stalled = n - g.stalled
        BY <1>1, <1>2, <2>1, <2>2, <3>1
      <4>2. \A i \in (n - g.stalled + 1) .. n : i \in 1 .. n /\ i - 1 \in 1 .. n
        BY <1>1, <2>1
      <4>3. \A i \in (n - g.stalled + 1) .. n : more[i] >= more[i - 1]
        BY <1>2, <2>1, <4>2
      <4>4. more[m] >= more[m - 1]
        BY <1>1, <1>2, <2>1, <2>2, <3>1
      <4>5. ASSUME NEW i \in (m - next.stalled + 1) .. m PROVE more[i] >= more[i - 1]
        BY <1>1, <2>2, <4>1, <4>3, <4>4, i = m \/ i \in (n - g.stalled + 1) .. n
      <4>6. ASSUME n - g.stalled > 1
            PROVE  n - g.stalled \in 1 .. n /\ n - g.stalled - 1 \in 1 .. n
        BY <1>1, <4>6
      <4>7. n - g.stalled > 1 => more[n - g.stalled] < more[n - g.stalled - 1]
        BY <1>2, <2>1, <4>6
      <4>. QED
        BY <1>1, <2>1, <2>2, <4>1, <4>5, <4>7
    <3>2. CASE left < g.prev
      BY <1>1, <1>2, <2>1, <2>2, <3>2
    <3>. QED
      BY <1>1, <3>1, <3>2
  <2>4. next.prev = more[m] /\ more # << >>
    BY <1>1, <1>2, <2>2 DEF m
  <2>. QED
    BY <1>2, <2>3, <2>4 DEF GateCounts, more, m
<1>. QED
  BY <1>2, <1>3, <1>4

(* The gate that no longer holds an answer back is the one whose history   *)
(* has stalled.                                                            *)
LEMMA StalledIsCounted ==
  ASSUME NEW g \in Gate, GateCounts(g), NEW n \in Nat
  PROVE  Stalled(g.trail, n) <=> (g.trail # << >> /\ ~ Holds(g, n))
<1>. DEFINE trail == g.trail
<1>1. trail \in Seq(Nat) /\ Len(trail) \in Nat /\ g.stalled \in Nat
  BY DEF Gate
<1>2. \A i \in 1 .. Len(trail) : trail[i] \in Nat
  BY DEF Gate
<1>3. CASE trail = << >>
  BY <1>3 DEF Stalled
<1>4. CASE trail # << >>
  <2>1. /\ g.stalled < Len(trail)
        /\ \A i \in (Len(trail) - g.stalled + 1) .. Len(trail) :
             trail[i] >= trail[i - 1]
        /\ Len(trail) - g.stalled > 1
             => trail[Len(trail) - g.stalled] < trail[Len(trail) - g.stalled - 1]
    BY <1>4 DEF GateCounts
  <2>2. ASSUME g.stalled >= n PROVE Stalled(trail, n)
    <3>1. Len(trail) > n
      BY <2>1, <2>2, <1>1
    <3>2. (Len(trail) - n + 1) .. Len(trail)
             \subseteq (Len(trail) - g.stalled + 1) .. Len(trail)
      BY <2>2, <1>1
    <3>. QED
      BY <3>1, <3>2, <2>1 DEF Stalled
  <2>3. ASSUME g.stalled < n, Stalled(trail, n) PROVE FALSE
    <3>1. Len(trail) > n
      BY <2>3 DEF Stalled
    <3>2. /\ Len(trail) - g.stalled \in (Len(trail) - n + 1) .. Len(trail)
          /\ Len(trail) - g.stalled > 1
      BY <3>1, <2>3, <1>1
    <3>3. trail[Len(trail) - g.stalled] >= trail[Len(trail) - g.stalled - 1]
      BY <3>2, <2>3 DEF Stalled
    <3>4. /\ Len(trail) - g.stalled \in 1 .. Len(trail)
          /\ Len(trail) - g.stalled - 1 \in 1 .. Len(trail)
      BY <3>2, <1>1
    <3>5. /\ trail[Len(trail) - g.stalled] \in Nat
          /\ trail[Len(trail) - g.stalled - 1] \in Nat
      BY <3>4, <1>2
    <3>. QED
      BY <3>2, <3>3, <3>5, <2>1
  <2>. QED
    BY <2>2, <2>3, <1>1, <1>4 DEF Holds
<1>. QED
  BY <1>3, <1>4

-----------------------------------------------------------------------------
(* Sequences.                                                              *)

(* What appending does to each index. *)
LEMMA AppendParts ==
  ASSUME NEW S, NEW s \in Seq(S), NEW e \in S
  PROVE  /\ Append(s, e) \in Seq(S)
         /\ Len(Append(s, e)) = Len(s) + 1
         /\ Len(s) \in Nat
         /\ \A i \in 1 .. Len(s) : Append(s, e)[i] = s[i] /\ s[i] \in S
         /\ Append(s, e)[Len(s) + 1] = e
OBVIOUS

-----------------------------------------------------------------------------
(* Types and the phases of the loop.                                       *)

USE LoopConstants

(* The number of uncovered endpoints is a number. *)
LEMMA UncoveredFinite ==
  ASSUME TypeOK PROVE Cardinality(Uncovered) \in Nat
<1>1. Uncovered \subseteq Endpoints
  BY DEF TypeOK, Uncovered
<1>. QED
  BY <1>1, FS_Subset, FS_CardinalityType

LEMMA LoopInit == Init => LoopInv
<1>. SUFFICES ASSUME Init PROVE LoopInv
  OBVIOUS
<1>1. TypeOK
  BY OpenGateCounts DEF Init, TypeOK, AnyRequest
<1>2. Running
  BY DEF Init, Running, Over
<1>3. Recorded
  <2>1. steps \o pending = << >> /\ Len(steps) = 0
    BY ConcatEmptySeq, EmptySeq DEF Init
  <2>. QED
    BY <2>1 DEF Init, Recorded, LiveMirrorsSteps, StepsInScope, Remembered,
                AgentRepeatsNothing, CoveredWasTested
<1>4. Gated
  BY OpenGateCounts DEF Init, Gated, Over, OpenGate
<1>. QED
  BY <1>1, <1>2, <1>3, <1>4 DEF LoopInv

LEMMA TypeStep == TypeOK /\ Running /\ Gated /\ [Next]_vars => TypeOK' /\ Running'
<1>. SUFFICES ASSUME TypeOK, Running, Gated, [Next]_vars PROVE TypeOK' /\ Running'
  OBVIOUS
<1>. USE DEF TypeOK, Running, Over, prelude, budget, coverage
<1>1. CASE ProbeSkipped
  BY <1>1 DEF ProbeSkipped
<1>2. CASE ProbeRecorded
  <2>1. PICK r \in Probed[stage] :
          LET step == Step(stepNumber + Len(pending) + 1, r, "prelude")
          IN  pending' = Append(pending, step) /\ live' = Append(live, step)
    BY <1>2 DEF ProbeRecorded
  <2>2. Step(stepNumber + Len(pending) + 1, r, "prelude") \in StepRecord
    <3>. r \in Requests
      BY <1>2 DEF ProbeRecorded
    <3>. QED
      BY DEF Step, StepRecord
  <2>3. pending' \in Seq(StepRecord) /\ live' \in Seq(StepRecord)
    BY <2>1, <2>2
  <2>4. crawled' \subseteq Endpoints
    BY <1>2 DEF ProbeRecorded
  <2>. QED
    BY <2>3, <2>4, <1>2 DEF ProbeRecorded
<1>3. CASE PreludeReturns
  <2>1. steps' \in Seq(StepRecord)
    BY <1>3, ConcatProperties DEF PreludeReturns
  <2>. QED
    BY <2>1, <1>3 DEF PreludeReturns
<1>4. CASE SeedCoverage
  BY <1>4 DEF SeedCoverage
<1>5. CASE BudgetSpent
  BY <1>5 DEF BudgetSpent, Leave
<1>6. CASE Interrupted
  BY <1>6 DEF Interrupted
<1>7. CASE Ask
  BY <1>7 DEF Ask, BudgetLeft
<1>8. CASE ModelFails
  BY <1>8 DEF ModelFails
<1>9. ASSUME FailTurn, pc = "turn",
             UNCHANGED <<alive, prelude, stepNumber, steps, live, iteration, seen,
                         coverage, gate, refreshes, advice>>
      PROVE  TypeOK' /\ Running'
  BY <1>9 DEF FailTurn, Leave
<1>10. CASE FinalAnswer
  <2>1. gate' \in Gate
    <3>1. GateCounts(gate) /\ gate \in Gate /\ Cardinality(Uncovered) \in Nat
      BY UncoveredFinite DEF Gated
    <3>2. AfterFinal(gate, Cardinality(Uncovered)) \in Gate
      BY <3>1, AfterFinalCounts
    <3>. QED
      BY <3>1, <3>2, <1>10 DEF FinalAnswer
  <2>2. \/ pc' = "head" /\ UNCHANGED ended
        \/ pc' = "finalize" /\ ended' = "final"
    BY <1>10 DEF FinalAnswer, Leave
  <2>3. /\ pc = "turn"
        /\ UNCHANGED <<alive, prelude, stepNumber, steps, live, budget, seen,
                       coverage, refreshes, advice>>
    BY <1>10 DEF FinalAnswer
  <2>. QED
    BY <2>1, <2>2, <2>3
<1>11. ASSUME NEW r \in Requests, Execute(r) PROVE TypeOK' /\ Running'
  <2>1. Step(stepNumber + 1, r, "agent") \in StepRecord
    BY DEF Step, StepRecord
  <2>2. steps' \in Seq(StepRecord) /\ live' \in Seq(StepRecord)
    BY <2>1, <1>11 DEF Execute
  <2>3. seen' \subseteq Requests
    BY <1>11 DEF Execute, Remember
  <2>4. endpoints' \subseteq Endpoints
    BY <1>11 DEF Execute, Cover
  <2>5. tested' \subseteq Endpoints
    BY <1>11 DEF Execute, Cover
  <2>6. refreshes' \in 0 .. MaxRefresh /\ advice' \in AnyRequest
    BY <1>11 DEF Execute, RefreshSession, AnyRequest
  <2>. QED
    BY <2>2, <2>3, <2>4, <2>5, <2>6, <1>11 DEF Execute
<1>12. CASE Finalize
  BY <1>12 DEF Finalize
<1>13. CASE ContextDies
  BY <1>13 DEF ContextDies
<1>14. CASE UNCHANGED vars
  BY <1>14 DEF vars
<1>. QED
  BY <1>1, <1>2, <1>3, <1>4, <1>5, <1>6, <1>7, <1>8, <1>9, <1>10, <1>11, <1>12,
     <1>13, <1>14
  DEF Next, Loop, Preludes, Answer, Unparsable, RejectRepeat, RejectAction

-----------------------------------------------------------------------------
(* What the steps record.                                                  *)

(* A step that records nothing and covers nothing. *)
LEMMA QuietRecord ==
  ASSUME Recorded, UNCHANGED <<steps, live, pending, stepNumber, seen, tested>>
  PROVE  Recorded'
BY DEF Recorded, LiveMirrorsSteps, StepsInScope, Remembered, AgentRepeatsNothing,
       CoveredWasTested

LEMMA ProbeRecord ==
  ASSUME TypeOK, Recorded, ProbeRecorded PROVE Recorded'
<1>1. PICK r \in Requests \ Untargeted :
        /\ Admissible(r)
        /\ LET new == Step(stepNumber + Len(pending) + 1, r, "prelude")
           IN  pending' = Append(pending, new) /\ live' = Append(live, new)
  <2>. stage \in 1 .. Stages
    BY DEF ProbeRecorded, TypeOK
  <2>. Probed[stage] \subseteq Requests \ Untargeted
    OBVIOUS
  <2>. QED
    BY DEF ProbeRecorded
<1>2. PICK step \in StepRecord :
        /\ pending' = Append(pending, step) /\ live' = Append(live, step)
        /\ step.number = stepNumber + Len(pending) + 1
        /\ step.host = HostOf[r] /\ step.request = r /\ step.by = "prelude"
  <2>. Step(stepNumber + Len(pending) + 1, r, "prelude") \in StepRecord
    BY DEF Step, StepRecord, TypeOK
  <2>. QED
    BY <1>1 DEF Step
<1>3. UNCHANGED <<steps, stepNumber, seen, tested>>
  BY DEF ProbeRecorded, budget, coverage
<1>4. pending \in Seq(StepRecord) /\ live \in Seq(StepRecord) /\ steps \in Seq(StepRecord)
  BY DEF TypeOK
<1>5. /\ live = steps \o pending
      /\ stepNumber = Len(steps)
      /\ \A i \in 1 .. Len(live) : live[i].number = i
  BY DEF Recorded, LiveMirrorsSteps
<1>6. Len(live) = Len(steps) + Len(pending)
  BY <1>4, <1>5, ConcatProperties
<1>7. /\ Len(live') = Len(live) + 1 /\ Len(live) \in Nat
      /\ \A i \in 1 .. Len(live) : live'[i] = live[i]
      /\ live'[Len(live) + 1] = step
  BY <1>1, <1>2, <1>4, AppendParts
<1>8. /\ Len(pending') = Len(pending) + 1 /\ Len(pending) \in Nat
      /\ \A i \in 1 .. Len(pending) : pending'[i] = pending[i]
      /\ pending'[Len(pending) + 1] = step
  BY <1>1, <1>2, <1>4, AppendParts
<1>9. LiveMirrorsSteps'
  <2>1. live' = steps' \o pending'
    <3>. DEFINE whole == steps \o pending'
    <3>1. live' \in Seq(StepRecord) /\ pending' \in Seq(StepRecord)
      BY <1>2, <1>4, AppendParts
    <3>2. /\ whole \in Seq(StepRecord)
          /\ Len(whole) = Len(steps) + Len(pending')
          /\ \A i \in 1 .. Len(steps) + Len(pending') :
               whole[i] = IF i <= Len(steps) THEN steps[i] ELSE pending'[i - Len(steps)]
      BY <3>1, <1>4, ConcatProperties
    <3>3. /\ Len(steps) \in Nat
          /\ \A i \in 1 .. Len(steps) + Len(pending) :
               live[i] = IF i <= Len(steps) THEN steps[i] ELSE pending[i - Len(steps)]
      BY <1>4, <1>5, ConcatProperties
    <3>. HIDE DEF whole
    <3>4. Len(live') = Len(whole)
      BY <3>2, <1>6, <1>7, <1>8
    <3>5. ASSUME NEW i \in 1 .. Len(live') PROVE live'[i] = whole[i]
      <4>1. CASE i \in 1 .. Len(live)
        <5>1. live'[i] = IF i <= Len(steps) THEN steps[i] ELSE pending[i - Len(steps)]
          BY <4>1, <3>3, <1>6, <1>7
        <5>2. i <= Len(steps) \/ pending'[i - Len(steps)] = pending[i - Len(steps)]
          <6>1. i <= Len(steps) \/ i - Len(steps) \in 1 .. Len(pending)
            BY <4>1, <3>3, <1>6, <1>8
          <6>. QED
            BY <6>1, <1>8
        <5>. QED
          BY <4>1, <5>1, <5>2, <3>2, <3>3, <1>6, <1>8
      <4>2. CASE i = Len(live) + 1
        <5>1. ~ (i <= Len(steps)) /\ i - Len(steps) = Len(pending')
          BY <4>2, <3>3, <1>6, <1>8
        <5>2. i \in 1 .. Len(steps) + Len(pending')
          BY <4>2, <3>3, <1>6, <1>7, <1>8
        <5>. QED
          BY <4>2, <5>1, <5>2, <3>2, <1>7, <1>8
      <4>. QED
        BY <4>1, <4>2, <1>7
    <3>6. live' = whole
      BY <3>1, <3>2, <3>4, <3>5, SeqEqual
    <3>. QED
      BY <3>6, <1>3 DEF whole
  <2>2. ASSUME NEW i \in 1 .. Len(live') PROVE live'[i].number = i
    <3>1. CASE i \in 1 .. Len(live)
      BY <3>1, <1>7, <1>5
    <3>2. CASE i = Len(live) + 1
      BY <3>2, <1>7, <1>2, <1>5, <1>6
    <3>. QED
      BY <3>1, <3>2, <1>7
  <2>. QED
    BY <2>1, <2>2, <1>3, <1>5 DEF LiveMirrorsSteps
<1>10. StepsInScope'
  <2>1. HostOf[r] \in Scope \/ (Scope = {} /\ HostOf[r] \in Hosts \ Private)
    BY <1>1 DEF Admissible, InScope, HostAllowed
  <2>2. ASSUME NEW i \in 1 .. Len(live')
        PROVE  \/ live'[i].request \in Untargeted
               \/ live'[i].host \in Scope
               \/ Scope = {} /\ live'[i].host \in Hosts \ Private
    <3>1. CASE i \in 1 .. Len(live)
      BY <3>1, <1>7 DEF Recorded, StepsInScope
    <3>2. CASE i = Len(live) + 1
      BY <3>2, <1>7, <1>2, <2>1
    <3>. QED
      BY <3>1, <3>2, <1>7
  <2>. QED
    BY <2>2 DEF StepsInScope
<1>11. Remembered'
  <2>1. ASSUME NEW i \in 1 .. Len(pending') PROVE pending'[i].by = "prelude"
    <3>1. CASE i \in 1 .. Len(pending)
      BY <3>1, <1>8 DEF Recorded, Remembered
    <3>2. CASE i = Len(pending) + 1
      BY <3>2, <1>8, <1>2
    <3>. QED
      BY <3>1, <3>2, <1>8
  <2>. QED
    BY <2>1, <1>3 DEF Recorded, Remembered
<1>12. (AgentRepeatsNothing /\ CoveredWasTested)'
  BY <1>3 DEF Recorded, AgentRepeatsNothing, CoveredWasTested
<1>. QED
  BY <1>9, <1>10, <1>11, <1>12 DEF Recorded

LEMMA PreludeRecord ==
  ASSUME TypeOK, Recorded, PreludeReturns PROVE Recorded'
<1>1. /\ steps' = steps \o pending
      /\ stepNumber' = stepNumber + Len(pending)
      /\ pending' = << >>
      /\ UNCHANGED <<live, seen, tested>>
  BY DEF PreludeReturns, budget, coverage
<1>2. pending \in Seq(StepRecord) /\ live \in Seq(StepRecord) /\ steps \in Seq(StepRecord)
  BY DEF TypeOK
<1>3. /\ steps' = live
      /\ Len(live) = Len(steps) + Len(pending)
      /\ Len(steps) \in Nat /\ Len(pending) \in Nat
      /\ \A i \in 1 .. Len(live) :
           live[i] = IF i <= Len(steps) THEN steps[i] ELSE pending[i - Len(steps)]
  BY <1>1, <1>2, ConcatProperties DEF Recorded, LiveMirrorsSteps
<1>4. \A i \in 1 .. Len(live) : i <= Len(steps) \/ live[i].by = "prelude"
  <2>. SUFFICES ASSUME NEW i \in 1 .. Len(live), ~ (i <= Len(steps))
                PROVE  live[i].by = "prelude"
    OBVIOUS
  <2>1. i - Len(steps) \in 1 .. Len(pending)
    BY <1>3
  <2>. QED
    BY <2>1, <1>3 DEF Recorded, Remembered
<1>5. LiveMirrorsSteps'
  <2>1. live' = steps' \o pending'
    BY <1>1, <1>2, <1>3, ConcatEmptySeq
  <2>. QED
    BY <2>1, <1>1, <1>3 DEF Recorded, LiveMirrorsSteps
<1>6. StepsInScope'
  BY <1>1 DEF Recorded, StepsInScope
<1>7. Remembered'
  <2>1. ASSUME NEW i \in 1 .. Len(steps'),
               steps'[i].by = "agent", steps'[i].request \notin Untargeted
        PROVE  steps'[i].request \in seen'
    <3>1. i \in 1 .. Len(steps) /\ steps'[i] = steps[i]
      <4>1. i \in 1 .. Len(live) /\ live[i].by = "agent"
        BY <2>1, <1>3
      <4>2. i <= Len(steps)
        BY <4>1, <1>4
      <4>. QED
        BY <4>1, <4>2, <1>3
    <3>. QED
      BY <3>1, <2>1, <1>1 DEF Recorded, Remembered
  <2>2. Len(pending') = 0
    BY <1>1
  <2>. QED
    BY <2>1, <2>2 DEF Remembered
<1>8. AgentRepeatsNothing'
  <2>. SUFFICES ASSUME NEW i \in 1 .. Len(steps'), NEW j \in 1 .. Len(steps'),
                       steps'[i].by = "agent", steps'[j].by = "agent",
                       steps'[i].request = steps'[j].request,
                       steps'[i].request \notin Untargeted
                PROVE  i = j
    BY DEF AgentRepeatsNothing
  <2>1. ASSUME NEW k \in 1 .. Len(steps'), steps'[k].by = "agent"
        PROVE  k \in 1 .. Len(steps) /\ steps'[k] = steps[k]
    <3>1. k \in 1 .. Len(live) /\ live[k].by = "agent"
      BY <2>1, <1>3
    <3>2. k <= Len(steps)
      BY <3>1, <1>4
    <3>. QED
      BY <3>1, <3>2, <1>3
  <2>. QED
    BY <2>1 DEF Recorded, AgentRepeatsNothing
<1>9. CoveredWasTested'
  <2>. SUFFICES ASSUME NEW e \in tested
                PROVE  \E i \in 1 .. Len(steps') :
                         steps'[i].by = "agent" /\ steps'[i].request \in Tests
                         /\ EndpointOf[steps'[i].request] = e
    BY <1>1 DEF CoveredWasTested
  <2>1. PICK i \in 1 .. Len(steps) :
          steps[i].by = "agent" /\ steps[i].request \in Tests
          /\ EndpointOf[steps[i].request] = e
    BY DEF Recorded, CoveredWasTested
  <2>2. i \in 1 .. Len(steps') /\ steps'[i] = steps[i]
    BY <1>3
  <2>. QED
    BY <2>1, <2>2
<1>. QED
  BY <1>5, <1>6, <1>7, <1>8, <1>9 DEF Recorded

LEMMA ExecuteRecord ==
  ASSUME TypeOK, Running, Recorded, NEW r \in Requests, Execute(r) PROVE Recorded'
<1>. DEFINE step == Step(stepNumber + 1, r, "agent")
<1>1. /\ steps' = Append(steps, step)
      /\ live' = Append(live, step)
      /\ stepNumber' = stepNumber + 1
      /\ pending = << >> /\ pending' = << >>
      /\ ~ Repeated(r) /\ Admissible(r)
      /\ seen' = IF r \in Untargeted THEN seen ELSE seen \cup {r}
  BY DEF Execute, Remember, prelude, Running
<1>2. /\ step \in StepRecord
      /\ step.number = stepNumber + 1 /\ step.host = HostOf[r]
      /\ step.request = r /\ step.by = "agent"
  BY DEF Step, StepRecord, TypeOK
<1>. HIDE DEF step
<1>3. live \in Seq(StepRecord) /\ steps \in Seq(StepRecord)
  BY DEF TypeOK
<1>4. live = steps /\ live' = steps' /\ stepNumber = Len(steps)
      /\ steps' \in Seq(StepRecord)
  BY <1>1, <1>2, <1>3, ConcatEmptySeq DEF Recorded, LiveMirrorsSteps
<1>5. /\ Len(steps') = Len(steps) + 1 /\ Len(steps) \in Nat
      /\ \A i \in 1 .. Len(steps) : steps'[i] = steps[i]
      /\ steps'[Len(steps) + 1] = step
  BY <1>1, <1>2, <1>3, AppendParts
<1>6. \A i \in 1 .. Len(steps') : i \in 1 .. Len(steps) \/ i = Len(steps) + 1
  BY <1>5
<1>7. LiveMirrorsSteps'
  <2>1. live' = steps' \o pending'
    BY <1>1, <1>4, ConcatEmptySeq
  <2>2. \A i \in 1 .. Len(steps) : steps[i].number = i
    BY <1>4 DEF Recorded, LiveMirrorsSteps
  <2>3. \A i \in 1 .. Len(live') : live'[i].number = i
    BY <2>2, <1>2, <1>4, <1>5, <1>6
  <2>. QED
    BY <2>1, <2>3, <1>1, <1>4, <1>5 DEF LiveMirrorsSteps
<1>8. StepsInScope'
  <2>1. \/ r \in Untargeted
        \/ HostOf[r] \in Scope
        \/ Scope = {} /\ HostOf[r] \in Hosts \ Private
    BY <1>1 DEF Admissible, InScope, HostAllowed
  <2>2. ASSUME NEW i \in 1 .. Len(live')
        PROVE  \/ live'[i].request \in Untargeted
               \/ live'[i].host \in Scope
               \/ Scope = {} /\ live'[i].host \in Hosts \ Private
    <3>1. CASE i \in 1 .. Len(steps)
      BY <3>1, <1>4, <1>5 DEF Recorded, StepsInScope
    <3>2. CASE i = Len(steps) + 1
      BY <3>2, <1>4, <1>5, <1>2, <2>1
    <3>. QED
      BY <3>1, <3>2, <1>4, <1>6
  <2>. QED
    BY <2>2 DEF StepsInScope
<1>9. Remembered'
  <2>1. ASSUME NEW i \in 1 .. Len(steps'),
               steps'[i].by = "agent", steps'[i].request \notin Untargeted
        PROVE  steps'[i].request \in seen'
    <3>1. CASE i \in 1 .. Len(steps)
      BY <3>1, <2>1, <1>1, <1>5 DEF Recorded, Remembered
    <3>2. CASE i = Len(steps) + 1
      BY <3>2, <2>1, <1>1, <1>2, <1>5
    <3>. QED
      BY <3>1, <3>2, <1>6
  <2>2. Len(pending') = 0
    BY <1>1
  <2>. QED
    BY <2>1, <2>2 DEF Remembered
<1>10. AgentRepeatsNothing'
  <2>1. r \in Untargeted \/ r \notin seen
    BY <1>1 DEF Repeated
  <2>2. ASSUME NEW i \in 1 .. Len(steps),
               steps[i].by = "agent", steps[i].request \notin Untargeted
        PROVE  steps[i].request # r
    BY <2>1, <2>2 DEF Recorded, Remembered
  <2>. SUFFICES ASSUME NEW i \in 1 .. Len(steps'), NEW j \in 1 .. Len(steps'),
                       steps'[i].by = "agent", steps'[j].by = "agent",
                       steps'[i].request = steps'[j].request,
                       steps'[i].request \notin Untargeted
                PROVE  i = j
    BY DEF AgentRepeatsNothing
  <2>3. CASE i \in 1 .. Len(steps) /\ j \in 1 .. Len(steps)
    BY <2>3, <1>5 DEF Recorded, AgentRepeatsNothing
  <2>4. CASE i = Len(steps) + 1 /\ j \in 1 .. Len(steps)
    BY <2>4, <2>2, <1>2, <1>5
  <2>5. CASE i \in 1 .. Len(steps) /\ j = Len(steps) + 1
    BY <2>5, <2>2, <1>2, <1>5
  <2>. QED
    BY <2>3, <2>4, <2>5, <1>6
<1>11. CoveredWasTested'
  <2>1. tested' = IF r \in Tests THEN tested \cup ({EndpointOf[r]} \ {NoEndpoint})
                  ELSE tested
    BY DEF Execute, Cover
  <2>. SUFFICES ASSUME NEW e \in tested'
                PROVE  \E i \in 1 .. Len(steps') :
                         steps'[i].by = "agent" /\ steps'[i].request \in Tests
                         /\ EndpointOf[steps'[i].request] = e
    BY DEF CoveredWasTested
  <2>2. CASE e \in tested
    <3>1. PICK i \in 1 .. Len(steps) :
            steps[i].by = "agent" /\ steps[i].request \in Tests
          /\ EndpointOf[steps[i].request] = e
      BY <2>2 DEF Recorded, CoveredWasTested
    <3>2. i \in 1 .. Len(steps') /\ steps'[i] = steps[i]
      BY <1>5
    <3>. QED
      BY <3>1, <3>2
  <2>3. CASE e \notin tested
    <3>1. r \in Tests /\ e = EndpointOf[r]
      BY <2>1, <2>3
    <3>2. Len(steps) + 1 \in 1 .. Len(steps')
      BY <1>5
    <3>. QED
      BY <3>1, <3>2, <1>2, <1>5
  <2>. QED
    BY <2>2, <2>3
<1>. QED
  BY <1>7, <1>8, <1>9, <1>10, <1>11 DEF Recorded

LEMMA RecordStep ==
  ASSUME TypeOK, Running, Recorded, [Next]_vars PROVE Recorded'
<1>1. CASE ProbeRecorded
  BY <1>1, ProbeRecord
<1>2. CASE PreludeReturns
  BY <1>2, PreludeRecord
<1>3. ASSUME NEW r \in Requests, Execute(r) PROVE Recorded'
  BY <1>3, ExecuteRecord
<1>4. CASE ProbeSkipped \/ SeedCoverage \/ BudgetSpent \/ Interrupted \/ Ask \/ ModelFails
           \/ Unparsable \/ FinalAnswer \/ Finalize \/ ContextDies \/ UNCHANGED vars
           \/ \E r \in Requests : RejectRepeat(r) \/ RejectAction(r)
  <2>. UNCHANGED <<steps, live, pending, stepNumber, seen, tested>>
    BY <1>4 DEF ProbeSkipped, SeedCoverage, BudgetSpent, Interrupted, Ask, ModelFails,
       Unparsable, FinalAnswer, Finalize, ContextDies, RejectRepeat, RejectAction,
       vars, prelude, budget, coverage
  <2>. QED
    BY QuietRecord
<1>. QED
  BY <1>1, <1>2, <1>3, <1>4 DEF Next, Loop, Preludes, Answer

-----------------------------------------------------------------------------
(* The gate.                                                               *)

LEMMA GateStep ==
  ASSUME TypeOK, Running, Gated, [Next]_vars PROVE Gated'
<1>1. CASE UNCHANGED <<gate, ended, endpoints, tested>> /\ (Over' \/ ~ Over)
  BY <1>1 DEF Gated, Uncovered, Over
<1>2. CASE /\ UNCHANGED gate
           /\ ~ Over
           /\ ended' # "final" \/ Uncovered' = {}
  BY <1>2 DEF Gated
<1>3. CASE FinalAnswer
  <2>1. Cardinality(Uncovered) \in Nat /\ UNCHANGED Uncovered
    BY <1>3, UncoveredFinite DEF FinalAnswer, Uncovered, coverage
  <2>2. ~ Over /\ ended = "no" /\ stepNumber < MaxSteps
    BY <1>3 DEF FinalAnswer, Running, Over
  <2>3. CASE Uncovered = {}
    <3>1. UNCHANGED gate /\ Over' /\ Uncovered' = {}
      BY <1>3, <2>1, <2>3 DEF FinalAnswer, Leave, Over
    <3>. QED
      BY <3>1, <2>2, <1>2
  <2>4. CASE Uncovered # {}
    <3>1. /\ gate' = AfterFinal(gate, Cardinality(Uncovered))
          /\ IF Holds(gate', MaxNudges) THEN UNCHANGED ended ELSE Leave("final")
      BY <1>3, <2>2, <2>4 DEF FinalAnswer
    <3>2. GateCounts(gate') /\ gate'.trail # << >>
      BY <3>1, <2>1, AfterFinalCounts DEF Gated, TypeOK
    <3>. QED
      BY <3>1, <3>2, <2>2 DEF Gated, Leave, Over
  <2>. QED
    BY <2>3, <2>4
<1>4. ASSUME NEW r \in Requests, Execute(r) PROVE Gated'
  <2>. UNCHANGED gate /\ ~ Over /\ ended' # "final"
    BY <1>4 DEF Execute, Over, Running
  <2>. QED
    BY <1>2
<1>5. CASE Unparsable \/ \E r \in Requests : RejectRepeat(r) \/ RejectAction(r)
  <2>. UNCHANGED gate /\ ~ Over /\ ended' # "final"
    BY <1>5 DEF Unparsable, RejectRepeat, RejectAction, FailTurn, Leave, Over, Running
  <2>. QED
    BY <1>2
<1>6. CASE Preludes \/ BudgetSpent \/ Interrupted \/ Ask \/ ModelFails
  <2>. UNCHANGED gate /\ ~ Over /\ ended' # "final"
    BY <1>6 DEF Preludes, ProbeSkipped, ProbeRecorded, PreludeReturns, SeedCoverage,
       BudgetSpent, Interrupted, Ask, ModelFails, Leave, Over, Running
  <2>. QED
    BY <1>2
<1>7. CASE Finalize \/ ContextDies \/ UNCHANGED vars
  <2>. UNCHANGED <<gate, ended, endpoints, tested>> /\ (Over' \/ ~ Over)
    BY <1>7 DEF Finalize, ContextDies, vars, coverage, Over
  <2>. QED
    BY <1>1
<1>. QED
  BY <1>3, <1>4, <1>5, <1>6, <1>7 DEF Next, Loop, Answer

-----------------------------------------------------------------------------
(* Theorems.                                                               *)

(* The inductive invariant of the loop. *)
THEOREM LoopInvariant == Spec => []LoopInv
<1>1. LoopInv /\ [Next]_vars => LoopInv'
  BY TypeStep, RecordStep, GateStep DEF LoopInv
<1>. QED
  BY LoopInit, <1>1, PTL DEF Spec

(* Every variable keeps a value the code can give it; the refresh count    *)
(* and the turns stay within their caps.                                   *)
THEOREM LoopTyped == Spec => []TypeOK
<1>. LoopInv => TypeOK
  BY DEF LoopInv
<1>. QED
  BY LoopInvariant, PTL

(* What a poll is shown is what the loop returns, numbered from 1 without  *)
(* a gap.                                                                  *)
THEOREM LiveProgressIsTheResult == Spec => []LiveMirrorsSteps
<1>. LoopInv => LiveMirrorsSteps
  BY DEF LoopInv, Recorded
<1>. QED
  BY LoopInvariant, PTL

(* Nothing is sent to a host outside the scope, whatever the agent asks.   *)
THEOREM NothingLeavesScope == Spec => []StepsInScope
<1>. LoopInv => StepsInScope
  BY DEF LoopInv, Recorded
<1>. QED
  BY LoopInvariant, PTL

(* The agent runs no targeted request twice, whatever the preludes ran.    *)
THEOREM RequestsAreDifferent == Spec => []AgentRepeatsNothing
<1>. LoopInv => AgentRepeatsNothing
  BY DEF LoopInv, Recorded
<1>. QED
  BY LoopInvariant, PTL

(* An endpoint counts as covered only after the agent ran an active test   *)
(* of it.                                                                  *)
THEOREM CoverageIsEarned == Spec => []CoveredWasTested
<1>. LoopInv => CoveredWasTested
  BY DEF LoopInv, Recorded
<1>. QED
  BY LoopInvariant, PTL

(* The agent finishes with endpoints untested only after the gate has      *)
(* pushed it back in vain.                                                 *)
THEOREM GateIsHeld == Spec => []EarlyFinalWasPushedBack
<1>. LoopInv => EarlyFinalWasPushedBack
  BY StalledIsCounted DEF LoopInv, TypeOK, Gated, EarlyFinalWasPushedBack
<1>. QED
  BY LoopInvariant, PTL

(* A loop that goes on has not been held by a stalled gate. *)
THEOREM GateLetsGo == Spec => []StubbornAgentIsReleased
<1>. LoopInv => StubbornAgentIsReleased
  BY StalledIsCounted DEF LoopInv, TypeOK, Gated, Over, StubbornAgentIsReleased
<1>. QED
  BY LoopInvariant, PTL

-----------------------------------------------------------------------------
(* The contract.                                                           *)

(* A step of the loop is a step of the contract, or nothing to it. *)
LEMMA ContractStep ==
  ASSUME LoopInv, [Next]_vars PROVE [Contract!Next]_(Contract!vars)
<1>. DEFINE Same == UNCHANGED <<pc, iteration, live, ended>>
<1>0. /\ Len(live) \in Nat /\ iteration \in 0 .. 3 * MaxSteps
      /\ ~ Over => ended = "no"
      /\ pc \in {"prelude", "head", "turn", "finalize", "done"}
  BY DEF LoopInv, TypeOK, Running
<1>1. CASE Same
  BY <1>1 DEF Contract!vars
<1>2. CASE ProbeRecorded
  <2>1. Len(live') = Len(live) + 1
    BY <1>2, AppendParts DEF ProbeRecorded, LoopInv, TypeOK
  <2>. QED
    BY <2>1, <1>2 DEF ProbeRecorded, budget, Contract!Next, Contract!Prepare
<1>3. CASE SeedCoverage
  BY <1>3 DEF SeedCoverage, budget, Contract!Next, Contract!Begin
<1>4. CASE BudgetSpent \/ Interrupted \/ ModelFails
  BY <1>0, <1>4 DEF BudgetSpent, Interrupted, ModelFails, Leave, budget, Contract!Next,
     Contract!End
<1>5. CASE Ask
  BY <1>0, <1>5 DEF Ask, BudgetLeft, Contract!Next, Contract!Turn
<1>6. CASE \/ Unparsable \/ FinalAnswer
           \/ \E r \in Requests : RejectRepeat(r) \/ RejectAction(r)
  <2>1. /\ pc = "turn" /\ ended = "no"
        /\ UNCHANGED <<iteration, live>>
        /\ \/ pc' = "head" /\ UNCHANGED ended
           \/ pc' = "finalize" /\ ended' \in {"failures", "final"}
    BY <1>0, <1>6 DEF Unparsable, FinalAnswer, RejectRepeat, RejectAction, FailTurn,
       Leave, budget, Over
  <2>2. CASE pc' = "head" /\ UNCHANGED ended
    BY <2>1, <2>2 DEF Contract!Next, Contract!Answer
  <2>3. CASE pc' = "finalize" /\ ended' \in {"failures", "final"}
    BY <2>1, <2>3 DEF Contract!Next, Contract!End
  <2>. QED
    BY <2>1, <2>2, <2>3
<1>7. ASSUME NEW r \in Requests, Execute(r) PROVE [Contract!Next]_(Contract!vars)
  <2>1. Len(live') = Len(live) + 1
    BY <1>7, AppendParts DEF Execute, LoopInv, TypeOK
  <2>. QED
    BY <2>1, <1>7 DEF Execute, budget, Contract!Next, Contract!Answer
<1>8. CASE ProbeSkipped \/ PreludeReturns \/ ContextDies \/ UNCHANGED vars
  <2>. Same
    BY <1>8 DEF ProbeSkipped, PreludeReturns, ContextDies, vars, budget
  <2>. QED
    BY <1>1
<1>9. CASE Finalize
  BY <1>9 DEF Finalize, budget, Contract!vars
<1>. QED
  BY <1>2, <1>3, <1>4, <1>5, <1>6, <1>7, <1>8, <1>9 DEF Next, Loop, Preludes, Answer

(* The loop is what its caller relies on: deterministic steps, then turns  *)
(* that record at most one step each within the budget of turns, then one  *)
(* end, with an error exactly for a dead context or a failed model call.   *)
THEOREM LoopMeetsContract == Spec => ContractSpec
<1>1. Init => Contract!Init
  BY EmptySeq DEF Init, Contract!Init
<1>. QED
  BY <1>1, ContractStep, LoopInvariant, PTL DEF Spec, ContractSpec, Contract!Spec
=============================================================================
