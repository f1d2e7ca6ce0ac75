------------------------------ MODULE AgentLoop ------------------------------
(***************************************************************************)
(* The dynamic scan's loop: runAgentLoop in internal/application/pentest/  *)
(* agent_loop.go, with the deterministic preludes that run before the      *)
(* agent decides, the coverage gate of dynamic_coverage.go, the scope      *)
(* check, repeat detection, failure and iteration budgets and the mid-scan *)
(* session refresh.  The agent is an adversary: any answer at any turn.    *)
(*                                                                         *)
(* A request stands for an action's signature (tool, target, method and    *)
(* body).  Its tool is a discovery tool, an active test or neither.        *)
(***************************************************************************)
EXTENDS FinalGate, FiniteSets

CONSTANTS
  Requests,         \* the requests the preludes make and the agent may ask for
  Untargeted,       \* those without a target: the empty signature
  Discovers,        \* those of a discovery tool (isDiscoveryTool)
  Tests,            \* those of an active test tool (activeTestTools)
  Endpoints,        \* parameterised endpoints of the target (endpointKey)
  EndpointOf,       \* the endpoint a request targets, or NoEndpoint
  NoEndpoint,
  Hosts,            \* host names
  HostOf,           \* the host a request targets
  NoHost,           \* no host can be read from the target
  Scope,            \* the authorised hosts (deriveScope)
  Private,          \* loopback, private and link-local hosts
  Forbidden,        \* refused by the profile, the body limit or the policy
  Stages,           \* number of deterministic preludes
  Probes,           \* probes each of them makes at most
  Probed,           \* the requests each of them may make
  ReconStage,       \* the one that crawls
  MaxSteps,         \* maxSteps
  MaxFailures,      \* maxConsecutiveFailures
  MaxNudges,        \* maxDynamicFinalNudges
  MaxRefresh,       \* maxSessionRefresh
  Authenticated     \* does the scan hold a session?

ASSUME LoopConstants ==
  /\ Untargeted \subseteq Requests
  /\ Discovers \subseteq Requests
  /\ Tests \subseteq Requests
  /\ IsFiniteSet(Endpoints)
  /\ NoEndpoint \notin Endpoints
  /\ EndpointOf \in [Requests -> Endpoints \cup {NoEndpoint}]
  /\ HostOf \in [Requests -> Hosts \cup {NoHost}]
  /\ NoHost \notin Hosts
  /\ Scope \subseteq Hosts
  /\ Private \subseteq Hosts
  /\ Forbidden \subseteq Requests
  /\ Stages \in Nat
  /\ Probes \in [1 .. Stages -> Nat]
  /\ Probed \in [1 .. Stages -> SUBSET (Requests \ Untargeted)]
  /\ MaxSteps \in Nat \ {0}
  /\ MaxFailures \in Nat
  /\ MaxNudges \in Nat
  /\ MaxRefresh \in Nat
  /\ Authenticated \in BOOLEAN

NoRequest == "none"

VARIABLES
  pc,          \* "prelude", "head", "turn", "finalize" or "done"
  alive,       \* is the run context alive?
  stage,       \* the prelude running
  probe,       \* probes it has made
  pending,     \* the steps it has recorded and not yet returned
  stepNumber,  \* the loop's counter
  steps,       \* the slice of steps the loop returns
  live,        \* the steps in the live progress (recordStep)
  iteration,   \* turns begun
  failures,    \* consecutiveFailures
  seen,        \* seenRequests
  endpoints,   \* discovered endpoints
  tested,      \* endpoints that received an active test
  crawled,     \* endpoints found by the recon prelude
  gate,        \* prevUncovered and unproductiveNudges
  refreshes,   \* reauthCount
  ended,       \* why the loop left its body
  advice       \* history: the request a refresh note asks to re-run

prelude  == <<stage, probe, pending, crawled>>
budget   == <<iteration, failures>>
coverage == <<endpoints, tested>>
vars == <<pc, alive, prelude, stepNumber, steps, live, budget, seen, coverage,
          gate, refreshes, ended, advice>>

Init ==
  /\ pc = "prelude"
  /\ alive = TRUE
  /\ stage = 1
  /\ probe = 0
  /\ pending = << >>
  /\ stepNumber = 0
  /\ steps = << >>
  /\ live = << >>
  /\ iteration = 0
  /\ failures = 0
  /\ seen = {}
  /\ endpoints = {}
  /\ tested = {}
  /\ crawled = {}
  /\ gate = OpenGate
  /\ refreshes = 0
  /\ ended = "no"
  /\ advice = NoRequest

-----------------------------------------------------------------------------
(* Scope.                                                                  *)

(* Mutant: a public host passes although a scope is known. *)
PublicHostAllowed(h) ==
  \/ h \in Scope
  \/ h # NoHost /\ h \notin Private

(* enforceScope: an authorised host passes even if private; a private one  *)
(* never passes otherwise; any other passes only when no scope is known.   *)
HostAllowed(h) ==
  \/ h \in Scope
  \/ h # NoHost /\ h \notin Private /\ Scope = {}

InScope(r) == r \in Untargeted \/ HostAllowed(HostOf[r])

Admissible(r) == InScope(r) /\ r \notin Forbidden

-----------------------------------------------------------------------------
(* The deterministic preludes: default-credential login, recon, exposed    *)
(* files, login bypass, object ids.  None of them looks at the context.    *)

Step(n, r, who) == [number |-> n, host |-> HostOf[r], request |-> r, by |-> who]

(* A probe that is out of scope, fails or finds nothing records no step. *)
ProbeSkipped ==
  /\ pc = "prelude"
  /\ stage <= Stages
  /\ probe < Probes[stage]
  /\ probe' = probe + 1
  /\ UNCHANGED <<pc, alive, stage, pending, crawled, stepNumber, steps, live,
                 budget, seen, coverage, gate, refreshes, ended, advice>>

(* A recorded probe continues the numbering; the crawl finds endpoints.    *)
(* The repeat detection of the loop starts empty: it knows no probe.       *)
ProbeRecorded ==
  /\ pc = "prelude"
  /\ stage <= Stages
  /\ probe < Probes[stage]
  /\ probe' = probe + 1
  /\ \E r \in Probed[stage] :
       /\ Admissible(r)
       /\ LET step == Step(stepNumber + Len(pending) + 1, r, "prelude") IN
            /\ pending' = Append(pending, step)
            /\ live' = Append(live, step)
  /\ IF stage = ReconStage
     THEN \E found \in SUBSET Endpoints : crawled' = crawled \cup found
     ELSE UNCHANGED crawled
  /\ UNCHANGED <<pc, alive, stage, stepNumber, steps, budget, seen, coverage,
                 gate, refreshes, ended, advice>>

(* Mutant: the counter is not advanced by what a prelude recorded. *)
PreludeReturnsUncounted ==
  /\ pc = "prelude"
  /\ stage <= Stages
  /\ steps' = steps \o pending
  /\ stepNumber' = stepNumber
  /\ pending' = << >>
  /\ stage' = stage + 1
  /\ probe' = 0
  /\ UNCHANGED <<pc, alive, crawled, live, budget, seen, coverage, gate,
                 refreshes, ended, advice>>

(* A prelude may give up at any probe: it returns what it has recorded. *)
PreludeReturns ==
  /\ pc = "prelude"
  /\ stage <= Stages
  /\ steps' = steps \o pending
  /\ stepNumber' = stepNumber + Len(pending)
  /\ pending' = << >>
  /\ stage' = stage + 1
  /\ probe' = 0
  /\ UNCHANGED <<pc, alive, crawled, live, budget, seen, coverage, gate,
                 refreshes, ended, advice>>

(* The gate is seeded with the endpoints the recon prelude crawled. *)
SeedCoverage ==
  /\ pc = "prelude"
  /\ stage > Stages
  /\ endpoints' = crawled
  /\ pc' = "head"
  /\ UNCHANGED <<alive, prelude, stepNumber, steps, live, budget, seen, tested,
                 gate, refreshes, ended, advice>>

-----------------------------------------------------------------------------
(* The head of an iteration.                                               *)

BudgetLeft == iteration < 3 * MaxSteps /\ stepNumber < MaxSteps

Leave(why) == ended' = why /\ pc' = "finalize"

BudgetSpent ==
  /\ pc = "head"
  /\ ~ BudgetLeft
  /\ Leave("budget")
  /\ UNCHANGED <<alive, prelude, stepNumber, steps, live, budget, seen,
                 coverage, gate, refreshes, advice>>

(* A dead context: the loop returns its error and skips the synthesis. *)
Interrupted ==
  /\ pc = "head"
  /\ BudgetLeft
  /\ ~ alive
  /\ pc' = "done"
  /\ ended' = "context"
  /\ UNCHANGED <<alive, prelude, stepNumber, steps, live, budget, seen,
                 coverage, gate, refreshes, advice>>

(* Mutant: only executed actions count as iterations. *)
AskUncounted ==
  /\ pc = "head"
  /\ BudgetLeft
  /\ alive
  /\ pc' = "turn"
  /\ UNCHANGED <<alive, prelude, stepNumber, steps, live, iteration, failures,
                 seen, coverage, gate, refreshes, ended, advice>>

Ask ==
  /\ pc = "head"
  /\ BudgetLeft
  /\ alive
  /\ pc' = "turn"
  /\ iteration' = iteration + 1
  /\ UNCHANGED <<alive, prelude, stepNumber, steps, live, failures, seen,
                 coverage, gate, refreshes, ended, advice>>

(* Generate fails, for a dead context or a provider's own reason. *)
ModelFails ==
  /\ pc = "turn"
  /\ pc' = "done"
  /\ ended' = "model"
  /\ UNCHANGED <<alive, prelude, stepNumber, steps, live, budget, seen,
                 coverage, gate, refreshes, advice>>

-----------------------------------------------------------------------------
(* The agent's answers.                                                    *)

(* Mutant: the failures are counted but end nothing. *)
FailTurnForever ==
  /\ failures' = failures + 1
  /\ pc' = "head"
  /\ UNCHANGED ended

(* One more failure in a row; too many end the loop. *)
FailTurn ==
  /\ failures' = failures + 1
  /\ IF failures + 1 > MaxFailures
     THEN Leave("failures")
     ELSE pc' = "head" /\ UNCHANGED ended

Unparsable ==
  /\ pc = "turn"
  /\ FailTurn
  /\ UNCHANGED <<alive, prelude, stepNumber, steps, live, iteration, seen,
                 coverage, gate, refreshes, advice>>

Uncovered == endpoints \ tested

(* A final answer: accepted when everything is covered, else it goes       *)
(* through the gate.  It neither counts as a failure nor clears any.       *)
FinalAnswer ==
  /\ pc = "turn"
  /\ IF Uncovered # {} /\ stepNumber < MaxSteps
     THEN /\ gate' = AfterFinal(gate, Cardinality(Uncovered))
          /\ IF Holds(gate', MaxNudges)
             THEN pc' = "head" /\ UNCHANGED ended
             ELSE Leave("final")
     ELSE Leave("final") /\ UNCHANGED gate
  /\ UNCHANGED <<alive, prelude, stepNumber, steps, live, budget, seen,
                 coverage, refreshes, advice>>

Repeated(r) == r \notin Untargeted /\ r \in seen

(* The exact request already ran. *)
RejectRepeat(r) ==
  /\ pc = "turn"
  /\ Repeated(r)
  /\ FailTurn
  /\ UNCHANGED <<alive, prelude, stepNumber, steps, live, iteration, seen,
                 coverage, gate, refreshes, advice>>

(* The profile, the scope, the payload guard or the policy refuses. *)
RejectAction(r) ==
  /\ pc = "turn"
  /\ ~ Repeated(r)
  /\ ~ Admissible(r)
  /\ FailTurn
  /\ UNCHANGED <<alive, prelude, stepNumber, steps, live, iteration, seen,
                 coverage, gate, refreshes, advice>>

(* Mutants: the request is not remembered; any tool counts as a test. *)
RememberNothing(r) == UNCHANGED seen

Remember(r) == seen' = IF r \in Untargeted THEN seen ELSE seen \cup {r}

CoverAnyTool(r) ==
  /\ tested' = tested \cup ({EndpointOf[r]} \ {NoEndpoint})
  /\ IF r \in Discovers
     THEN \E found \in SUBSET Endpoints : endpoints' = endpoints \cup found
     ELSE UNCHANGED endpoints

(* A discovery tool reveals endpoints, an active test covers its own. *)
Cover(r) ==
  /\ tested' = IF r \in Tests THEN tested \cup ({EndpointOf[r]} \ {NoEndpoint})
                              ELSE tested
  /\ IF r \in Discovers
     THEN \E found \in SUBSET Endpoints : endpoints' = endpoints \cup found
     ELSE UNCHANGED endpoints

(* A result that looks logged out may lead to a new session, and to a note *)
(* that asks the agent to re-run the action.                               *)
RefreshSession(r) ==
  \/ /\ Authenticated
     /\ refreshes < MaxRefresh
     /\ refreshes' = refreshes + 1
     /\ advice' = r
  \/ /\ advice' = NoRequest
     /\ UNCHANGED refreshes

(* The request runs and becomes a step. *)
Execute(r) ==
  /\ pc = "turn"
  /\ ~ Repeated(r)
  /\ Admissible(r)
  /\ failures' = 0
  /\ Remember(r)
  /\ Cover(r)
  /\ LET step == Step(stepNumber + 1, r, "agent") IN
       /\ steps' = Append(steps, step)
       /\ live' = Append(live, step)
  /\ stepNumber' = stepNumber + 1
  /\ RefreshSession(r)
  /\ pc' = "head"
  /\ UNCHANGED <<alive, prelude, iteration, gate, ended>>

(* Mutant: a failed synthesis sends the loop round again. *)
FinalizeResumes ==
  /\ pc = "finalize"
  /\ pc' \in {"done", "head"}
  /\ UNCHANGED <<alive, prelude, stepNumber, steps, live, budget, seen,
                 coverage, gate, refreshes, ended, advice>>

(* The synthesis, whose failure is replaced by a fixed sentence. *)
Finalize ==
  /\ pc = "finalize"
  /\ pc' = "done"
  /\ UNCHANGED <<alive, prelude, stepNumber, steps, live, budget, seen,
                 coverage, gate, refreshes, ended, advice>>

(* The run is cancelled or its deadline passes. *)
ContextDies ==
  /\ alive
  /\ pc # "done"
  /\ alive' = FALSE
  /\ UNCHANGED <<pc, prelude, stepNumber, steps, live, budget, seen, coverage,
                 gate, refreshes, ended, advice>>

-----------------------------------------------------------------------------

Preludes == ProbeSkipped \/ ProbeRecorded \/ PreludeReturns \/ SeedCoverage

Answer ==
  \/ ModelFails \/ Unparsable \/ FinalAnswer
  \/ \E r \in Requests : RejectRepeat(r) \/ RejectAction(r) \/ Execute(r)

Loop == Preludes \/ BudgetSpent \/ Interrupted \/ Ask \/ Answer \/ Finalize

Next == Loop \/ ContextDies

Spec == Init /\ [][Next]_vars

(* The loop runs in a goroutine of its own; every tool and every model     *)
(* call returns within a timeout.                                          *)
FairSpec == Spec /\ WF_vars(Loop)

-----------------------------------------------------------------------------
(* Properties.                                                             *)

AnyRequest == Requests \cup {NoRequest}

StepRecord ==
  [number : Nat, host : Hosts \cup {NoHost}, request : Requests,
   by : {"prelude", "agent"}]

(* The type invariant; the refresh count stays within its cap. *)
TypeOK ==
  /\ pc \in {"prelude", "head", "turn", "finalize", "done"}
  /\ alive \in BOOLEAN
  /\ stage \in 1 .. (Stages + 1)
  /\ probe \in Nat
  /\ pending \in Seq(StepRecord)
  /\ stepNumber \in Nat
  /\ steps \in Seq(StepRecord)
  /\ live \in Seq(StepRecord)
  /\ iteration \in 0 .. (3 * MaxSteps)
  /\ failures \in 0 .. (MaxFailures + 1)
  /\ seen \subseteq Requests
  /\ endpoints \subseteq Endpoints
  /\ tested \subseteq Endpoints
  /\ crawled \subseteq Endpoints
  /\ gate \in Gate
  /\ refreshes \in 0 .. MaxRefresh
  /\ ended \in {"no", "budget", "context", "model", "failures", "final"}
  /\ advice \in AnyRequest

(* What a poll is shown is what the loop returns: the live progress is the *)
(* returned slice followed by the running prelude's steps, and the steps   *)
(* are numbered 1, 2, 3, ... across five preludes and the loop, each of    *)
(* which counts for itself.                                                *)
LiveMirrorsSteps ==
  /\ live = steps \o pending
  /\ stepNumber = Len(steps)
  /\ \A i \in 1 .. Len(live) : live[i].number = i

(* Nothing is ever sent to a host outside the scope, by a prelude or by    *)
(* the agent; without a scope, never to a private host.                    *)
StepsInScope ==
  \A i \in 1 .. Len(live) :
    LET h == live[i].host IN
      \/ live[i].request \in Untargeted
      \/ h \in Scope
      \/ Scope = {} /\ h \in Hosts \ Private

(* The agent runs no targeted request twice, so its step budget buys that  *)
(* many different requests.  It may run each request of a prelude again.   *)
AgentRepeatsNothing ==
  \A i, j \in 1 .. Len(steps) :
    ( /\ steps[i].by = "agent" /\ steps[j].by = "agent"
      /\ steps[i].request = steps[j].request
      /\ steps[i].request \notin Untargeted) => i = j

(* An endpoint counts as covered only after the agent ran an active test   *)
(* of it; the probe of a prelude covers nothing.                           *)
CoveredWasTested ==
  \A e \in tested :
    \E i \in 1 .. Len(steps) :
      /\ steps[i].by = "agent"
      /\ steps[i].request \in Tests /\ EndpointOf[steps[i].request] = e

(* The agent finishes with endpoints untested only after the gate pushed   *)
(* it back: its last MaxNudges final answers made no progress.             *)
EarlyFinalWasPushedBack ==
  (ended = "final" /\ Uncovered # {}) => Stalled(gate.trail, MaxNudges)

(* A stubborn agent is never trapped: once its last MaxNudges final        *)
(* answers made no progress the loop has ended.                            *)
StubbornAgentIsReleased ==
  pc \in {"head", "turn"} => ~ Stalled(gate.trail, MaxNudges)

(* The loop ends, whatever the agent answers. *)
LoopEnds == <>(pc = "done")

(* The loop is the one its caller relies on. *)
Contract == INSTANCE LoopContract WITH
  phase <- CASE pc = "prelude"              -> "prelude"
             [] pc \in {"finalize", "done"} -> "over"
             [] pc = "head"                 -> "loop"
             [] pc = "turn"                 -> "turn",
  turns <- iteration,
  steps <- Len(live),
  outcome <- CASE ended = "no" -> "none"
               [] ended \in {"context", "model"} -> "error"
               [] OTHER -> "ok",
  MaxTurns <- 3 * MaxSteps

ContractSpec == Contract!Spec

(* "Your session was lost ... Re-run the previous action" (agent_loop.go:  *)
(* 641): the action the loop asks for is not turned down as a repeat.      *)
AdvisedActionRuns ==
  [][\A r \in Requests : RejectRepeat(r) => r # advice]_vars

-----------------------------------------------------------------------------
(* The inductive invariant.                                                *)

Over == pc \in {"finalize", "done"}

(* While the loop runs nothing has ended it, and a prelude that has        *)
(* returned holds no steps back.                                           *)
Running ==
  /\ ~ Over => failures <= MaxFailures /\ ended = "no"
  /\ pc = "turn" => stepNumber < MaxSteps
  /\ pc # "prelude" \/ stage > Stages => pending = << >>

(* Every targeted request the agent ran is remembered, and only those are; *)
(* what a prelude still holds back is its own.                             *)
Remembered ==
  /\ \A i \in 1 .. Len(steps) :
       (steps[i].by = "agent" /\ steps[i].request \notin Untargeted)
         => steps[i].request \in seen
  /\ \A i \in 1 .. Len(pending) : pending[i].by = "prelude"

Recorded ==
  /\ LiveMirrorsSteps /\ StepsInScope /\ Remembered
  /\ AgentRepeatsNothing /\ CoveredWasTested

(* The gate has let nobody through and holds nobody too long. *)
Gated ==
  /\ GateCounts(gate)
  /\ ~ Over => gate.trail = << >> \/ Holds(gate, MaxNudges)
  /\ (ended = "final" /\ Uncovered # {})
       => gate.trail # << >> /\ ~ Holds(gate, MaxNudges)

(* The inductive invariant of runAgentLoop: steps and live progress agree,  *)
(* every request was in scope and each of the agent's new to it, an         *)
(* endpoint is covered because the agent tested it, and the agent finished  *)
(* with some untested only after its last MaxNudges final answers were      *)
(* pushed back in vain.                                                     *)
LoopInv == TypeOK /\ Running /\ Recorded /\ Gated
=============================================================================
