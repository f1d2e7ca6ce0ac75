--------------------------- MODULE ScanLifecycle ---------------------------
(***************************************************************************)
(* The asynchronous scan lifecycle of internal/application/pentest: the    *)
(* submission handlers (StartAgentLoopAsync, StartStaticScanAsync), the    *)
(* background goroutine each of them launches (runAsyncScan,               *)
(* runStaticScanAsync), CancelScan, GetScan, the in-memory cancel registry *)
(* and live-progress store, and RecoverStaleScans at boot.                 *)
(*                                                                         *)
(* Every database call is a step of its own, so that everything another    *)
(* request or goroutine may do between two calls is explored.  The scan    *)
(* table is the Postgres one: it survives a crash of the process, and a    *)
(* conflicting insert updates every column but created_at.                 *)
(***************************************************************************)
EXTENDS Naturals

CONSTANTS
  Users,              \* accounts that submit scans
  Scans,              \* scan ids (one submission each; uuid.NewString())
  Cancels,            \* cancel requests that may be in flight at once
  Polls,              \* GET /scans/:id requests that may be in flight at once
  Owner,              \* the user who submits each scan
  Static,             \* the scans that are SAST scans of an uploaded archive
  Prices,             \* prices an administrator may configure for the model
  MaxTurns,           \* iterations of the agent loop (maxSteps * 3 in the code)
  MaxSteps,           \* steps a scan may record
  MaxCrashes,         \* bound on crashes of the process
  SaveMayFail         \* may the repository's Save return an error?

ASSUME ScanConstants ==
  /\ Owner \in [Scans -> Users]
  /\ Static \subseteq Scans
  /\ MaxTurns \in Nat
  /\ MaxSteps \in Nat
  /\ MaxCrashes \in Nat
  /\ SaveMayFail \in BOOLEAN
  /\ Prices # {}

VARIABLES
  up,        \* is the process running?
  crashes,   \* crashes so far
  pc,        \* where each submission and its background goroutine stands
  turns,     \* iterations of the loop taken
  steps,     \* number of steps the loop has taken (the slice it returns)
  result,    \* what the loop returned, then the terminal status decided from it
  ctx,       \* the run context: its Err(), or "none" before it exists
  registry,  \* Service.running: the scans with a registered cancel func
  progress,  \* Service.progress: number of live steps kept for each scan
  row,       \* the scans table
  aged,      \* scans whose created_at lies before the recovery cutoff
  reports,   \* scans whose automatic report has been persisted
  price,     \* the model's price in the catalogue now
  frozen,    \* the price each submission froze when it was validated
  cancel,    \* the cancel requests in flight
  poll,      \* the polls in flight and their last answers
  asked,     \* history: scans for which a cancel request was acknowledged
  faulted,   \* history: scans that lost their terminal save or their process
  overlapped \* history: pairs of scans of one user, the one checked for while
             \* the other had passed its check and not saved its record

memory   == <<ctx, registry, progress>>
runner   == <<pc, turns, steps, result>>
history  == <<asked, faulted, overlapped>>
catalog  == <<price, frozen>>
vars == <<up, crashes, runner, memory, row, aged, reports, catalog,
          cancel, poll, history>>

-----------------------------------------------------------------------------

Terminal == {"completed", "failed", "cancelled"}
Status   == {"absent", "running"} \cup Terminal

(* A row keeps its status, how many steps it carries and its price snapshot. *)
Row == [status : Status, steps : Nat, price : Prices]

HandlerPC == {"checked", "saved"}
RunnerPC  == {"ingest", "prelude", "loop", "turn", "decide", "save",
              "report", "deregister"}
InFlight  == HandlerPC \cup RunnerPC \cup {"clear"}
PC        == InFlight \cup {"idle", "done", "dead"}

IdleCancel == [pc |-> "idle"]
IdlePoll   == [pc |-> "idle"]

Init ==
  /\ up = TRUE
  /\ crashes = 0
  /\ pc = [s \in Scans |-> "idle"]
  /\ turns = [s \in Scans |-> 0]
  /\ steps = [s \in Scans |-> 0]
  /\ result = [s \in Scans |-> "none"]
  /\ ctx = [s \in Scans |-> "none"]
  /\ registry = {}
  /\ progress = [s \in Scans |-> 0]
  /\ price \in Prices
  /\ frozen = [s \in Scans |-> price]
  /\ row = [s \in Scans |-> [status |-> "absent", steps |-> 0, price |-> price]]
  /\ aged = {}
  /\ reports = {}
  /\ cancel = [c \in Cancels |-> IdleCancel]
  /\ poll = [p \in Polls |-> IdlePoll]
  /\ asked = {}
  /\ faulted = {}
  /\ overlapped = {}

Goto(s, label) == pc' = [pc EXCEPT ![s] = label]

(* Repository Save: an upsert of the whole record. *)
Save(s, record) == row' = [row EXCEPT ![s] = record]

-----------------------------------------------------------------------------
(* Submission: StartAgentLoopAsync and StartStaticScanAsync.               *)

(* Mutant: ask the in-memory registry instead of the table. *)
RunningRowInMemory(u) == \E t \in registry : Owner[t] = u

RunningRow(u) == \E t \in Scans : Owner[t] = u /\ row[t].status = "running"

(* Validate freezes the price in effect; FindRunningByUserID finds no      *)
(* running scan of the user.  A rejected submission changes no scan state. *)
(* Nothing tells one submission of another that is not saved yet.          *)
StartCheck(s) ==
  /\ up
  /\ pc[s] = "idle"
  /\ ~ RunningRow(Owner[s])
  /\ frozen' = [frozen EXCEPT ![s] = price]
  /\ Goto(s, "checked")
  /\ overlapped' = overlapped \cup
       {{s, t} : t \in {o \in Scans : Owner[o] = Owner[s] /\ pc[o] = "checked"}}
  /\ UNCHANGED <<up, crashes, turns, steps, result, memory, row, aged, reports,
                 price, cancel, poll, asked, faulted>>

SaveRunning(s) ==
  /\ pc[s] = "checked"
  /\ Save(s, [status |-> "running", steps |-> 0, price |-> frozen[s]])
  /\ Goto(s, "saved")
  /\ UNCHANGED <<up, crashes, turns, steps, result, memory, aged, reports,
                 catalog, cancel, poll, history>>

(* "failed to start scan": nothing was launched. *)
SaveRunningFails(s) ==
  /\ SaveMayFail
  /\ pc[s] = "checked"
  /\ Goto(s, "done")
  /\ UNCHANGED <<up, crashes, turns, steps, result, memory, row, aged, reports,
                 catalog, cancel, poll, history>>

(* context.WithTimeout, registerRunning and the go statement. *)
Launch(s) ==
  /\ pc[s] = "saved"
  /\ ctx' = [ctx EXCEPT ![s] = "live"]
  /\ registry' = registry \cup {s}
  /\ Goto(s, IF s \in Static THEN "ingest" ELSE "prelude")
  /\ UNCHANGED <<up, crashes, turns, steps, result, progress, row, aged,
                 reports, catalog, cancel, poll, history>>

-----------------------------------------------------------------------------
(* The background goroutine: runAsyncScan and runStaticScanAsync.          *)

RunnerStep(s, from, to) ==
  /\ pc[s] = from
  /\ Goto(s, to)
  /\ UNCHANGED <<up, crashes, row, aged, reports, catalog, cancel, poll>>

(* A static scan cancelled before extraction ends there. *)
IngestCancelled(s) ==
  /\ RunnerStep(s, "ingest", "save")
  /\ ctx[s] # "live"
  /\ result' = [result EXCEPT ![s] = "cancelled"]
  /\ UNCHANGED <<turns, steps, memory, history>>

(* extractZip rejects the archive or accepts it; it ignores the context. *)
Ingest(s) ==
  /\ ctx[s] = "live"
  /\ \/ /\ RunnerStep(s, "ingest", "save")
        /\ result' = [result EXCEPT ![s] = "failed"]
     \/ /\ RunnerStep(s, "ingest", "prelude")
        /\ UNCHANGED result
  /\ UNCHANGED <<turns, steps, memory, history>>

(* Mutant: the live copy of a step is appended twice. *)
RecordStepTwice(s) ==
  /\ steps[s] < MaxSteps
  /\ steps' = [steps EXCEPT ![s] = @ + 1]
  /\ progress' = [progress EXCEPT ![s] = @ + 2]

(* A step is appended to the loop's slice and to the live progress. *)
RecordStep(s) ==
  /\ steps[s] < MaxSteps
  /\ steps' = [steps EXCEPT ![s] = @ + 1]
  /\ progress' = [progress EXCEPT ![s] = @ + 1]

(* The deterministic preludes run tools without looking at the context. *)
PreludeStep(s) ==
  /\ RunnerStep(s, "prelude", "prelude")
  /\ RecordStep(s)
  /\ UNCHANGED <<turns, result, ctx, registry, history>>

PreludeEnd(s) ==
  /\ RunnerStep(s, "prelude", "loop")
  /\ UNCHANGED <<turns, steps, result, memory, history>>

(* Top of an iteration: the budget is tested first, then the context. *)
BudgetLeft(s) == turns[s] < MaxTurns /\ steps[s] < MaxSteps

LoopExhausted(s) ==
  /\ ~ BudgetLeft(s)
  /\ RunnerStep(s, "loop", "decide")
  /\ result' = [result EXCEPT ![s] = "ok"]
  /\ UNCHANGED <<turns, steps, memory, history>>

(* Mutant: an interrupted loop returns from the goroutine at once. *)
LoopInterruptedUnsaved(s) ==
  /\ BudgetLeft(s)
  /\ ctx[s] # "live"
  /\ RunnerStep(s, "loop", "deregister")
  /\ UNCHANGED <<turns, steps, result, memory, history>>

LoopInterrupted(s) ==
  /\ BudgetLeft(s)
  /\ ctx[s] # "live"
  /\ RunnerStep(s, "loop", "decide")
  /\ result' = [result EXCEPT ![s] = "error"]
  /\ UNCHANGED <<turns, steps, memory, history>>

LoopTurn(s) ==
  /\ BudgetLeft(s)
  /\ ctx[s] = "live"
  /\ RunnerStep(s, "loop", "turn")
  /\ turns' = [turns EXCEPT ![s] = @ + 1]
  /\ UNCHANGED <<steps, result, memory, history>>

(* Generate returns an error: the provider's, or the context's. *)
TurnFails(s) ==
  /\ RunnerStep(s, "turn", "decide")
  /\ result' = [result EXCEPT ![s] = "error"]
  /\ UNCHANGED <<turns, steps, memory, history>>

(* The chosen tool runs; a context that dies meanwhile does not stop it. *)
TurnExecutes(s) ==
  /\ RunnerStep(s, "turn", "loop")
  /\ RecordStep(s)
  /\ UNCHANGED <<turns, result, ctx, registry, history>>

(* An unparsable, repeated, rejected or nudged answer records no step. *)
TurnWasted(s) ==
  /\ RunnerStep(s, "turn", "loop")
  /\ UNCHANGED <<turns, steps, result, memory, history>>

(* A final answer, or too many failures in a row, ends the loop; the final *)
(* synthesis swallows its error, so the loop returns no error.             *)
TurnFinal(s) ==
  /\ RunnerStep(s, "turn", "decide")
  /\ result' = [result EXCEPT ![s] = "ok"]
  /\ UNCHANGED <<turns, steps, memory, history>>

(* Mutants: the loop's error kept as the status; the deadline not told     *)
(* apart from a cancellation.                                              *)
OutcomeRaw(err, c) == IF err = "ok" THEN "completed" ELSE err

OutcomeIgnoringDeadline(err, c) ==
  CASE err = "ok"                    -> "completed"
    [] err = "error" /\ c # "live"   -> "cancelled"
    [] err = "error" /\ c = "live"   -> "failed"

(* The terminal status, from the loop's error and the context's. *)
Outcome(err, c) ==
  CASE err = "ok"                         -> "completed"
    [] err = "error" /\ c = "cancelled"   -> "cancelled"
    [] err = "error" /\ c # "cancelled"   -> "failed"

Decide(s) ==
  /\ RunnerStep(s, "decide", "save")
  /\ result' = [result EXCEPT ![s] = Outcome(@, ctx[s])]
  /\ UNCHANGED <<turns, steps, memory, history>>

(* Mutant: a report whatever the outcome. *)
AfterSaveAlways(s) == "report"

(* After the terminal save a completed scan gets its report. *)
AfterSave(s) == IF result[s] = "completed" THEN "report" ELSE "deregister"

(* Mutants: only the status is updated; the price is looked up again. *)
TerminalStatusOnly(s) == [row[s] EXCEPT !.status = result[s]]

TerminalRepriced(s) ==
  [status |-> result[s], steps |-> steps[s], price |-> price]

TerminalRecord(s) ==
  [status |-> result[s], steps |-> steps[s], price |-> frozen[s]]

SaveTerminal(s) ==
  /\ pc[s] = "save"
  /\ Save(s, TerminalRecord(s))
  /\ Goto(s, AfterSave(s))
  /\ UNCHANGED <<up, crashes, turns, steps, result, memory, aged, reports,
                 catalog, cancel, poll, history>>

(* The dynamic runner gives up; the static one only logs the failure. *)
SaveTerminalFails(s) ==
  /\ SaveMayFail
  /\ pc[s] = "save"
  /\ Goto(s, IF s \in Static THEN AfterSave(s) ELSE "deregister")
  /\ faulted' = faulted \cup {s}
  /\ UNCHANGED <<up, crashes, turns, steps, result, memory, row, aged, reports,
                 catalog, cancel, poll, asked, overlapped>>

(* GenerateReport / GenerateStaticReport, best effort. *)
Report(s) ==
  /\ pc[s] = "report"
  /\ Goto(s, "deregister")
  /\ \/ reports' = reports \cup {s}
     \/ UNCHANGED reports
  /\ UNCHANGED <<up, crashes, turns, steps, result, memory, row, aged,
                 catalog, cancel, poll, history>>

(* Mutant: the cancel func is called but stays registered. *)
DeregisterKeeps(s) ==
  /\ RunnerStep(s, "deregister", "clear")
  /\ ctx' = [ctx EXCEPT ![s] = IF @ = "live" THEN "cancelled" ELSE @]
  /\ UNCHANGED <<turns, steps, result, registry, progress, history>>

(* deregisterRunning: cancel and delete under the lock ... *)
Deregister(s) ==
  /\ RunnerStep(s, "deregister", "clear")
  /\ ctx' = [ctx EXCEPT ![s] = IF @ = "live" THEN "cancelled" ELSE @]
  /\ registry' = registry \ {s}
  /\ UNCHANGED <<turns, steps, result, progress, history>>

(* Mutant: the live progress is left behind. *)
ClearProgressForgotten(s) ==
  /\ RunnerStep(s, "clear", "done")
  /\ UNCHANGED <<turns, steps, result, memory, history>>

(* ... then clearProgress under the other lock. *)
ClearProgress(s) ==
  /\ RunnerStep(s, "clear", "done")
  /\ progress' = [progress EXCEPT ![s] = 0]
  /\ UNCHANGED <<turns, steps, result, ctx, registry, history>>

(* The run context's deadline.  It lies at least one scan timeout after    *)
(* created_at for a dynamic scan; it cannot pass before a goroutine's      *)
(* first statement.                                                        *)
Expire(s) ==
  /\ ctx[s] = "live"
  /\ pc[s] # "ingest"
  /\ s \in Static \/ s \in aged
  /\ ctx' = [ctx EXCEPT ![s] = "expired"]
  /\ UNCHANGED <<up, crashes, runner, registry, progress, row, aged, reports,
                 catalog, cancel, poll, history>>

-----------------------------------------------------------------------------
(* CancelScan: FindByID and its guards, then the registry, then either the *)
(* context's cancel func or a direct save of the record read at first.     *)

CancelRead(c, s) ==
  /\ up
  /\ cancel[c].pc = "idle"
  /\ row[s].status = "running"
  /\ cancel' = [cancel EXCEPT ![c] =
                  [pc |-> "lookup", scan |-> s, copy |-> row[s]]]
  /\ UNCHANGED <<up, crashes, runner, memory, row, aged, reports, catalog,
                 poll, history>>

CancelLookup(c) ==
  /\ cancel[c].pc = "lookup"
  /\ cancel' = [cancel EXCEPT ![c].pc =
                  IF cancel[c].scan \in registry THEN "signal" ELSE "mark"]
  /\ UNCHANGED <<up, crashes, runner, memory, row, aged, reports, catalog,
                 poll, history>>

CancelSignal(c) ==
  /\ cancel[c].pc = "signal"
  /\ LET s == cancel[c].scan IN
       /\ ctx' = [ctx EXCEPT ![s] = IF @ = "live" THEN "cancelled" ELSE @]
       /\ asked' = asked \cup {s}
  /\ cancel' = [cancel EXCEPT ![c] = IdleCancel]
  /\ UNCHANGED <<up, crashes, runner, registry, progress, row, aged, reports,
                 catalog, poll, faulted, overlapped>>

(* Mutant: the record read at first is saved back as it was. *)
CancelMarkStale(c) ==
  /\ cancel[c].pc = "mark"
  /\ Save(cancel[c].scan, cancel[c].copy)
  /\ asked' = asked \cup {cancel[c].scan}
  /\ cancel' = [cancel EXCEPT ![c] = IdleCancel]
  /\ UNCHANGED <<up, crashes, runner, memory, aged, reports, catalog, poll,
                 faulted, overlapped>>

CancelMark(c) ==
  /\ cancel[c].pc = "mark"
  /\ Save(cancel[c].scan, [cancel[c].copy EXCEPT !.status = "cancelled"])
  /\ asked' = asked \cup {cancel[c].scan}
  /\ cancel' = [cancel EXCEPT ![c] = IdleCancel]
  /\ UNCHANGED <<up, crashes, runner, memory, aged, reports, catalog, poll,
                 faulted, overlapped>>

CancelMarkFails(c) ==
  /\ SaveMayFail
  /\ cancel[c].pc = "mark"
  /\ cancel' = [cancel EXCEPT ![c] = IdleCancel]
  /\ UNCHANGED <<up, crashes, runner, memory, row, aged, reports, catalog,
                 poll, history>>

-----------------------------------------------------------------------------
(* GetScan: the row first, then the live progress of a running scan.  The  *)
(* poll remembers how many steps had run when it was received.             *)

PollRead(p, s) ==
  /\ up
  /\ poll[p].pc # "read"
  /\ row[s].status # "absent"
  /\ poll' = [poll EXCEPT ![p] =
                [pc |-> "read", scan |-> s, copy |-> row[s], ran |-> progress[s]]]
  /\ UNCHANGED <<up, crashes, runner, memory, row, aged, reports, catalog,
                 cancel, history>>

(* A running record is shown with the live steps, if there are any. *)
WithProgress(record, live) ==
  IF record.status = "running" /\ live > 0
  THEN [record EXCEPT !.steps = live] ELSE record

PollAnswer(p) ==
  /\ poll[p].pc = "read"
  /\ LET shown == WithProgress(poll[p].copy, progress[poll[p].scan]) IN
       poll' = [poll EXCEPT ![p] = [pc |-> "answered", scan |-> poll[p].scan,
                                    copy |-> shown, ran |-> poll[p].ran]]
  /\ UNCHANGED <<up, crashes, runner, memory, row, aged, reports, catalog,
                 cancel, history>>

-----------------------------------------------------------------------------
(* The environment: time, the administrator, crashes and restarts.         *)

(* created_at passes the cutoff; only running rows are ever compared. *)
Age(s) ==
  /\ row[s].status = "running"
  /\ s \notin aged
  /\ aged' = aged \cup {s}
  /\ UNCHANGED <<up, crashes, runner, memory, row, reports, catalog, cancel,
                 poll, history>>

EditPrice ==
  /\ up
  /\ price' \in Prices \ {price}
  /\ UNCHANGED <<up, crashes, runner, memory, row, aged, reports, frozen,
                 cancel, poll, history>>

(* Everything held in memory is lost; the tables stay. *)
Crash ==
  /\ up
  /\ crashes < MaxCrashes
  /\ up' = FALSE
  /\ crashes' = crashes + 1
  /\ pc' = [s \in Scans |-> IF pc[s] \in InFlight THEN "dead" ELSE pc[s]]
  /\ ctx' = [s \in Scans |-> "none"]
  /\ registry' = {}
  /\ progress' = [s \in Scans |-> 0]
  /\ cancel' = [c \in Cancels |-> IdleCancel]
  /\ poll' = [p \in Polls |-> IdlePoll]
  /\ faulted' = faulted \cup {s \in Scans : pc[s] \in InFlight}
  /\ UNCHANGED <<turns, steps, result, row, aged, reports, catalog, asked,
                 overlapped>>

(* FailStaleRunning: running rows older than the cutoff become failed. *)
FailStaleRunning ==
  row' = [s \in Scans |->
            IF row[s].status = "running" /\ s \in aged
            THEN [row[s] EXCEPT !.status = "failed"] ELSE row[s]]

(* RecoverStaleScans runs before the server listens; a database error is   *)
(* only logged.                                                            *)
Boot ==
  /\ ~ up
  /\ up' = TRUE
  /\ FailStaleRunning \/ (SaveMayFail /\ UNCHANGED row)
  /\ UNCHANGED <<crashes, runner, memory, aged, reports, catalog, cancel, poll,
                 history>>

-----------------------------------------------------------------------------

Submission(s) == StartCheck(s) \/ SaveRunning(s) \/ SaveRunningFails(s) \/ Launch(s)

Loop(s) ==
  \/ IngestCancelled(s) \/ Ingest(s)
  \/ PreludeStep(s) \/ PreludeEnd(s)
  \/ LoopExhausted(s) \/ LoopInterrupted(s) \/ LoopTurn(s)
  \/ TurnFails(s) \/ TurnExecutes(s) \/ TurnWasted(s) \/ TurnFinal(s)

Finish(s) ==
  \/ Decide(s) \/ SaveTerminal(s) \/ SaveTerminalFails(s)
  \/ Report(s) \/ Deregister(s) \/ ClearProgress(s)

CancelScan(c) ==
  \/ \E s \in Scans : CancelRead(c, s)
  \/ CancelLookup(c) \/ CancelSignal(c) \/ CancelMark(c) \/ CancelMarkFails(c)

GetScan(p) == (\E s \in Scans : PollRead(p, s)) \/ PollAnswer(p)

Environment == EditPrice \/ Crash \/ Boot \/ \E s \in Scans : Age(s) \/ Expire(s)

Next ==
  \/ \E s \in Scans : Submission(s) \/ Loop(s) \/ Finish(s)
  \/ \E c \in Cancels : CancelScan(c)
  \/ \E p \in Polls : GetScan(p)
  \/ Environment

Spec == Init /\ [][Next]_vars

(* A launched goroutine keeps running: every model call is bounded by the  *)
(* run context and every tool by a timeout of its own.  Requests already   *)
(* accepted are served.  Nobody is obliged to submit, to cancel or to      *)
(* poll, a scan need not take long, and no crash is obliged to happen.     *)
Fairness ==
  \A s \in Scans :
    WF_vars(SaveRunning(s) \/ SaveRunningFails(s) \/ Launch(s)
            \/ Loop(s) \/ Finish(s))

FairSpec == Spec /\ Fairness /\ WF_vars(Boot)
-----------------------------------------------------------------------------
(* Properties.                                                             *)

CancelState ==
  {IdleCancel} \cup
  [pc : {"lookup", "signal", "mark"}, scan : Scans, copy : Row]

PollState ==
  {IdlePoll} \cup
  [pc : {"read", "answered"}, scan : Scans, copy : Row, ran : Nat]

(* The type invariant: every variable holds a value the code can give it.  *)
TypeOK ==
  /\ up \in BOOLEAN
  /\ crashes \in Nat
  /\ pc \in [Scans -> PC]
  /\ turns \in [Scans -> Nat]
  /\ steps \in [Scans -> Nat]
  /\ result \in [Scans -> {"none", "ok", "error"} \cup Terminal]
  /\ ctx \in [Scans -> {"none", "live", "cancelled", "expired"}]
  /\ registry \subseteq Scans
  /\ progress \in [Scans -> Nat]
  /\ row \in [Scans -> Row]
  /\ aged \subseteq Scans
  /\ reports \subseteq Scans
  /\ price \in Prices
  /\ frozen \in [Scans -> Prices]
  /\ cancel \in [Cancels -> CancelState]
  /\ poll \in [Polls -> PollState]
  /\ asked \subseteq Scans
  /\ faulted \subseteq Scans
  /\ overlapped \subseteq SUBSET Scans

(* Two records of one user say "running" only if, of their submissions,    *)
(* one passed its check while the other had passed its own and not saved   *)
(* its record yet (StartAgentLoopAsync, FindRunningByUserID).  That window *)
(* is the only way: no cancellation, stale copy, failed save, crash or     *)
(* restart lets a user in while a record of his runs, or makes a record    *)
(* run again beside a newer one; dynamic and static scans share one slot.  *)
TwoRunningOnlyByOverlap ==
  \A s, t \in Scans :
    (s # t /\ Owner[s] = Owner[t] /\ row[s].status = "running"
     /\ row[t].status = "running") => {s, t} \in overlapped

(* A record says "running" with nobody left to settle it only after a      *)
(* fault: its terminal save failed or the process died under it.  On every *)
(* other path the runner or a cancellation settles the record before the   *)
(* goroutine is gone.                                                      *)
PhantomOnlyAfterFault ==
  \A s \in Scans :
    (row[s].status = "running" /\ pc[s] \notin InFlight) => s \in faulted

(* The cancel func is registered exactly while the goroutine may still     *)
(* write: so when CancelScan finds none, no goroutine will see a signal,   *)
(* and when it finds one the context it cancels is the runner's.           *)
RegistryTracksRunner ==
  \A s \in Scans : s \in registry <=> pc[s] \in RunnerPC

(* Live progress is held only for a scan whose goroutine still runs, so    *)
(* the progress map does not grow across scans (deregisterRunning).        *)
ProgressReleased ==
  \A s \in Scans : progress[s] > 0 => pc[s] \in RunnerPC \cup {"clear"}

(* A scan ends "cancelled" only if somebody's request to cancel it was     *)
(* acknowledged: a deadline, a provider error or the release of the        *)
(* context at the end of the run never reads as a cancellation.            *)
CancelledOnlyOnRequest ==
  \A s \in Scans : row[s].status = "cancelled" => s \in asked

(* A completed record carries every step its loop took, even when a        *)
(* cancellation wrote an older copy of the record in between.              *)
CompletedRowHasAllSteps ==
  \A s \in Scans :
    row[s].status = "completed" => row[s].steps = steps[s]

(* An automatic report exists only for a run that ended completed, and     *)
(* unless its save failed the record said so before the report was made:   *)
(* it still does, or an acknowledged cancellation overwrote it.            *)
ReportOnlyForCompletedRun ==
  \A s \in reports :
    /\ result[s] = "completed"
    /\ \/ row[s].status = "completed"
       \/ row[s].status = "cancelled" /\ s \in asked
       \/ s \in faulted

(* A poll never shows a step the run has not taken, and its answer that a  *)
(* scan completed comes with every step, although the row and the live     *)
(* progress are read one after the other while the loop moves on.          *)
PollAnswersTheRun ==
  \A p \in Polls :
    poll[p].pc = "answered" =>
      LET s == poll[p].scan IN
        /\ poll[p].copy.steps <= steps[s]
        /\ poll[p].copy.status = "completed" => poll[p].copy.steps = steps[s]

(* The price on a record is the one in force when its scan was submitted,  *)
(* immune to later edits of the catalogue, through every later save.       *)
PriceFrozen ==
  [][\A s \in Scans :
       row[s].status # "absent" => row'[s].price = row[s].price]_row

(* The record of every scan behaves like ScanRecord: it never disappears,  *)
(* never runs again, and a settled one is rewritten only where cancel      *)
(* requests exist.                                                         *)
Record == INSTANCE ScanRecord WITH
            status   <- [s \in Scans |-> row[s].status],
            Rewrites <- Cancels # {}

RecordSpec == Record!Spec

(* No scan occupies its user's running slot for ever, however the agent    *)
(* behaves and whatever is cancelled meanwhile, unless its terminal save   *)
(* failed or the process died under it.                                    *)
RunningEventuallySettles ==
  \A s \in Scans :
    (row[s].status = "running") ~> (row[s].status # "running" \/ s \in faulted)

(* The goroutine of every launched scan ends and gives up everything it    *)
(* holds in memory.                                                        *)
RunnerEventuallyReleases ==
  \A s \in Scans :
    (pc[s] \in RunnerPC) ~>
      (pc[s] \notin InFlight /\ s \notin registry /\ progress[s] = 0)

-----------------------------------------------------------------------------
(* The inductive invariant behind the safety properties.                   *)

BeforeSave == {"saved", "ingest", "prelude", "loop", "turn", "decide", "save"}
AfterSaving == {"report", "deregister", "clear", "done", "dead"}

(* While a scan's code runs, result holds what that point of it expects. *)
ResultTyped ==
  \A s \in Scans :
    /\ pc[s] = "decide" => result[s] \in {"ok", "error"}
    /\ pc[s] = "save" => result[s] \in Terminal
    /\ pc[s] = "report" => result[s] = "completed"

(* Nothing runs and nobody is served while the process is down. *)
DownMeansIdle ==
  ~ up => /\ \A s \in Scans : pc[s] \notin InFlight
          /\ \A c \in Cancels : cancel[c].pc = "idle"

(* A record exists once its submission saved it, and until the terminal    *)
(* save only a cancel request can have settled it.                         *)
RecordPresent ==
  /\ \A s \in Scans :
       /\ pc[s] \in {"idle", "checked"} => row[s].status = "absent"
       /\ pc[s] \in {"report", "deregister", "clear"} => row[s].status # "absent"
       /\ pc[s] \in BeforeSave =>
            \/ row[s].status = "running"
            \/ row[s].status = "cancelled" /\ Cancels # {}
  /\ \A c \in Cancels :
       cancel[c].pc # "idle" => row[cancel[c].scan].status # "absent"

(* A running record is awaited by its runner, or a fault struck it. *)
RunningIsAwaited ==
  \A s \in Scans :
    row[s].status = "running" => pc[s] \in BeforeSave \/ s \in faulted

(* The slot of a user: a submission that passed the check holds it until   *)
(* its record is saved, then the running record does.  Two hold it only if *)
(* their submissions overlapped.                                           *)
HoldsSlot(s) == pc[s] = "checked" \/ row[s].status = "running"

SlotsOverlap ==
  \A s, t \in Scans :
    (s # t /\ Owner[s] = Owner[t] /\ HoldsSlot(s) /\ HoldsSlot(t))
      => {s, t} \in overlapped

(* A cancellation anywhere in a run traces back to a request. *)
CancellationTraced ==
  \A s \in Scans :
    /\ (pc[s] \in RunnerPC /\ ctx[s] = "cancelled") => s \in asked
    /\ (pc[s] = "save" /\ result[s] = "cancelled") => s \in asked
    /\ pc[s] = "ingest" => ctx[s] \in {"live", "cancelled"}

(* Completed records and reports belong to runs past their terminal save. *)
CompletedIsOver ==
  /\ \A s \in Scans : row[s].status = "completed" => pc[s] \in AfterSaving
  /\ \A s \in reports : pc[s] \in {"deregister", "clear", "done", "dead"}
  /\ \A s \in Scans :
       pc[s] = "report" =>
         \/ row[s].status = "completed"
         \/ row[s].status = "cancelled" /\ s \in asked
         \/ s \in faulted

IInv ==
  /\ TypeOK
  /\ ResultTyped
  /\ DownMeansIdle
  /\ RecordPresent
  /\ RunningIsAwaited
  /\ SlotsOverlap
  /\ RegistryTracksRunner
  /\ ProgressReleased
  /\ CancellationTraced
  /\ CancelledOnlyOnRequest
  /\ CompletedIsOver
  /\ CompletedRowHasAllSteps
  /\ ReportOnlyForCompletedRun

(* Every copy of a record, in the table or in a cancel request's hands,    *)
(* carries the price frozen at submission.                                 *)
PriceTraced ==
  /\ \A s \in Scans : row[s].status # "absent" => row[s].price = frozen[s]
  /\ \A c \in Cancels :
       cancel[c].pc # "idle" => cancel[c].copy.price = frozen[cancel[c].scan]

(* No copy of a record, and no live progress, is ahead of the loop; a copy *)
(* that says completed was taken after the loop's last step.               *)
StepsTraced ==
  /\ \A s \in Scans : row[s].steps <= steps[s] /\ progress[s] <= steps[s]
  /\ \A c \in Cancels :
       cancel[c].pc # "idle" => cancel[c].copy.steps <= steps[cancel[c].scan]
  /\ \A p \in Polls :
       poll[p].pc # "idle" =>
         /\ poll[p].copy.steps <= steps[poll[p].scan]
         /\ poll[p].copy.status = "completed" =>
              /\ pc[poll[p].scan] \in AfterSaving
              /\ poll[p].copy.steps = steps[poll[p].scan]

(* The whole inductive invariant: what row, registry, live progress, report *)
(* and poll may say of one another at every step of handlers and runners,   *)
(* with crashes and failed saves between them.                              *)
FullInv == IInv /\ PriceTraced /\ StepsTraced

-----------------------------------------------------------------------------
(* What comments of the code claim and its interleavings do not keep.  TLC *)
(* refutes each of them; the README says which have a run of their own.     *)

(* "Enforces one running scan per user" (async_scan.go:29): the check and  *)
(* the insert are two calls, and two submissions may pass between them.    *)
OneRunningScan ==
  \A s, t \in Scans :
    (Owner[s] = Owner[t] /\ row[s].status = "running" /\ row[t].status = "running")
      => s = t

(* "A scan starts running (async) and ends in one of the terminal states"  *)
(* (domain/scan.go:5-6): a terminal state is the end.                      *)
TerminalIsFinal ==
  [][\A s \in Scans :
       row[s].status \in Terminal => row'[s].status = row[s].status]_row

(* "Cancelling signals the background context; the runner writes the       *)
(* cancelled terminal state" (async_scan.go:170-171): a scan whose         *)
(* cancellation was acknowledged while it ran does not end completed.      *)
CancelledScanEndsCancelled ==
  \A s \in Scans :
    (s \in asked /\ pc[s] = "done") => row[s].status # "completed"

(* "A server restart mid-scan fails the scan anyway" (scan_progress.go:8-9),*)
(* "so users are not blocked by a phantom in-flight scan"                  *)
(* (bootstrap/app.go:120-121): a young interrupted scan stays running.     *)
NoPhantomAfterBoot ==
  [][(~ up /\ up') => \A s \in Scans : row'[s].status # "running"]_<<up, row>>

(* "Surface the live in-memory progress so a poll shows the steps run so   *)
(* far" (service.go:328-330): an answer saying "running" shows at least    *)
(* the steps that had run when the poll was received.                      *)
PollShowsStepsSoFar ==
  \A p \in Polls :
    (poll[p].pc = "answered" /\ poll[p].copy.status = "running")
      => poll[p].copy.steps >= poll[p].ran
=============================================================================
