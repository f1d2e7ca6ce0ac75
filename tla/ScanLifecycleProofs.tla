------------------------- MODULE ScanLifecycleProofs -------------------------
(***************************************************************************)
(* Proofs about ScanLifecycle for every set of scans, cancel requests and  *)
(* polls, every bound and every fault it allows.                           *)
(***************************************************************************)
EXTENDS ScanLifecycle, TLAPS

(* The sets the type invariant is made of. *)
LEMMA TypeOKInit == Init => TypeOK
<1>. SUFFICES ASSUME Init PROVE TypeOK
  OBVIOUS
<1>. USE ScanConstants DEF Init
<1>1. row \in [Scans -> Row]
  BY DEF Row, Status
<1>2. cancel \in [Cancels -> CancelState] /\ poll \in [Polls -> PollState]
  BY DEF CancelState, PollState
<1>3. pc \in [Scans -> PC]
  BY DEF PC
<1>. QED
  BY <1>1, <1>2, <1>3 DEF TypeOK

LEMMA TypeOKStep == TypeOK /\ ResultTyped /\ [Next]_vars => TypeOK'
<1>. SUFFICES ASSUME TypeOK, ResultTyped, [Next]_vars PROVE TypeOK'
  OBVIOUS
<1>. USE ScanConstants DEF TypeOK, PC, InFlight, HandlerPC, RunnerPC, Goto,
                           history, memory, runner, catalog
<1>1. ASSUME NEW s \in Scans, StartCheck(s) PROVE TypeOK'
  BY <1>1 DEF StartCheck
<1>2. ASSUME NEW s \in Scans, SaveRunning(s) PROVE TypeOK'
  BY <1>2 DEF SaveRunning, Save, Row, Status, Terminal
<1>3. ASSUME NEW s \in Scans, SaveRunningFails(s) PROVE TypeOK'
  BY <1>3 DEF SaveRunningFails
<1>4. ASSUME NEW s \in Scans, Launch(s) PROVE TypeOK'
  BY <1>4 DEF Launch
<1>5. ASSUME NEW s \in Scans, IngestCancelled(s) PROVE TypeOK'
  BY <1>5 DEF IngestCancelled, RunnerStep, Terminal
<1>6. ASSUME NEW s \in Scans, Ingest(s) PROVE TypeOK'
  BY <1>6 DEF Ingest, RunnerStep, Terminal
<1>7. ASSUME NEW s \in Scans, PreludeStep(s) PROVE TypeOK'
  BY <1>7 DEF PreludeStep, RunnerStep, RecordStep
<1>8. ASSUME NEW s \in Scans, PreludeEnd(s) PROVE TypeOK'
  BY <1>8 DEF PreludeEnd, RunnerStep
<1>9. ASSUME NEW s \in Scans, LoopExhausted(s) PROVE TypeOK'
  BY <1>9 DEF LoopExhausted, RunnerStep
<1>10. ASSUME NEW s \in Scans, LoopInterrupted(s) PROVE TypeOK'
  BY <1>10 DEF LoopInterrupted, RunnerStep
<1>11. ASSUME NEW s \in Scans, LoopTurn(s) PROVE TypeOK'
  BY <1>11 DEF LoopTurn, RunnerStep
<1>12. ASSUME NEW s \in Scans, TurnFails(s) PROVE TypeOK'
  BY <1>12 DEF TurnFails, RunnerStep
<1>13. ASSUME NEW s \in Scans, TurnExecutes(s) PROVE TypeOK'
  BY <1>13 DEF TurnExecutes, RunnerStep, RecordStep
<1>14. ASSUME NEW s \in Scans, TurnWasted(s) PROVE TypeOK'
  BY <1>14 DEF TurnWasted, RunnerStep
<1>15. ASSUME NEW s \in Scans, TurnFinal(s) PROVE TypeOK'
  BY <1>15 DEF TurnFinal, RunnerStep
<1>16. ASSUME NEW s \in Scans, Decide(s) PROVE TypeOK'
  <2>1. Outcome(result[s], ctx[s]) \in Terminal
    BY <1>16 DEF Decide, RunnerStep, ResultTyped, Outcome, Terminal
  <2>. QED
    BY <1>16, <2>1 DEF Decide, RunnerStep, Terminal
<1>17. ASSUME NEW s \in Scans, SaveTerminal(s) PROVE TypeOK'
  <2>1. TerminalRecord(s) \in Row
    BY <1>17 DEF SaveTerminal, ResultTyped, TerminalRecord, Row, Status, Terminal
  <2>. QED
    BY <1>17, <2>1 DEF SaveTerminal, Save, AfterSave
<1>18. ASSUME NEW s \in Scans, SaveTerminalFails(s) PROVE TypeOK'
  BY <1>18 DEF SaveTerminalFails, AfterSave
<1>19. ASSUME NEW s \in Scans, Report(s) PROVE TypeOK'
  BY <1>19 DEF Report
<1>20. ASSUME NEW s \in Scans, Deregister(s) PROVE TypeOK'
  BY <1>20 DEF Deregister, RunnerStep
<1>21. ASSUME NEW s \in Scans, ClearProgress(s) PROVE TypeOK'
  BY <1>21 DEF ClearProgress, RunnerStep
<1>22. ASSUME NEW s \in Scans, Expire(s) PROVE TypeOK'
  BY <1>22 DEF Expire
<1>23. ASSUME NEW s \in Scans, Age(s) PROVE TypeOK'
  BY <1>23 DEF Age
<1>24. ASSUME NEW c \in Cancels, NEW s \in Scans, CancelRead(c, s) PROVE TypeOK'
  <2>1. [pc |-> "lookup", scan |-> s, copy |-> row[s]] \in CancelState
    BY DEF CancelState
  <2>. QED
    BY <1>24, <2>1 DEF CancelRead
<1>25. ASSUME NEW c \in Cancels, CancelLookup(c) PROVE TypeOK'
  BY <1>25 DEF CancelLookup, CancelState, IdleCancel
<1>26. ASSUME NEW c \in Cancels, CancelSignal(c) PROVE TypeOK'
  BY <1>26 DEF CancelSignal, CancelState, IdleCancel
<1>27. ASSUME NEW c \in Cancels, CancelMark(c) PROVE TypeOK'
  <2>1. cancel[c].scan \in Scans /\ cancel[c].copy \in Row
    BY <1>27 DEF CancelMark, CancelState, IdleCancel
  <2>2. [cancel[c].copy EXCEPT !.status = "cancelled"] \in Row
    BY <2>1 DEF Row, Status, Terminal
  <2>3. IdleCancel \in CancelState
    BY DEF CancelState
  <2>. QED
    BY <1>27, <2>1, <2>2, <2>3 DEF CancelMark, Save
<1>28. ASSUME NEW c \in Cancels, CancelMarkFails(c) PROVE TypeOK'
  BY <1>28 DEF CancelMarkFails, CancelState
<1>29. ASSUME NEW p \in Polls, NEW s \in Scans, PollRead(p, s) PROVE TypeOK'
  BY <1>29 DEF PollRead, PollState
<1>30. ASSUME NEW p \in Polls, PollAnswer(p) PROVE TypeOK'
  <2>1. poll[p].scan \in Scans /\ poll[p].copy \in Row /\ poll[p].ran \in Nat
    BY <1>30 DEF PollAnswer, PollState, IdlePoll
  <2> DEFINE shown == WithProgress(poll[p].copy, progress[poll[p].scan])
  <2>2. shown \in Row
    BY <2>1 DEF Row, WithProgress
  <2>3. [pc |-> "answered", scan |-> poll[p].scan, copy |-> shown,
         ran |-> poll[p].ran] \in PollState
    BY <2>1, <2>2 DEF PollState
  <2>. QED
    BY <1>30, <2>3 DEF PollAnswer
<1>31. CASE EditPrice
  BY <1>31 DEF EditPrice
<1>32. CASE Crash
  <2>1. IdleCancel \in CancelState /\ IdlePoll \in PollState
    BY DEF CancelState, PollState
  <2>2. pc' \in [Scans -> PC]
    BY <1>32 DEF Crash
  <2>3. cancel' \in [Cancels -> CancelState] /\ poll' \in [Polls -> PollState]
    BY <1>32, <2>1 DEF Crash
  <2>4. crashes' \in Nat /\ registry' \subseteq Scans
    BY <1>32 DEF Crash
  <2>5. up' \in BOOLEAN
    BY <1>32, Zenon DEF Crash
  <2>6. progress' \in [Scans -> Nat]
    BY <1>32 DEF Crash
  <2>7. ctx' \in [Scans -> {"none", "live", "cancelled", "expired"}]
    BY <1>32 DEF Crash
  <2>8. faulted' \subseteq Scans
    BY <1>32 DEF Crash
  <2>9. UNCHANGED <<turns, steps, result, row, aged, reports, price, frozen, asked, overlapped>>
    BY <1>32 DEF Crash
  <2>. HIDE DEF PC
  <2>. QED
    BY <2>2, <2>3, <2>4, <2>5, <2>6, <2>7, <2>8, <2>9
<1>33. CASE Boot
  <2>1. ASSUME NEW s \in Scans PROVE [row[s] EXCEPT !.status = "failed"] \in Row
    BY DEF Row, Status, Terminal
  <2>. QED
    BY <1>33, <2>1 DEF Boot, FailStaleRunning
<1>34. CASE UNCHANGED vars
  BY <1>34 DEF vars
<1>. QED
  BY <1>1, <1>2, <1>3, <1>4, <1>5, <1>6, <1>7, <1>8, <1>9, <1>10, <1>11, <1>12,
     <1>13, <1>14, <1>15, <1>16, <1>17, <1>18, <1>19, <1>20, <1>21, <1>22, <1>23,
     <1>24, <1>25, <1>26, <1>27, <1>28, <1>29, <1>30, <1>31, <1>32, <1>33, <1>34
     DEF Next, Submission, Loop, Finish, CancelScan, GetScan, Environment

(* The rest of the inductive invariant. *)
LEMMA IInvStep == IInv /\ [Next]_vars => IInv'
<1>. SUFFICES ASSUME IInv, [Next]_vars PROVE IInv'
  OBVIOUS
<1>. DEFINE Rest == /\ ResultTyped /\ DownMeansIdle /\ RecordPresent
                    /\ RunningIsAwaited /\ SlotsOverlap
                    /\ RegistryTracksRunner /\ ProgressReleased
                    /\ CancellationTraced /\ CancelledOnlyOnRequest
                    /\ CompletedIsOver /\ CompletedRowHasAllSteps
                    /\ ReportOnlyForCompletedRun
<1>0. TypeOK'
  BY TypeOKStep DEF IInv
<1>. USE <1>0, ScanConstants DEF IInv, TypeOK, InFlight, HandlerPC, RunnerPC,
         BeforeSave, AfterSaving, Goto, history, memory, runner, catalog,
         ResultTyped, DownMeansIdle, RecordPresent, RunningIsAwaited, SlotsOverlap,
         HoldsSlot, RegistryTracksRunner, ProgressReleased, CancellationTraced,
         CancelledOnlyOnRequest, CompletedIsOver, CompletedRowHasAllSteps,
         ReportOnlyForCompletedRun, Terminal, Row
<1>1. ASSUME NEW s \in Scans, StartCheck(s) PROVE Rest'
  <2>1. UNCHANGED <<row, registry, progress, cancel, ctx, reports, asked, faulted,
                    result, steps, up>>
    BY <1>1 DEF StartCheck
  <2>2. pc' = [pc EXCEPT ![s] = "checked"] /\ pc[s] = "idle" /\ up
    BY <1>1 DEF StartCheck
  <2>3. /\ ResultTyped' /\ DownMeansIdle' /\ RecordPresent' /\ RunningIsAwaited'
        /\ RegistryTracksRunner' /\ ProgressReleased' /\ CancellationTraced'
        /\ CancelledOnlyOnRequest' /\ CompletedIsOver' /\ CompletedRowHasAllSteps'
        /\ ReportOnlyForCompletedRun'
    BY <2>1, <2>2
  <2>4. SlotsOverlap'
    <3>. SUFFICES ASSUME NEW t \in Scans, NEW u \in Scans, t # u, Owner[t] = Owner[u],
                         HoldsSlot(t)', HoldsSlot(u)'
                  PROVE  {t, u} \in overlapped'
      BY DEF SlotsOverlap
    <3>1. /\ overlapped \subseteq overlapped'
          /\ \A o \in Scans : Owner[o] = Owner[s] /\ pc[o] = "checked"
                             => {s, o} \in overlapped'
      BY <1>1 DEF StartCheck
    <3>2. \A o \in Scans : Owner[o] = Owner[s] => row[o].status # "running"
      BY <1>1 DEF StartCheck, RunningRow
    <3>3. CASE t # s /\ u # s
      BY <2>1, <2>2, <3>1, <3>3 DEF SlotsOverlap, HoldsSlot
    <3>4. CASE t = s
      BY <2>1, <2>2, <3>1, <3>2, <3>4 DEF HoldsSlot
    <3>5. CASE u = s
      <4>1. {s, t} \in overlapped'
        BY <2>1, <2>2, <3>1, <3>2, <3>5 DEF HoldsSlot
      <4>2. {t, u} = {s, t}
        BY <3>5
      <4>. QED
        BY <4>1, <4>2, Zenon
    <3>. QED
      BY <3>3, <3>4, <3>5
  <2>. QED
    BY <2>3, <2>4
<1>2. ASSUME NEW s \in Scans, SaveRunning(s) PROVE Rest'
  BY <1>2 DEF SaveRunning, Save
<1>3. ASSUME NEW s \in Scans, SaveRunningFails(s) PROVE Rest'
  BY <1>3 DEF SaveRunningFails
<1>4. ASSUME NEW s \in Scans, Launch(s) PROVE Rest'
  BY <1>4 DEF Launch
<1>5. ASSUME NEW s \in Scans, IngestCancelled(s) PROVE Rest'
  BY <1>5 DEF IngestCancelled, RunnerStep
<1>6. ASSUME NEW s \in Scans, Ingest(s) PROVE Rest'
  <2>1. CASE RunnerStep(s, "ingest", "save") /\ result' = [result EXCEPT ![s] = "failed"]
    BY <1>6, <2>1 DEF Ingest, RunnerStep
  <2>2. CASE RunnerStep(s, "ingest", "prelude") /\ UNCHANGED result
    BY <1>6, <2>2 DEF Ingest, RunnerStep
  <2>. QED
    BY <1>6, <2>1, <2>2 DEF Ingest
<1>7. ASSUME NEW s \in Scans, PreludeStep(s) PROVE Rest'
  BY <1>7 DEF PreludeStep, RunnerStep, RecordStep
<1>8. ASSUME NEW s \in Scans, PreludeEnd(s) PROVE Rest'
  BY <1>8 DEF PreludeEnd, RunnerStep
<1>9. ASSUME NEW s \in Scans, LoopExhausted(s) PROVE Rest'
  BY <1>9 DEF LoopExhausted, RunnerStep
<1>10. ASSUME NEW s \in Scans, LoopInterrupted(s) PROVE Rest'
  BY <1>10 DEF LoopInterrupted, RunnerStep
<1>11. ASSUME NEW s \in Scans, LoopTurn(s) PROVE Rest'
  BY <1>11 DEF LoopTurn, RunnerStep
<1>12. ASSUME NEW s \in Scans, TurnFails(s) PROVE Rest'
  BY <1>12 DEF TurnFails, RunnerStep
<1>13. ASSUME NEW s \in Scans, TurnExecutes(s) PROVE Rest'
  BY <1>13 DEF TurnExecutes, RunnerStep, RecordStep
<1>14. ASSUME NEW s \in Scans, TurnWasted(s) PROVE Rest'
  BY <1>14 DEF TurnWasted, RunnerStep
<1>15. ASSUME NEW s \in Scans, TurnFinal(s) PROVE Rest'
  BY <1>15 DEF TurnFinal, RunnerStep
<1>16. ASSUME NEW s \in Scans, Decide(s) PROVE Rest'
  BY <1>16 DEF Decide, RunnerStep, Outcome
<1>17. ASSUME NEW s \in Scans, SaveTerminal(s) PROVE Rest'
  BY <1>17 DEF SaveTerminal, Save, TerminalRecord, AfterSave
<1>18. ASSUME NEW s \in Scans, SaveTerminalFails(s) PROVE Rest'
  BY <1>18 DEF SaveTerminalFails, AfterSave
<1>19. ASSUME NEW s \in Scans, Report(s) PROVE Rest'
  BY <1>19 DEF Report
<1>20. ASSUME NEW s \in Scans, Deregister(s) PROVE Rest'
  BY <1>20 DEF Deregister, RunnerStep
<1>21. ASSUME NEW s \in Scans, ClearProgress(s) PROVE Rest'
  BY <1>21 DEF ClearProgress, RunnerStep
<1>22. ASSUME NEW s \in Scans, Expire(s) PROVE Rest'
  BY <1>22 DEF Expire
<1>23. ASSUME NEW s \in Scans, Age(s) PROVE Rest'
  BY <1>23 DEF Age
<1>24. ASSUME NEW c \in Cancels, NEW s \in Scans, CancelRead(c, s) PROVE Rest'
  BY <1>24 DEF CancelRead, CancelState
<1>25. ASSUME NEW c \in Cancels, CancelLookup(c) PROVE Rest'
  BY <1>25 DEF CancelLookup, CancelState, IdleCancel
<1>26. ASSUME NEW c \in Cancels, CancelSignal(c) PROVE Rest'
  BY <1>26 DEF CancelSignal, CancelState, IdleCancel
<1>27. ASSUME NEW c \in Cancels, CancelMark(c) PROVE Rest'
  BY <1>27 DEF CancelMark, CancelState, IdleCancel, Save
<1>28. ASSUME NEW c \in Cancels, CancelMarkFails(c) PROVE Rest'
  BY <1>28 DEF CancelMarkFails, IdleCancel
<1>29. ASSUME NEW p \in Polls, NEW s \in Scans, PollRead(p, s) PROVE Rest'
  BY <1>29 DEF PollRead
<1>30. ASSUME NEW p \in Polls, PollAnswer(p) PROVE Rest'
  BY <1>30 DEF PollAnswer
<1>31. ASSUME EditPrice PROVE Rest'
  BY <1>31 DEF EditPrice
<1>32. ASSUME Crash PROVE Rest'
  BY <1>32 DEF Crash, IdleCancel
<1>33. ASSUME Boot PROVE Rest'
  <2>1. CASE FailStaleRunning
    <3>1. UNCHANGED <<runner, memory, reports, cancel, history>>
      BY <1>33 DEF Boot
    <3>2. ASSUME NEW s \in Scans
          PROVE  /\ row'[s].steps = row[s].steps
                 /\ row'[s].status \in {row[s].status, "failed"}
                 /\ row[s].status # "running" => row'[s] = row[s]
      BY <2>1 DEF FailStaleRunning
    <3>3. /\ \A s \in Scans : pc[s] \notin InFlight
          /\ \A c \in Cancels : cancel[c].pc = "idle"
      BY <1>33 DEF Boot
    <3>4. DownMeansIdle' /\ ResultTyped' /\ RegistryTracksRunner'
          /\ ProgressReleased' /\ CancellationTraced'
      BY <3>1, <3>3
    <3>5. RecordPresent' /\ RunningIsAwaited'
      BY <3>1, <3>2, <3>3
    <3>6. SlotsOverlap'
      <4>1. ASSUME NEW s \in Scans, HoldsSlot(s)' PROVE HoldsSlot(s)
        BY <3>1, <3>2, <4>1
      <4>2. overlapped' = overlapped
        BY <3>1
      <4>. HIDE DEF HoldsSlot
      <4>. QED
        BY <4>1, <4>2 DEF SlotsOverlap
    <3>7. CancelledOnlyOnRequest' /\ CompletedIsOver'
          /\ CompletedRowHasAllSteps' /\ ReportOnlyForCompletedRun'
      BY <3>1, <3>2, <3>3
    <3>. QED
      BY <3>4, <3>5, <3>6, <3>7
  <2>2. CASE UNCHANGED row
    BY <1>33, <2>2 DEF Boot
  <2>. QED
    BY <1>33, <2>1, <2>2 DEF Boot
<1>34. ASSUME UNCHANGED vars PROVE Rest'
  BY <1>34 DEF vars
<1>. QED
  BY <1>1, <1>2, <1>3, <1>4, <1>5, <1>6, <1>7, <1>8, <1>9, <1>10, <1>11, <1>12, <1>13, <1>14, <1>15, <1>16, <1>17, <1>18, <1>19, <1>20, <1>21, <1>22, <1>23, <1>24, <1>25, <1>26, <1>27, <1>28, <1>29, <1>30, <1>31, <1>32, <1>33, <1>34
     DEF Next, Submission, Loop, Finish, CancelScan, GetScan, Environment

(* Only four actions write the scan table. *)
LEMMA TableWriters ==
  ASSUME [Next]_vars
  PROVE  \/ UNCHANGED row
         \/ \E s \in Scans : SaveRunning(s) \/ SaveTerminal(s)
         \/ \E c \in Cancels : CancelMark(c)
         \/ Boot
<1>1. ASSUME NEW s \in Scans, Loop(s) PROVE UNCHANGED row
  BY <1>1 DEF Loop, IngestCancelled, Ingest, PreludeStep, PreludeEnd,
     LoopExhausted, LoopInterrupted, LoopTurn, TurnFails, TurnExecutes,
     TurnWasted, TurnFinal, RunnerStep
<1>2. ASSUME NEW s \in Scans, Submission(s) PROVE UNCHANGED row \/ SaveRunning(s)
  BY <1>2 DEF Submission, StartCheck, SaveRunningFails, Launch
<1>3. ASSUME NEW s \in Scans, Finish(s) PROVE UNCHANGED row \/ SaveTerminal(s)
  BY <1>3 DEF Finish, Decide, SaveTerminalFails, Report, Deregister,
     ClearProgress, RunnerStep
<1>4. ASSUME NEW c \in Cancels, CancelScan(c) PROVE UNCHANGED row \/ CancelMark(c)
  BY <1>4 DEF CancelScan, CancelRead, CancelLookup, CancelSignal, CancelMarkFails
<1>5. ASSUME NEW p \in Polls, GetScan(p) PROVE UNCHANGED row
  BY <1>5 DEF GetScan, PollRead, PollAnswer
<1>6. ASSUME Environment PROVE UNCHANGED row \/ Boot
  BY <1>6 DEF Environment, EditPrice, Crash, Age, Expire
<1>7. ASSUME UNCHANGED vars PROVE UNCHANGED row
  BY <1>7 DEF vars
<1>. QED
  BY <1>1, <1>2, <1>3, <1>4, <1>5, <1>6, <1>7 DEF Next

(* No step disturbs the price carried by a record or by a cancel request. *)
LEMMA PriceStep ==
  ASSUME IInv, PriceTraced, [Next]_vars
  PROVE  /\ PriceTraced'
         /\ \A s \in Scans :
              row[s].status # "absent" => row'[s].price = row[s].price
<1>. DEFINE Stays == \A s \in Scans :
                       row[s].status # "absent" => row'[s].price = row[s].price
<1>. USE ScanConstants DEF IInv, TypeOK, PriceTraced
<1>1. ASSUME UNCHANGED <<row, frozen, cancel>> PROVE PriceTraced' /\ Stays
  BY <1>1
<1>2. ASSUME NEW s \in Scans, StartCheck(s) PROVE PriceTraced' /\ Stays
  BY <1>2 DEF StartCheck, RecordPresent, CancelState
<1>3. ASSUME NEW s \in Scans, SaveRunning(s) PROVE PriceTraced' /\ Stays
  BY <1>3 DEF SaveRunning, Save, RecordPresent, catalog
<1>4. ASSUME NEW s \in Scans, SaveTerminal(s) PROVE PriceTraced' /\ Stays
  BY <1>4 DEF SaveTerminal, TerminalRecord, Save, catalog
<1>5. ASSUME NEW c \in Cancels, NEW s \in Scans, CancelRead(c, s)
      PROVE  PriceTraced' /\ Stays
  BY <1>5 DEF CancelRead, catalog
<1>6. ASSUME NEW c \in Cancels, CancelLookup(c) PROVE PriceTraced' /\ Stays
  BY <1>6 DEF CancelLookup, CancelState, IdleCancel, catalog
<1>7. ASSUME NEW c \in Cancels, CancelSignal(c) PROVE PriceTraced' /\ Stays
  BY <1>7 DEF CancelSignal, IdleCancel, catalog
<1>8. ASSUME NEW c \in Cancels, CancelMark(c) PROVE PriceTraced' /\ Stays
  <2>1. cancel[c].scan \in Scans /\ cancel[c].copy \in Row
    BY <1>8 DEF CancelMark, CancelState, IdleCancel
  <2>. DEFINE marked == [cancel[c].copy EXCEPT !.status = "cancelled"]
  <2>2. marked.price = frozen[cancel[c].scan]
    BY <1>8, <2>1 DEF CancelMark, Row
  <2>3. row' = [row EXCEPT ![cancel[c].scan] = marked]
    BY <1>8 DEF CancelMark, Save
  <2>4. UNCHANGED frozen /\ cancel' = [cancel EXCEPT ![c] = IdleCancel]
    BY <1>8 DEF CancelMark, catalog
  <2>. HIDE DEF marked
  <2>. QED
    BY <2>1, <2>2, <2>3, <2>4 DEF IdleCancel
<1>9. ASSUME NEW c \in Cancels, CancelMarkFails(c) PROVE PriceTraced' /\ Stays
  BY <1>9 DEF CancelMarkFails, IdleCancel, catalog
<1>10. ASSUME Crash PROVE PriceTraced' /\ Stays
  BY <1>10 DEF Crash, IdleCancel, catalog
<1>11. ASSUME Boot PROVE PriceTraced' /\ Stays
  <2>1. \A s \in Scans : row'[s].price = row[s].price
                         /\ (row[s].status = "absent" => row'[s] = row[s])
    BY <1>11 DEF Boot, FailStaleRunning, Row
  <2>. QED
    BY <1>11, <2>1 DEF Boot, catalog
<1>12. ASSUME NEW s \in Scans, Submission(s) PROVE PriceTraced' /\ Stays
  BY <1>1, <1>2, <1>3, <1>12 DEF Submission, SaveRunningFails, Launch, catalog
<1>13. ASSUME NEW s \in Scans, Loop(s) PROVE PriceTraced' /\ Stays
  BY <1>1, <1>13 DEF Loop, IngestCancelled, Ingest, PreludeStep, PreludeEnd,
     LoopExhausted, LoopInterrupted, LoopTurn, TurnFails, TurnExecutes,
     TurnWasted, TurnFinal, RunnerStep, catalog
<1>14. ASSUME NEW s \in Scans, Finish(s) PROVE PriceTraced' /\ Stays
  BY <1>1, <1>4, <1>14 DEF Finish, Decide, SaveTerminalFails, Report,
     Deregister, ClearProgress, RunnerStep, catalog
<1>15. ASSUME NEW p \in Polls, GetScan(p) PROVE PriceTraced' /\ Stays
  BY <1>1, <1>15 DEF GetScan, PollRead, PollAnswer, catalog
<1>16. ASSUME Environment PROVE PriceTraced' /\ Stays
  BY <1>1, <1>10, <1>11, <1>16 DEF Environment, EditPrice, Age, Expire, catalog
<1>17. ASSUME UNCHANGED vars PROVE PriceTraced' /\ Stays
  BY <1>1, <1>17 DEF vars, catalog
<1>. QED
  BY <1>5, <1>6, <1>7, <1>8, <1>9, <1>12, <1>13, <1>14, <1>15, <1>16, <1>17
     DEF Next, CancelScan

(* No step lets a copy of a record run ahead of the loop it describes. *)
LEMMA StepsStep ==
  ASSUME IInv, StepsTraced, [Next]_vars
  PROVE  StepsTraced'
<1>. USE ScanConstants DEF IInv, TypeOK, StepsTraced
<1>1. ASSUME UNCHANGED <<row, steps, progress, cancel, poll>>,
             \A s \in Scans : pc[s] \in AfterSaving => pc'[s] \in AfterSaving
      PROVE  StepsTraced'
  BY <1>1 DEF PollState, IdlePoll
<1>. USE DEF PollState, IdlePoll, CancelState, IdleCancel, AfterSaving, Row
<1>2. ASSUME NEW s \in Scans, Submission(s) PROVE StepsTraced'
  <2>1. CASE SaveRunning(s)
    BY <2>1 DEF SaveRunning, Save, Goto, memory
  <2>2. CASE StartCheck(s) \/ SaveRunningFails(s) \/ Launch(s)
    <3>1. UNCHANGED <<row, steps, progress, cancel, poll>>
          /\ pc[s] \notin AfterSaving /\ \E l \in PC : pc' = [pc EXCEPT ![s] = l]
      BY <2>2 DEF StartCheck, SaveRunningFails, Launch, Goto, memory, PC,
         InFlight, HandlerPC, RunnerPC
    <3>. QED
      BY <1>1, <3>1
  <2>. QED
    BY <1>2, <2>1, <2>2 DEF Submission
<1>3. ASSUME NEW s \in Scans, Loop(s) PROVE StepsTraced'
  <2>1. CASE PreludeStep(s) \/ TurnExecutes(s)
    <3>1. /\ pc[s] \notin AfterSaving
          /\ UNCHANGED <<row, cancel, poll>>
          /\ steps' = [steps EXCEPT ![s] = @ + 1]
          /\ progress' = [progress EXCEPT ![s] = @ + 1]
          /\ \A r \in Scans : r # s => pc'[r] = pc[r]
      BY <2>1 DEF PreludeStep, TurnExecutes, RecordStep, RunnerStep, Goto
    <3>2. \A p \in Polls :
            poll[p].pc # "idle" /\ poll[p].copy.status = "completed"
              => poll[p].scan # s
      BY <3>1
    <3>3. \A r \in Scans : steps[r] <= steps'[r] /\ (r # s => steps'[r] = steps[r])
                           /\ progress'[r] <= steps'[r] /\ row[r].steps <= steps'[r]
      BY <3>1
    <3>4. \A c \in Cancels : cancel[c].pc # "idle" =>
            cancel[c].scan \in Scans /\ cancel[c].copy.steps \in Nat
      OBVIOUS
    <3>5. \A p \in Polls : poll[p].pc # "idle" =>
            poll[p].scan \in Scans /\ poll[p].copy.steps \in Nat
      OBVIOUS
    <3>6. \A r \in Scans : steps[r] \in Nat /\ steps'[r] \in Nat
      BY <3>1
    <3>. QED
      BY <3>1, <3>2, <3>3, <3>4, <3>5, <3>6
  <2>2. CASE ~ (PreludeStep(s) \/ TurnExecutes(s))
    <3>1. UNCHANGED <<row, steps, progress, cancel, poll>>
          /\ pc[s] \notin AfterSaving /\ \E l \in PC : pc' = [pc EXCEPT ![s] = l]
      BY <1>3, <2>2 DEF Loop, IngestCancelled, Ingest, PreludeEnd, LoopExhausted,
         LoopInterrupted, LoopTurn, TurnFails, TurnWasted, TurnFinal, RunnerStep,
         Goto, memory, PC, InFlight, HandlerPC, RunnerPC
    <3>. QED
      BY <1>1, <3>1
  <2>. QED
    BY <2>1, <2>2
<1>4. ASSUME NEW s \in Scans, Finish(s) PROVE StepsTraced'
  <2>1. CASE SaveTerminal(s)
    BY <2>1 DEF SaveTerminal, Save, TerminalRecord, AfterSave, Goto, memory
  <2>2. CASE ClearProgress(s)
    BY <2>2 DEF ClearProgress, RunnerStep, Goto
  <2>3. CASE ~ (SaveTerminal(s) \/ ClearProgress(s))
    <3>1. /\ UNCHANGED <<row, steps, progress, cancel, poll>>
          /\ pc[s] \in AfterSaving => pc'[s] \in AfterSaving
          /\ \A r \in Scans : r # s => pc'[r] = pc[r]
      <4>1. CASE Decide(s)
        BY <4>1 DEF Decide, RunnerStep, Goto, memory
      <4>2. CASE SaveTerminalFails(s)
        BY <4>2 DEF SaveTerminalFails, Goto, memory
      <4>3. CASE Report(s)
        BY <4>3 DEF Report, Goto, memory
      <4>4. CASE Deregister(s)
        BY <4>4 DEF Deregister, RunnerStep, Goto
      <4>. QED
        BY <1>4, <2>3, <4>1, <4>2, <4>3, <4>4 DEF Finish
    <3>2. \A r \in Scans : pc[r] \in AfterSaving => pc'[r] \in AfterSaving
      BY <3>1
    <3>. QED
      BY <1>1, <3>1, <3>2
  <2>. QED
    BY <2>1, <2>2, <2>3
<1>5. ASSUME NEW c \in Cancels, CancelScan(c) PROVE StepsTraced'
  <2>1. ASSUME NEW s \in Scans, CancelRead(c, s) PROVE StepsTraced'
    BY <2>1 DEF CancelRead, runner, memory
  <2>2. CASE CancelLookup(c)
    BY <2>2 DEF CancelLookup, runner, memory
  <2>3. CASE CancelSignal(c)
    BY <2>3 DEF CancelSignal, runner
  <2>4. CASE CancelMark(c)
    BY <2>4 DEF CancelMark, Save, runner, memory
  <2>5. CASE CancelMarkFails(c)
    BY <2>5 DEF CancelMarkFails, runner, memory
  <2>. QED
    BY <1>5, <2>1, <2>2, <2>3, <2>4, <2>5 DEF CancelScan
<1>6. ASSUME NEW p \in Polls, GetScan(p) PROVE StepsTraced'
  <2>1. ASSUME NEW s \in Scans, PollRead(p, s) PROVE StepsTraced'
    BY <2>1 DEF PollRead, runner, memory, CompletedIsOver, CompletedRowHasAllSteps
  <2>2. CASE PollAnswer(p)
    <3>. DEFINE q == poll[p]
                shown == WithProgress(q.copy, progress[q.scan])
    <3>1. q.pc = "read" /\ q.scan \in Scans /\ q.copy \in Row
      BY <2>2 DEF PollAnswer
    <3>2. /\ shown.steps <= steps[q.scan]
          /\ shown.status = q.copy.status
          /\ shown.status # "running" => shown = q.copy
      BY <3>1 DEF WithProgress
    <3>3. UNCHANGED <<row, steps, progress, cancel, pc>>
      BY <2>2 DEF PollAnswer, runner, memory
    <3>4. poll' = [poll EXCEPT ![p] = [pc |-> "answered", scan |-> q.scan,
                                       copy |-> shown, ran |-> q.ran]]
      BY <2>2 DEF PollAnswer
    <3>. HIDE DEF shown
    <3>. QED
      BY <3>1, <3>2, <3>3, <3>4
  <2>. QED
    BY <1>6, <2>1, <2>2 DEF GetScan
<1>7. ASSUME Environment PROVE StepsTraced'
  <2>1. CASE Crash
    BY <2>1 DEF Crash
  <2>2. CASE Boot
    <3>1. \A s \in Scans : row'[s].steps = row[s].steps
      BY <2>2 DEF Boot, FailStaleRunning
    <3>2. UNCHANGED <<steps, progress, cancel, poll, pc>>
      BY <2>2 DEF Boot, runner, memory
    <3>. QED
      BY <3>1, <3>2
  <2>3. CASE ~ (Crash \/ Boot)
    BY <1>1, <1>7, <2>3 DEF Environment, EditPrice, Age, Expire, runner, memory
  <2>. QED
    BY <2>1, <2>2, <2>3
<1>8. CASE UNCHANGED vars
  BY <1>1, <1>8 DEF vars, runner, memory
<1>. QED
  BY <1>2, <1>3, <1>4, <1>5, <1>6, <1>7, <1>8 DEF Next

LEMMA FullInvInit == Init => FullInv
<1>. SUFFICES ASSUME Init PROVE FullInv
  OBVIOUS
<1>1. TypeOK
  BY TypeOKInit
<1>2. IInv
  BY <1>1 DEF Init, IInv, ResultTyped, DownMeansIdle, RecordPresent,
     RunningIsAwaited, SlotsOverlap, HoldsSlot, RegistryTracksRunner,
     ProgressReleased, CancellationTraced, CancelledOnlyOnRequest,
     CompletedIsOver, CompletedRowHasAllSteps, ReportOnlyForCompletedRun,
     IdleCancel, BeforeSave, RunnerPC
<1>3. PriceTraced /\ StepsTraced
  BY DEF Init, PriceTraced, StepsTraced, IdleCancel, IdlePoll
<1>. QED
  BY <1>2, <1>3 DEF FullInv

LEMMA FullInvStep == FullInv /\ [Next]_vars => FullInv'
  BY IInvStep, PriceStep, StepsStep DEF FullInv

-----------------------------------------------------------------------------

(* The inductive invariant holds in every reachable state. *)
THEOREM Invariant == Spec => []FullInv
  BY FullInvInit, FullInvStep, PTL DEF Spec

(* Whatever the handlers, runners, cancellations, polls and crashes do,    *)
(* every variable keeps a value the code can give it.                      *)
THEOREM TypeCorrect == Spec => []TypeOK
<1>1. FullInv => TypeOK
  BY DEF FullInv, IInv
<1>. QED
  BY <1>1, Invariant, PTL

(* Two records of one user run only if their submissions overlapped between *)
(* the check and the insert, whatever is cancelled, fails or crashes.       *)
THEOREM OverlapAloneSharesTheSlot == Spec => []TwoRunningOnlyByOverlap
<1>1. FullInv => TwoRunningOnlyByOverlap
  BY DEF FullInv, IInv, SlotsOverlap, HoldsSlot, TwoRunningOnlyByOverlap
<1>. QED
  BY <1>1, Invariant, PTL

(* A running record without a runner is the trace of a failed terminal     *)
(* save or of a crash.                                                     *)
THEOREM PhantomsComeFromFaults == Spec => []PhantomOnlyAfterFault
<1>1. FullInv => PhantomOnlyAfterFault
  BY DEF FullInv, IInv, RunningIsAwaited, PhantomOnlyAfterFault, BeforeSave,
     InFlight, HandlerPC, RunnerPC
<1>. QED
  BY <1>1, Invariant, PTL

(* The cancel registry holds exactly the scans whose goroutine may write. *)
THEOREM RegistryIsExact == Spec => []RegistryTracksRunner
<1>1. FullInv => RegistryTracksRunner
  BY DEF FullInv, IInv
<1>. QED
  BY <1>1, Invariant, PTL

(* The progress map keeps nothing of a scan whose goroutine is gone. *)
THEOREM ProgressIsReleased == Spec => []ProgressReleased
<1>1. FullInv => ProgressReleased
  BY DEF FullInv, IInv
<1>. QED
  BY <1>1, Invariant, PTL

(* No deadline, provider error or release of a context ever reads as a     *)
(* cancellation nobody asked for.                                          *)
THEOREM CancelledWasRequested == Spec => []CancelledOnlyOnRequest
<1>1. FullInv => CancelledOnlyOnRequest
  BY DEF FullInv, IInv
<1>. QED
  BY <1>1, Invariant, PTL

(* A completed record is whole, whatever was written over it and back. *)
THEOREM CompletedIsWhole == Spec => []CompletedRowHasAllSteps
<1>1. FullInv => CompletedRowHasAllSteps
  BY DEF FullInv, IInv
<1>. QED
  BY <1>1, Invariant, PTL

(* Reports are made only of runs that completed. *)
THEOREM ReportsAreOfCompletedRuns == Spec => []ReportOnlyForCompletedRun
<1>1. FullInv => ReportOnlyForCompletedRun
  BY DEF FullInv, IInv
<1>. QED
  BY <1>1, Invariant, PTL

(* A poll that combines a row and the live progress of two moments still   *)
(* shows no step that has not run, and a completed scan with all of them.  *)
THEOREM PollsAnswerTheRun == Spec => []PollAnswersTheRun
<1>1. FullInv => PollAnswersTheRun
  BY DEF FullInv, StepsTraced, PollAnswersTheRun
<1>. QED
  BY <1>1, Invariant, PTL

(* The price on a record never changes, whoever rewrites the record. *)
THEOREM PriceIsFrozen == Spec => PriceFrozen
<1>1. FullInv /\ [Next]_vars =>
        [\A s \in Scans :
           row[s].status # "absent" => row'[s].price = row[s].price]_row
  BY PriceStep DEF FullInv
<1>. QED
  BY <1>1, Invariant, PTL DEF Spec, PriceFrozen

-----------------------------------------------------------------------------
(* The scan table implements ScanRecord.                                   *)

LEMMA RecordInit == Init => Record!Init
  BY DEF Init, Record!Init

LEMMA RecordRefined ==
  ASSUME FullInv, [Next]_vars
  PROVE  [Record!Next]_([s \in Scans |-> row[s].status])
<1>. DEFINE status == [s \in Scans |-> row[s].status]
<1>. USE DEF FullInv, IInv, TypeOK, RecordPresent
<1>1. ASSUME UNCHANGED row PROVE [Record!Next]_status
  BY <1>1
<1>2. ASSUME NEW s \in Scans, SaveRunning(s) PROVE Record!Submit(s)
  BY <1>2 DEF SaveRunning, Save, Record!Submit
<1>3. ASSUME NEW s \in Scans, SaveTerminal(s) PROVE Record!Settle(s)
  <2>1. result[s] \in Record!Settled
    BY <1>3 DEF SaveTerminal, ResultTyped, Terminal, Record!Settled
  <2>2. \/ status[s] = "running"
        \/ Cancels # {} /\ status[s] \in Record!Settled
    BY <1>3 DEF SaveTerminal, BeforeSave, Record!Settled
  <2>3. status' = [status EXCEPT ![s] = result[s]]
    BY <1>3 DEF SaveTerminal, Save, TerminalRecord
  <2>. QED
    BY <2>1, <2>2, <2>3 DEF Record!Settle
<1>4. ASSUME NEW c \in Cancels, CancelMark(c) PROVE \E s \in Scans : Record!Settle(s)
  <2>1. PICK s \in Scans : s = cancel[c].scan
    BY <1>4 DEF CancelMark, CancelState, IdleCancel
  <2>2. cancel[c].copy \in Row
    BY <1>4 DEF CancelMark, CancelState, IdleCancel
  <2>3. row[s].status \in {"running"} \cup Record!Settled
    BY <1>4, <2>1 DEF CancelMark, Row, Status, Terminal, Record!Settled
  <2>4. status' = [status EXCEPT ![s] = "cancelled"]
    BY <1>4, <2>1, <2>2 DEF CancelMark, Save, Row
  <2>5. Record!Settle(s)
    BY <1>4, <2>3, <2>4 DEF Record!Settle, Record!Settled
  <2>. QED
    BY <2>5
<1>5. ASSUME Boot PROVE [Record!Next]_status
  <2>1. CASE FailStaleRunning
    <3>. DEFINE S == {s \in Scans : row[s].status = "running" /\ s \in aged}
    <3>1. PICK T \in SUBSET Scans : T = S
      OBVIOUS
    <3>2. \A s \in T : status[s] = "running"
      BY <3>1
    <3>3. status' = [s \in Scans |-> IF s \in T THEN "failed" ELSE status[s]]
      BY <2>1, <3>1 DEF FailStaleRunning, Row
    <3>4. Record!FailAll(T)
      BY <3>2, <3>3 DEF Record!FailAll
    <3>5. Record!Next
      BY <3>4, Zenon DEF Record!Next
    <3>. QED
      BY <3>5
  <2>2. CASE UNCHANGED row
    BY <1>1, <2>2
  <2>. QED
    BY <1>5, <2>1, <2>2 DEF Boot
<1>6. ASSUME NEW s \in Scans, Record!Submit(s) \/ Record!Settle(s)
      PROVE  Record!Next
  BY <1>6, Zenon DEF Record!Next
<1>7. ASSUME NEW s \in Scans, SaveRunning(s) \/ SaveTerminal(s)
      PROVE  Record!Next
  BY <1>2, <1>3, <1>6, <1>7, Zenon
<1>8. ASSUME NEW c \in Cancels, CancelMark(c) PROVE Record!Next
  BY <1>4, <1>6, <1>8, Zenon
<1>. HIDE DEF status
<1>. QED
  BY TableWriters, <1>1, <1>5, <1>7, <1>8, Zenon DEF status

(* The lifecycle, with every interleaving and fault, keeps the promise of  *)
(* ScanRecord: no record disappears or runs again, and without cancel      *)
(* requests a settled record is final.                                     *)
THEOREM ImplementsRecord == Spec => RecordSpec
<1>1. FullInv /\ [Next]_vars => [Record!Next]_([s \in Scans |-> row[s].status])
  BY RecordRefined
<1>. QED
  BY <1>1, RecordInit, Invariant, PTL DEF Spec, RecordSpec, Record!Spec
=============================================================================
