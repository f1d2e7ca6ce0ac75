# Verification of apant-be

apant-be is the server of a penetration-testing assistant: it accepts a target
(or an archive of source code), runs a language-model agent over a fixed set of
scanning tools, keeps the record of each scan and turns it into a report.  This
directory models the parts of it whose correctness depends on order, failure
and concurrency, checks them with TLC on small instances, and proves with TLAPS
what holds for every instance.  Paths below are relative to the repository;
`pentest/` is `internal/application/pentest/`.

## The system

| component | state it keeps | operations | hard about it |
|---|---|---|---|
| scan lifecycle (`pentest/async_scan.go`, `static_service.go`, `scan_progress.go`) | a row per scan in the database; in memory a cancel func and the live steps per running scan; a goroutine per scan | start (dynamic, static), cancel, poll, the two runners, recovery at boot | handlers and runners write the same row with no transaction between read and write; cancellation, deadline and failure race; a crash loses the memory and keeps the rows |
| dynamic loop (`pentest/agent_loop.go`, `dynamic_coverage.go`) | steps, turns, repeat set, coverage tracker, budgets, session | preludes, one turn per answer of the model, final synthesis | the model may answer anything; four budgets bound the loop together |
| static loop (`pentest/static_loop.go`) | steps, locations found, regions read, budgets | detectors, discovery greps, triage turns, synthesis | as above, and the tracker must agree with the tool about what a region is |
| accounts and sessions (`internal/application/auth`, user repositories) | users, refresh tokens (hashed, with expiry and revocation) | register, login, refresh, logout, profile, password | rotation and revocation are separate statements: concurrent requests with one token |
| user administration (`internal/application/user`) | users and roles | create, change role, delete, reset password | the guard of the last administrator reads before it writes |
| model catalogue and gateway (`internal/application/llm`, `internal/infrastructure/ai/db_gateway.go`) | providers, models, prices, one selection per user, a cache of adapters | edit, select, resolve, generate | an edit reads and writes apart; the cache must follow the edits; a selection may outlive its model |
| retry of model calls (`internal/infrastructure/ai/retry.go`, `timeout.go`) | attempt and delay of one call | attempt, wait, give up | back-off, a server's Retry-After and the caller's cancellation |
| login prelude (`pentest/auth_form.go`, `auth.go`) | the cookies and the grade of one scan's session | discover the form, submit, verify, guess, recover in mid-scan | the target decides every page; success is judged from a later request |
| archive ingestion (`pentest/static_ingest.go`) | a temporary archive and a workspace | extract within limits, clean up | limits at their boundary |
| reports (`pentest/report.go`, `static_report.go`, `static_remediation.go`) | one report per run, one per request | detect, validate, merge, rate, advise, save | the merge is order dependent; any model call may fail or the time run out |
| listings and dashboard (`pentest/dashboard.go`, repositories) | none of its own | filters, pages, aggregates | pages are cut by an offset into an order that changes between requests |
| tool policy and executors (`internal/infrastructure/scanner`) | none | validate an action, run a program | pure checks; input and output |
| chat sessions and planner (`pentest/workflow.go`, `service.go`) | sessions with messages | plan, summarise, store | appends of concurrent requests |
| HTTP, start-up, seeding, migrations, encryption, logs | none, or configuration | | wiring |

How they interact: an HTTP handler calls a service; a start handler saves the
running row, launches a goroutine and answers; the goroutine runs a loop, which
calls the model gateway and the tool executor (another process, over HTTP) and
writes live steps into the service's memory; when the loop returns, the
goroutine settles the row and saves a report.  Poll and cancel handlers read
and write the same row and the same memory meanwhile.  Users, roles and
sessions are read by the middleware on every request.

## The modules

**ScanLifecycle** is the scan lifecycle, whole.  A submission (`hpc`), a runner
(`rpc`), a cancel request (`ccpc`) and a poll (`ppc`) are processes whose
program counter stops between any two calls that another process could observe:
the running-scan check, the save of the running row, the registration and
launch, each turn of the loop, the decision on the outcome, the terminal save,
the report, the release.  `rows` is the table, `registry` and `progress` the two
maps of the service, and history variables (`requested`, `acked`, `overlapped`
and their like) record what the properties speak about and no guard reads.
Two submissions of one user may pass the check before either inserts, as in the
code, which has nothing to hold the second back; `overlapped` remembers the
pairs that did.  Saves may fail, the process may crash and boot again, deadlines
pass, an administrator edits prices.  The constant `Static` names the scans of
the static runner, which differs from the dynamic one in ingestion, in the order
of clean-up and in what it does when the terminal save fails.

**ScanRecord** is what the rest of the system may rely on: a record goes from
nothing to running to one terminal state, and after that changes only if a
cancel request is in flight.  ScanLifecycle implements it (`RecordSpec`).

**AgentLoop** and **StaticLoop** are the two loops the runner calls, one action
for each way an iteration of the `for` can go, one per prelude probe, and one
for the synthesis.  The agent is an adversary: at every turn it may give any
answer.  A request stands for an action's signature; an endpoint, a host, a
file and a line are members of small sets.  A step of AgentLoop says who made it
(`by`): only the agent's own requests enter the repeat set, so a probe of a
prelude may run once more when the agent asks for the same.  **FinalGate** is
the policy both share for pushing back an early final answer.

**LoopContract** is the abstract loop: deterministic steps, then a bounded
number of turns that record at most one step each, then an outcome that is an
error exactly if the context died or the model call failed.  Both loops
implement it (`ContractSpec` in each), and it is what ScanLifecycle's `Loop`
actions assume.

**Accounts** is registration, login, refresh, logout, password changes and user
administration over one user repository.  A request (`req`) stops between two
repository calls, so that a check and the write it guards can be separated by
any step of another request.  A session is named by the token its login issued,
and every token rotated out of it carries that name (the code's
`SessionStartedAt`); a password is its version; a token read at any time may
turn out expired or past its session's cap, so time needs no counter.  Whoever
acts as an administrator is not checked against the table, because the access
token that says so outlives a change of the role.  History variables record the
sessions whose token was presented by two requests at once (`raced`), the
sessions that existed when their account was revoked (`purged`), the accounts
whose revocation failed after a password change (`unrevoked`), and the removals
that another one outran between their count of administrators and their write
(`outrun`); `late` marks a request, and what descends from it, that a revocation
overtook.

**LLMCatalog** is the catalogue of providers and models, the gateway's cache of
adapters and the users' selections, over Postgres and over the in-memory
repository (`memory`).  An administrator's edit (`edit`) stops between its read,
its write and each eviction of the cache; a scan's `resolve` (`call`) between
reading the provider, looking into the cache and storing the adapter; a user's
selection (`pick`) between listing providers, listing models and answering.  A
key, a name and a base URL are members of small sets, lower-casing is the
function `Fold`, the time stamp of a row is the value of `clock` at its write.

**ModelCall** is one call of a model: the attempts of `doJSONWithRetry`, the
wait between them, the answer read or broken off, and the tally the usage goes
to.  A Retry-After is a number of seconds, whose product with a second wraps as
a Go Duration does (`Wrap` stands for its 64 bits, so that a wait asked for may
come out short, zero or negative), or a date (`Dates`).  The provider answers anything,
and charges also for answers that are lost.  **ChatSessions** composes it with
its two kinds of callers: planner requests that race on the sessions of the
in-memory repository (its lock is held only inside each call), and the loops of
scans, which call under a context that may be cancelled.

**LoginPrelude** is how a dynamic scan gets, proves and recovers a session on
its target.  The target is the environment: a record of where its form is,
which cookies it hands out, what it shows to whom and which credentials it
accepts (`SiteType`), and which of its pages hold one of the failure markers
`assessLogin` looks for.  It is honest: an anonymous visitor of the login page
gets the form, and only somebody logged in sees a logout control; and it does
not throttle its login page.  Any request of a login (the first look at the
page, the submission, the probe) may fail, and with it either the request or its
answer is lost; `lost` remembers at which stage.

**Findings** holds what both kinds of report share: labels, classes,
severities, statistics.  A label is what search words it contains, because that
is all the code asks of it; every rule of the code's label tables is there, in
its order, over those words.  Left out of the tables are the CWE numbers they
also give.  **DynamicReport** is the detectors over the
recorded steps, the validation of the agent's claims and the merge; it is
operators only, one per function.  **StaticReport** is the same for static
scans, with the templates and examples of remediation.  **Reports** runs them
as the program does: detection, the model's reading of the final answer,
rating, advice, narrative and save are steps, at each of which a model call may
fail or the context end, live (`GenerateAfterRun`) and from the stored steps
(`Regenerate`).

**Dashboard** is the saved reports under windows of time, relative or with
bounds: reports are saved out of order and deleted, several under one time,
midnight passes, and a reader follows a list page by page while charts are drawn
from the same table.  The query orders by time alone, so each of its answers may
order the reports of one time differently (`Orders`).  Which day begins a month
is the calendar's (`MonthStart`).

The `MC` modules give the constants their values.  The definitions marked
"Mutant" beside an operation are what a plausible slip in that operation would
be; no specification uses them.

## What the runs check

| run | question | bounds |
|---|---|---|
| scan_safety | one user submits twice, overlapping or not: two running scans only by overlap between check and insert, records that never disappear or run again (`RecordSpec`) | 2 scans of 1 user, 1 cancel, 1 turn, 1 crash |
| scan_static | the inductive invariant of the proofs, cancelled means requested, running records without a runner only after a fault, a poll answers its run, records are settled and goroutines end | 1 static scan, 1 cancel, 1 poll, 2 turns, 2 prices, 1 crash, failing saves, fair |
| agent_loop | numbering, live steps, scope, repeats, coverage, the gate, the contract, termination | 7 requests, 2 endpoints, 3 preludes, 3 steps, 1 failure, 2 nudges, fair |
| static_loop | detectors always run, coverage only grows, tracker and tool agree on every region, the loop ends, the contract | 1 file of 3 lines, two of them readable, 2 greps, 2 triage steps, 2 nudges, fair |
| accounts | rotation, revocation, password changes, the last administrator | 2 requests at a time, 1 followed account beside an administrator, 3 tokens, 1 password change, failing calls |
| llm_catalog | a call uses the row version it read, overlapping edits lose no key, a selection just answered can start a scan | 2 providers whose names differ in case, 2 models, 2 administrators, 1 scan, 1 user, 3 writes (`MaxClock`) |
| model_use | retries end, final answers are not repeated, waits are capped, tallies are honest, sessions hold what clients got | 2 requests and 1 loop, 2 attempts, statuses 401 and 429, Retry-After of 40, 60 and 101 s with a Duration that wraps at 100 s, a date 1 s off, 2 sessions, 1 restart, fair |
| login | requests stay in scope, an unqualified session is real, good credentials log in | honest targets of every kind, those with a plain form accepting two users or marking a page as failed, 2 default pairs, any request failing, 1 recovery, 2 steps, 2 forgotten sessions |
| reports | proof reaches the report, validation needs a visit, merges keep the best, advice stays with its finding | transcripts of up to 2 steps from a pool of 16 that meets every detector, scanners' lines, static scans over 2 files, answers with up to 2 claims |
| dashboard | reading page by page misses nothing, charts agree with the list | 4 times, 2 to a day, 3 reports, 2 users, 9 queries, two of them refused |

The bounds are the smallest at which the hazards happen: two submissions are
needed to overlap, one crash falls at every point of every process, two nudges
separate a stall from progress, a file of two lines has a region that starts,
ends, is cut off or is turned around inside it, three tokens let one rotation
fork into two heirs, two administrators and a resolve overlap in every order over
three writes, of three Retry-Afters one is cut at the cap, one wraps below
zero and one wraps around to a short wait, two findings are enough for one to win a merge,
two accepted users let a failed request hide the first of them, two ticks a day
put midnight between two pages.  More of the same adds
interleavings of the same pairs, and what is proved below holds for every
number.  Accounts with two password changes and two tokens passes as well (a
change that fails to revoke, followed by one that succeeds).  `Followed` names
the accounts whose logins are followed: accounts interact only through the
count of administrators, so the others keep their role alone.  `AccountView`
tells states apart by what can still matter of them: of a token that is used up,
nobody asks for its password or its lateness, and of a session without a usable
token or a refresh in flight, nobody asks whether it was raced for or revoked.
It changes neither the steps nor the properties; the proofs do without it.

Two configurations have a constraint.  `ReadersApart` (LLMCatalog) and
`LoopsApart` (ChatSessions) explore apart from one another processes that share
nothing they write: a resolve and a selection only read the catalogue, and a
loop and a chat request have no state in common.  The proofs need neither.

Deadlock is off where the system may stop (all scans settled, all requests
answered, a bound reached) and on elsewhere.

Two runs show a place where the code does something else than the repository
says, each with the quotation in `PROJECT.json`:

* **static_remote**: grep results that crossed the scanner service have another
  Go type, so the coverage gate is never seeded.  The scanner is a service of
  its own in production, so this is the deployed behaviour.
* **static_lost**: a generic and a classified finding at line 1 of one file
  suppress each other, and the report lists neither.

More properties are stated beside their model and refuted by TLC when put in a
configuration.  Each says what a comment of the code says:

| property | module | what happens |
|---|---|---|
| `OneRunningScan` | ScanLifecycle | two overlapping submissions both start: check and insert are separate |
| `TerminalIsFinal` | ScanLifecycle | a cancel request saves the whole record it read, over what the runner settled |
| `CancelledScanEndsCancelled` | ScanLifecycle | a cancellation after the loop's last look at its context ends as completed |
| `NoPhantomAfterBoot` | ScanLifecycle | a quick restart leaves a young interrupted scan running |
| `PollShowsStepsSoFar` | ScanLifecycle | a poll between the two reads answers running with no steps |
| `AdvisedActionRuns` | AgentLoop | the agent is told to re-run a request and the re-run is refused as a repeat |
| `CoveredWasShown` | StaticLoop | a failed read_file covers its region |
| `AdminRemains` | Accounts | two overlapping removals of the only two administrators both pass the count |
| `NeverADeadSelection` | LLMCatalog | a blank or repeated name resolves to another provider than the one offered |
| `RawMakesNoGuess` | LoginPrelude | the recovery in mid-scan guesses default pairs although auto login is off |
| `RegeneratedKeepsFindings` | Reports | a static scan's report generated again goes through the dynamic detectors and loses the others' findings |

Seen while modelling, and stated by no property of its own:

* an HTTP date in Retry-After is honoured although `retry.go` says only seconds
  are, and a number of seconds large enough wraps into a short wait (ModelCall);
* a provider or model created as disabled is stored as enabled in Postgres,
  where a default of the column replaces the false value (`StoredEnabled`);
* a recovery in mid-scan may leave the scan with another accepted default pair
  than the one reported at its start, if a request of one of the two failed
  (`ConfirmedIsAuthenticated` excuses exactly that);
* credentials that are right are discarded if the page that proves them holds a
  failure marker such as "invalid" anywhere in its text (`GoodCredentialsLogIn`);
* a report that shares its time with another may be on none of the pages of a
  list, because the query has no tie-break; `PagingMissesNothing` without its
  condition `Alone` is refuted by two reports of one time;
* a range that is not known is an error, although the comment of
  `resolveDateRange` says it means no bounds;
* ids of one path that follow each other collapse alternately, because the
  expression takes the slash between them (`CollapseIDs`).

Read in passing and in no model: `scan_tokens.go` says the total covers the
synthesis of the final report, which an automatic report makes without the
tally; a model's currency is reset to USD by every edit; ids of chat sessions
are issued anew after a restart.

## Fairness

Runners and loops are goroutines: the Go scheduler runs them, so each of their
steps is weakly fair.  A call to a tool or to a model returns because both have
timeouts; the scan's own context has a deadline, which is what makes `Expire`
fair in ScanLifecycle.  In ChatSessions every request that has begun proceeds
(weakly fair for each), because a call of a model is an attempt under a timeout
or a wait under a timer: `EveryRequestIsAnswered` rests on that and on nothing
the provider does.  Nothing is assumed of users, administrators, providers'
answers, targets or crashes.  Accounts, LLMCatalog, Dashboard, Reports and
LoginPrelude state no liveness: their requests are straight-line code between
calls that return.

## Proofs

Every module rests on the named ASSUMEs of its constants and nothing else.

`ScanLifecycleProofs` proves for every set of users, scans, requests and polls
and every bound, with crashes and failing saves:

* the inductive invariant `FullInv` (theorem `Invariant`), checked by TLC in
  `scan_static`;
* type correctness, that two records of one user run at once only if their
  submissions overlapped between check and insert (`OverlapAloneSharesTheSlot`:
  no cancel, stale copy, crash or restart opens another way), that phantoms come
  from faults, that the registry is exact, that live progress is released, that
  cancelled means requested, that completed records are whole, that reports are
  of completed runs, that polls answer the run, that the price on a record is
  frozen;
* `ImplementsRecord`: the lifecycle implements ScanRecord.

None of these is inductive alone.  That a completed row has all its steps needs
to know, for every program counter of the runner, what the row, the registry
and the live steps hold; that a cancel request cannot settle somebody else's
row needs to know what copy of the row it carries.  `FullInv` is the
conjunction of `TypeOK`, those facts per program counter (`IInv`), that the
price copies agree (`PriceTraced`) and that copies of steps come from a run
(`StepsTraced`).  The proof has one step per action.

`AccountsProofs` proves for every set of accounts, requests and tokens and every
number of password changes, with any repository call failing:

* `AccountsTyped`, type correctness;
* `LastAdministratorStays`: however many removals overlap, the step that leaves
  no administrator writes a removal that another one outran after its count.
  The invariant is `CountStands`: between the count and the write it permits,
  the count stays true unless the removal is outrun;
* `RotationLeavesOneToken`, `RevocationIsComplete` and
  `PasswordChangeIsComplete`, from the inductive invariant `SessionInv`
  (theorem `SessionInvariant`).

`SessionInv` says of requests what the properties say of tokens, because a
request carries a session from the token it revokes to the one it issues:
`OneHeir` (a session nobody raced for has one usable token or one request about
to replace it), `OvertakenAreLate` (whoever was past its check when the account
was revoked is late) and `RequestsHoldPassword` (who is past its check holds the
password in force).  `Lineage` is what they stand on: tokens, requests and
sessions agree on whose they are.  The proof classifies steps by shape (a step
that moves no token, one that issues, one that revokes an account) and proves
each shape once.

`AgentLoopProofs` and `StaticLoopProofs` prove, for every set of requests,
endpoints, hosts and files and every budget, the safety of the loops: live
progress and result agree and are numbered without a gap, nothing leaves the
scope, the agent runs no targeted request twice, coverage is earned, the gate holds and lets go;
detectors always run, tracker and read_file agree on every region, also one that
ends before it starts, coverage only grows; and both loops implement
LoopContract.  The inductive invariant of each is its `LoopInv`,
checked by TLC on the instances above.  It adds to the properties that the steps
of a prelude are held back until it returns (`Running`), that every targeted
request of the agent among the steps is remembered (`Remembered`), where the run is in its
order of steps (`Ordered`), and that the gate's count is exact (`GateCounts`).
Both modules begin with the gate they share: a loop opens it with an exact count
and every final answer keeps the count exact.  `StalledIsCounted`, in
AgentLoopProofs, adds that it stops holding exactly when its history has stalled.

`ChatSessionsProofs` proves, for every number of callers, requests, attempts,
statuses and sessions: `TalliesAreHonest` (a tally stays within what was
charged and its total covers its parts), `FinalAnswersEndTheCall`,
`CallsWaitBoundedly` and `SessionsAreAppendOnly`.  The invariant `CallInv`
counts for each call the waits it has made against the attempts it has sent,
and keeps in step what a call was charged with what its tally counted.
`HonestTotals` is what it assumes of a provider: a total it reports covers the
parts it reports.  `PowersOfTwo` states of the back-off's powers that they are
numbers, which the provers do not know of `^`.

For the sessions the invariant is `RequestsFine` (theorem `RequestsInvariant`):
at each step of a request, which of its messages are already in its session, and
at which places.  `SessionsHoldTheAnswers` concludes that a planner reads the
session as it stands and that its answer is recorded once, behind the message it
answers, as the client got it; `CallsAndSessionsAgree` puts this together with
the type and the bounds on calls into `UseInv`, for any number of requests
racing on one session and any number of restarts.

`LLMCatalogProofs` proves, for every set of providers, names, keys,
administrators and scans, with no bound on overlapping edits:
`CallsUseTheRowTheyRead` and `SuppliedKeysSurvive`.  The first needs
`StampsIdentify`: a stamp names one version of a provider wherever that version
has been copied to (the table, the cache, a call in flight), so an adapter
found under an equal stamp is the adapter of the row in hand, however long ago
it was stored.  The proof sorts the actions by what they do to the versions:
none, one new, one forgotten, one copied.

`ResolvesHoldTheirRows` adds the type of every edit and resolve in flight.
`FreshSelectionsRun` says that a selection answered, and overtaken by no write
since the catalogue was read, passes the check that starts a scan, while names
are neither blank nor repeated.  They rest on `TypedInvariant` and
`PickInvariant`: a selection holds the catalogue as it is unless a write has
overtaken it, and what it answers was offered.  `CatalogConstants` assumes that
a refusal is no price.

`LoginPreludeProofs` proves `ConfirmedSessionsAreReal` for every honest target,
any number of accepted users, every list of default credentials and any requests
failing.  The hard case is the recovery: it replaces the session of a pair that
was reported as accepted, and its own confirmed guess is the same pair unless a
request was lost.  The invariant therefore says which guess can be confirmed at
all (`Confirms`, a fact about the target alone), that while nothing was lost
none before the current one could have been, and that a reported pair is then
the first the target accepts (`FirstAccepted`); `UnderTest`
and `Visit` say whose the cookies in hand are.  `CredentialsAssumption` is that
there is a default pair and that nobody is not a user.  From the same invariant,
with the shapes of its records (theorem `PreludeIInvariant`), follow
`PreludeIsTypedAndInScope`, that no login request leaves the scope, and
`GoodCredentialsAreUsed`, that a scan whose credentials the target accepts, at a
form it can reach and read, with a proving page free of failure markers, runs as
that user until a recovery replaces the session, unless a request before the
probe was lost; a failing probe does not matter.

`ReportsProofs` proves every property of the Reports run, for transcripts,
answers and code of every length, with any model call failing and the context
ending anywhere: `ReportsAreTyped`, `ProofsReachTheReport`,
`OnlyExercisedIsValidated`, `TheBestIsListed`, `OwnLinesSurvive` and
`AdviceReplacesPlaceholders`.  They follow from one inductive invariant,
`ReportInv` (theorem `ReportSafe`), which says of each stage what its list
holds:

* `DynamicJob`: every finding of the list is judged and, if validated, at a
  place of the transcript (`Credits`); what the transcript proves is among the
  detectors' findings (`Proves`); and the list has, for each of those, one of
  its class worth at least as much (`Covers`).
* `StaticJob`: every finding that has a line survives (`Survives`), and what
  advice may stand at each stage, with the placeholder it came from
  (`Unadvised`, `Templates`, `Advised`).
* `SavedRow`: the row is the report of the list.

The lemmas below it are about the operators: one per detector (`Detects`: its
findings are of places of its steps), that validated findings outweigh others
(`ProofsOutweigh`), that a merge covers what it is given and lists each class
once (`DynamicMerge`, `StaticMerge`), and that the later passes rewrite fields
that decide neither.  The loops of the code are recursive functions in the
model; a loop over a list is shown to keep its invariant from a least
counterexample.

`ReportsAssumption` is what is assumed of a scan: that a recorded step has the
fields a step has, of their types (`StepAssumption`), that labels are known,
and that the default accounts are tried on one login form, as the prelude does.
The last is needed: the detector reports the first login it finds, so a second
form's would be proved by the transcript and not reported.

The same module proves about Dashboard, for every set of reports and users, every
calendar, every length of a day and every size of a page, that a reader who
follows the list page by page misses no report that was listed all along and has
its time to itself (`ReadersMissNothing`), whatever is saved meanwhile, however
often the clock moves the window and however each query orders the reports of
one time; only a deletion can make a page skip one.  The invariant `PagingInv`
(theorem `PagingInvariant`) speaks of ranks, the number of listed reports that
are newer than one: a save only moves reports back, and the clock removes only
the oldest, all of one time together, so what has not been shown is never before
the reader's offset.  A report alone in its time stands at its rank in every
order the database may choose (`ListedAtRank`, by counting what precedes it).

And that the charts tell of the reports the list shows (`ChartsTellOfTheList`).
Every order holds each report once (`OrderHolds`); counters that count the
members of a finite set by a label add up to the whole set, in whatever order
they are summed (`Totals`, by a least counterexample again); and the ranking
picks the first in the list of those with the latest time (`NewestIsShown`).
`DashboardAssumption` says of a report that its severity is known and its
findings are a list, and of the calendar that a later day begins no earlier
month.

Proved and in no run of its own, because TLC checks the inductive invariant
that implies it or because it follows from one: the registry, progress, whole
records, reports and prices of ScanLifecycle; scope, coverage and gate of
AgentLoop; detectors and coverage of StaticLoop; the type invariant and
`SessionInv` of Accounts.

Only model-checked:

* liveness, under fairness, which is outside the prover's reach:
  `RunningEventuallySettles`, `RunnerEventuallyReleases`, `LoopEnds` and
  `EveryRequestIsAnswered`;
* the two disagreements above, which are single counterexamples.

## Not modelled

* Archive ingestion: a sequential copy under limits on entries and bytes, with
  no state between calls and nothing concurrent.
* Tool policy, scan profiles and the registry of tools: read-only tables.  The
  scope rule they apply is in AgentLoop and LoginPrelude.
* Tool executors and the scanner service: external programs whose output is
  parsed.  The reading window of read_file is in StaticLoop, and what happens
  to a result on its way over HTTP in StaticLoop and DynamicReport.
* Model adapters and the probe of a connection: wire formats.
* How a page is parsed into a form, the words of reports, prompts and logs,
  `target_info.go`: text.
* The dashboard's summary counters and the lists of scans: the same filters and
  pages as the lists of reports, over another table.
* Start-up, configuration, migrations, encryption at rest, the queue stub, HTTP
  decoding: wiring, with no state of their own.  Recovery at boot is in
  ScanLifecycle, the seeding of the catalogue in LLMCatalog.

`PROJECT.json` lists each with its sources and its reason.
