------------------------------- MODULE Reports -------------------------------
(***************************************************************************)
(* The generation of a report from a finished scan: at the end of the run  *)
(* (GenerateReport, GenerateStaticReport, each under a five minute context *)
(* of its own) or later on request (CreateReportFromScan).  Model calls    *)
(* fail, the context ends at any moment, and the list of findings is       *)
(* carried through detection, reading, merging, rating, advice and saving. *)
(*                                                                         *)
(* A scan is the steps it recorded and the claims a model can read in its  *)
(* final answer.                                                           *)
(***************************************************************************)
EXTENDS StaticReport

CONSTANT Scans          \* [kind, steps, claims], kind "dynamic" or "sast"

IsList(seq) == seq \in Seq(ToSet(seq))

(* What a recorded step holds.                                             *)
StepAssumption(s) ==
  /\ DOMAIN s = DOMAIN PlainStep
  /\ \A x \in {s.ran, s.proved, s.accepted} : x \in BOOLEAN
  /\ s.numbers \in {"int", "float"} /\ s.status \in Int
  /\ IsList(s.at) /\ IsList(s.lines) /\ IsList(s.raw)
  /\ s.tool = "nuclei_scan" => \A l \in ToSet(s.lines) : l.json => l.type \in Labels
  /\ \A r \in ToSet(s.raw) :
       /\ s.tool = "semgrep_scan" => r.line \in Int /\ r.rule \in Labels
       /\ s.tool = "gitleaks_scan" => r.line \in Int /\ r.exposure \in BOOLEAN
       /\ s.tool = "osv_scan" => r.score \in -1..100

(* A scan has one login form it tries the default accounts on.             *)
ASSUME ReportsAssumption ==
  \A sc \in Scans :
    /\ sc.kind \in {"dynamic", "sast"}
    /\ IsList(sc.steps) /\ IsList(sc.claims)
    /\ \A s \in ToSet(sc.steps) : StepAssumption(s)
    /\ \A s, t \in ToSet(sc.steps) :
         s.tool = "default_cred_login" /\ t.tool = "default_cred_login" => s.at = t.at
    /\ \A c \in ToSet(sc.claims) :
         /\ c.type \in Labels /\ c.title \in Labels
         /\ c.line \in Int /\ c.verified \in BOOLEAN

VARIABLES scan,         \* the scan reported on
          job,          \* the generation under way
          report        \* the row it saved

vars == <<scan, job, report>>

NoReport == [saved |-> FALSE]

Idle ==
  [pc |-> "idle", generator |-> "none", workspace |-> FALSE, live |-> TRUE,
   steps |-> <<>>, found |-> <<>>, claimed |-> <<>>, read |-> FALSE,
   list |-> <<>>, templated |-> {}]

Init ==
  /\ scan \in Scans
  /\ job = Idle
  /\ report = NoReport

----------------------------------------------------------------------------
(* The steps.                                                              *)

\* Steps read back from the database have floats where live ones have ints.
Stored(steps) == [i \in 1..Len(steps) |-> [steps[i] EXCEPT !.numbers = "float"]]

(* The end of a completed run: the generator of the scan's kind, with the  *)
(* workspace of a static scan still on disk. *)
GenerateAfterRun ==
  /\ job.pc = "idle"
  /\ job' = [Idle EXCEPT !.pc = "detect", !.steps = scan.steps,
                         !.generator = scan.kind,
                         !.workspace = scan.kind = "sast"]
  /\ UNCHANGED <<scan, report>>

(* CreateReportFromScan, on request and as often as asked: always the      *)
(* dynamic generator, on the stored steps.  Each request saves a row of    *)
(* its own; report is the latest.  *)
Regenerate ==
  /\ job.pc \in {"idle", "done"}
  /\ job' = [Idle EXCEPT !.pc = "detect", !.steps = Stored(scan.steps),
                         !.generator = "dynamic"]
  /\ report' = NoReport
  /\ UNCHANGED scan

Detect ==
  /\ job.pc = "detect"
  /\ \E found \in IF job.generator = "sast" THEN {ExtractStatic(job.steps)}
                  ELSE DetectorFindings(job.steps) :
       job' = [job EXCEPT !.pc = "read", !.found = found, !.list = found]
  /\ UNCHANGED <<scan, report>>

(* The model turns the final answer into findings, which join the list.    *)
ReadAnswer ==
  /\ job.pc = "read"
  /\ job.live
  /\ LET claimed ==
           IF job.generator = "sast" THEN ReadFindings(scan.claims)
           ELSE ValidateAgentFindings(ClaimedFindings(scan.claims), job.steps)
     IN job' = [job EXCEPT
                  !.pc = "rate", !.claimed = claimed, !.read = TRUE,
                  !.list = IF job.generator = "sast" THEN MergeStatic(job.found, claimed)
                           ELSE MergeDynamic(job.found, claimed)]
  /\ UNCHANGED <<scan, report>>

(* That call fails, or its array does not parse: the detectors' findings   *)
(* stay as they are, not merged. *)
AnswerUnread ==
  /\ job.pc = "read"
  /\ job' = [job EXCEPT !.pc = "rate"]
  /\ UNCHANGED <<scan, report>>

(* GenerateReport after the merge; findings are numbered from here on. *)
RateDynamic ==
  /\ job.pc = "rate"
  /\ job.generator = "dynamic"
  /\ job' = [job EXCEPT !.pc = "narrate", !.list = EnrichCVSS(@)]
  /\ UNCHANGED <<scan, report>>

(* GenerateStaticReport after the merge. *)
RateStatic ==
  /\ job.pc = "rate"
  /\ job.generator = "sast"
  /\ LET rated == ApplyCategories(NormalizeSeverities(job.list))
         shown == IF job.workspace THEN EnrichSnippets(rated) ELSE rated
     IN job' = [job EXCEPT !.pc = "advise", !.list = ApplyTemplates(shown),
                           !.templated = Templated(shown)]
  /\ UNCHANGED <<scan, report>>

(* One call for all examples; the model may answer for any ids, also ones  *)
(* it was not asked about.  It is not called when there is nothing to ask. *)
Remediate ==
  /\ job.pc = "advise"
  /\ job.live
  /\ Asked(job.list, job.templated) # {}
  /\ \E answered \in SUBSET (1..Len(job.list)) :
       job' = [job EXCEPT
                 !.pc = "narrate",
                 !.list = Splice(@, Asked(@, job.templated), answered)]
  /\ UNCHANGED <<scan, report>>

KeepTemplates ==
  /\ job.pc = "advise"
  /\ job' = [job EXCEPT !.pc = "narrate"]
  /\ UNCHANGED <<scan, report>>

(* The narrative is the model's or, when the call fails, a fixed text; the *)
(* report's other parts are computed from the list. *)
Narrate ==
  /\ job.pc = "narrate"
  /\ job' = [job EXCEPT !.pc = "save"]
  /\ UNCHANGED <<scan, report>>

Successes(steps) == Len(SelectSeq(steps, LAMBDA s : s.proved))

Save ==
  /\ job.pc = "save"
  /\ job.live
  /\ report' = [saved |-> TRUE, listed |-> job.list,
                statistics |-> CalculateStatistics(job.list, Successes(job.steps)),
                overall |-> CalculateOverallSeverity(job.list)]
  /\ job' = [job EXCEPT !.pc = "done"]
  /\ UNCHANGED scan

(* The row is refused, or the context has ended: no report, only a log     *)
(* line or an error answer. *)
SaveFails ==
  /\ job.pc = "save"
  /\ job' = [job EXCEPT !.pc = "done"]
  /\ UNCHANGED <<scan, report>>

(* The five minutes, or the request, end: every later model call fails,    *)
(* and so does the save, which uses the same context. *)
ContextEnds ==
  /\ job.pc \in {"read", "advise", "narrate", "save"}
  /\ job.live
  /\ job' = [job EXCEPT !.live = FALSE]
  /\ UNCHANGED <<scan, report>>

Next ==
  \/ GenerateAfterRun \/ Regenerate \/ Detect \/ ReadAnswer \/ AnswerUnread
  \/ RateDynamic \/ RateStatic \/ Remediate \/ KeepTemplates \/ Narrate
  \/ Save \/ SaveFails \/ ContextEnds

Spec == Init /\ [][Next]_vars

----------------------------------------------------------------------------
(* Properties.                                                             *)

(* A finding carries a known severity, status and advice, a type the code  *)
(* knows the words of, and a saved report rates and counts its own list;   *)
(* the marker type of a static scan never reaches it, where a dashboard    *)
(* would count it as a class of its own. *)
TypeOK ==
  /\ scan \in Scans
  /\ job.pc \in {"idle", "detect", "read", "rate", "advise", "narrate", "save", "done"}
  /\ job.templated \subseteq 1..Len(job.list)
  /\ \A f \in ToSet(job.list) :
       /\ f.type \in Labels /\ f.title \in Labels
       /\ f.severity \in Severities
       /\ f.status \in {"none", "validated", "candidate"}
       /\ f.advice \in {"own", "generic", "template", "model"}
       /\ f.cvss \in 0..100
  /\ report.saved =>
       /\ report.listed = job.list
       /\ report.statistics.total = Len(report.listed)
       /\ report.overall \in Severities
       /\ job.generator = "sast" => \A f \in ToSet(report.listed) : ~ IsGeneric(f)

Proof(class, at) == [class |-> class, at |-> at]

(* The latest answer for each object that named an owner.                  *)
ReadsOwner(s) ==
  /\ s.tool = "http_request" /\ s.ran /\ s.status \in 200..299 /\ s.method = "GET"
  /\ s.owners # {} /\ IdorKey(s).ok

SameObject(s, t) ==
  IdorKey(s).base = IdorKey(t).base /\ IdorKey(s).val = IdorKey(t).val

LastReads(steps) ==
  {i \in 1..Len(steps) : /\ ReadsOwner(steps[i])
                         /\ \A j \in (i + 1)..Len(steps) :
                              ReadsOwner(steps[j]) => ~ SameObject(steps[i], steps[j])}

OtherOwner(s, t) == IdorKey(s).base = IdorKey(t).base /\ s.owners # t.owners

(* What the transcript proves on its own, whoever reads it: an injection   *)
(* the tool itself verified, command output in an answer, a default login  *)
(* that was let in.  Places that one class is merged over carry none. *)
ProofsIn(steps) ==
  {Proof("sql_injection", NormalizeLocation(s.at)) :
     s \in {t \in ToSet(steps) : t.tool = "http_request" /\ t.ran /\ t.proved}}
  \cup {Proof("rce", NoLocation) :
          s \in {t \in ToSet(steps) : t.ran /\ "command_output" \in t.shown}}
  \cup {Proof("default_credentials", NormalizeLocation(s.at)) :
          s \in {t \in ToSet(steps) : t.tool = "default_cred_login" /\ t.ran /\ t.accepted}}

(* The report of a dynamic scan, also one generated again from the stored  *)
(* steps, lists as validated what the transcript proves, whatever the      *)
(* agent claims about the same place and whichever model call fails; and   *)
(* objects of one endpoint that belong to two owners are a validated       *)
(* access finding.                                                         *)
(* (report.go 38-160, vulnScore "an exploit-confirmed finding is worth     *)
(* more than any unverified one".) *)
ProofReachesTheReport ==
  report.saved /\ job.generator = "dynamic" =>
    /\ \A p \in ProofsIn(job.steps) :
         \E f \in ToSet(report.listed) : /\ f.status = "validated"
                                         /\ MergeKey(f) = <<p.class, p.at>>
    /\ (\E i, j \in LastReads(job.steps) : OtherOwner(job.steps[i], job.steps[j])) =>
         \E f \in ToSet(report.listed) :
           f.status = "validated" /\ MergeKey(f)[1] = "broken_access_control"

(* Nothing is listed as validated at a place the scan never went to: every *)
(* such finding is about the whole application, or about the directory of  *)
(* a step or of a line a scanner printed; and only those count as          *)
(* verified.  (validateAgentFindings, setDeterministicStatus.) *)
ValidatedWasExercised ==
  report.saved /\ job.generator = "dynamic" =>
    \A f \in ToSet(report.listed) :
      /\ f.verified <=> f.status = "validated"
      /\ f.status = "validated" =>
           \/ AppWide(NormalizeLocation(f.at))
           \/ \E s \in ToSet(job.steps) :
                \E at \in {s.at} \cup {l.at : l \in ToSet(s.lines)} :
                  SameFamily(NormalizeLocation(f.at), NormalizeLocation(at))

(* After the merge each vulnerability is listed once, and by a finding     *)
(* that is worth at least as much as every finding merged into it.         *)
(* (mergeDynamicVulns, vulnScore.) *)
MergeKeepsTheBest ==
  job.generator = "dynamic" /\ job.read =>
    /\ \A i, j \in 1..Len(job.list) :
         MergeKey(job.list[i]) = MergeKey(job.list[j]) => i = j
    /\ \A f \in ToSet(job.found \o job.claimed) :
         \E g \in ToSet(job.list) :
           MergeKey(g) = MergeKey(f) /\ VulnScore(g) >= VulnScore(f)

(* A finding with a line of its own outlives the merge: a classified one   *)
(* is listed at its line, and a generic one gives way only to a finding    *)
(* within three lines, in a file nobody reported as a whole.               *)
(* (mergeStaticVulns.) *)
StaticFindingsSurvive ==
  job.generator = "sast" /\ job.read =>
    \A f \in ToSet(job.found \o job.claimed) : ~ FileLevel(f) =>
      IF IsGeneric(f)
      THEN \/ \E g \in ToSet(job.list) : Near(f, g)
           \/ \E g \in ToSet(job.found \o job.claimed) : FileLevel(g) /\ g.at = f.at
      ELSE \E g \in ToSet(job.list) : StaticKey(g) = StaticKey(f)

(* Advice written for one finding is never replaced, no finding keeps the  *)
(* placeholder, and an example of the model appears only where it was      *)
(* shown code.  (applyRemediationTemplates, enrichRemediationExamples.) *)
AdviceIsPerSource ==
  report.saved /\ job.generator = "sast" =>
    \A f \in ToSet(report.listed) :
      /\ f.advice # "generic"
      /\ f.advice = "model" => f.code
      /\ f.advice # "own" =>
           \E g \in ToSet(job.found) : /\ g.advice = "generic"
                                       /\ g.at = f.at /\ g.line = f.line
                                       /\ g.title = f.title

(* "it also suppresses a generic detector finding ... when a classified    *)
(* finding from the agent sits at the same file within a few lines — the   *)
(* agent's entry is richer and verified" (static_report.go:300-303): one   *)
(* of the two is then listed.  Refuted when both stand at the first line.  *)
OneOfThePairIsListed ==
  job.generator = "sast" /\ job.read =>
    \A f \in ToSet(job.found), g \in ToSet(job.claimed) :
      IsGeneric(f) /\ ~ IsGeneric(g) /\ HasLine(f) /\ Near(f, g) =>
        \E h \in ToSet(job.list) : Near(f, h)

(* "raw steps are the single source of truth, so reports can be            *)
(* regenerated at any time" (report.go:181-183): a static scan's report    *)
(* that is generated again lists the files its detectors reported.         *)
(* Refuted: the dynamic generator knows none of the static tools.          *)
RegeneratedKeepsFindings ==
  report.saved /\ scan.kind = "sast" /\ job.read =>
    \A f \in ToSet(ExtractStatic(job.steps)) :
      \E g \in ToSet(report.listed) : g.at = f.at

=============================================================================
