---------------------------- MODULE StaticReport ----------------------------
(***************************************************************************)
(* The vulnerability list of a static scan's report (static_report.go,     *)
(* static_remediation.go): what the detectors found, what the agent read,  *)
(* their merge by file and line, the fixed ratings and categories, the     *)
(* code shown with a finding and the advice given for it.                  *)
(*                                                                         *)
(* A location is a file and a line; line -1 stands for a path without one. *)
(***************************************************************************)
EXTENDS DynamicReport

\* The files of the workspace a snippet can be read from, inside the root,
\* not a directory, not too large, and how many lines each has.
CONSTANTS ReadableFiles, LineCount

ASSUME LinesAssumption == LineCount \in [ReadableFiles -> Nat]

NoLine == -1

StaticTitleRules ==
  << [words |-> {"sql"}, class |-> "Possible_SQL_Injection"],
     [words |-> {"xss", "cross-site-script"}, class |-> "Possible_Cross-Site_Scripting"],
     [words |-> {"ssrf"}, class |-> "Possible_Server-Side_Request_Forgery"],
     [words |-> {"redirect"}, class |-> "Possible_Open_Redirect"],
     [words |-> {"csrf", "csurf"}, class |-> "Missing_CSRF_Protection"],
     [words |-> {"upload"}, class |-> "Unrestricted_File_Upload"],
     [words |-> {"command", "rce"}, class |-> "Possible_Command_Injection"],
     [words |-> {"deserial", "unserialize"}, class |-> "Insecure_Deserialization"],
     [words |-> {"eval", "code-injection"}, class |-> "Possible_Code_Injection"],
     [words |-> {"traversal", "path-injection"}, class |-> "Possible_Path_Traversal"],
     [words |-> {"secret", "hardcoded", "credential"}, class |-> "Hardcoded_Secret"],
     [words |-> {"debug"}, class |-> "Debug_Mode_Enabled"],
     [words |-> {"display-errors", "display_errors", "verbose-error"},
      class |-> "Verbose_Error_Reporting_Enabled"],
     [words |-> {"phpinfo", "info-disclosure"}, class |-> "Information_Disclosure"],
     [words |-> {"cookie"}, class |-> "Insecure_Cookie_Configuration"] >>

(* staticFindingTitle: the class a rule id speaks of, else what is left of *)
(* the id, with its words. *)
StaticFindingTitle(rule) ==
  FirstRule(StaticTitleRules, rule,
            IF rule = Blank THEN "Static_Analysis_Finding" ELSE rule)

MapSemgrepSeverity(level) ==
  IF level = "error" THEN "high" ELSE IF level = "info" THEN "low" ELSE "medium"

\* Scores are tenths; -1 is a score that is missing or no number.
MapOSVSeverity(score) ==
  IF score >= 90 THEN "critical" ELSE IF score >= 70 THEN "high"
  ELSE IF score >= 40 \/ score < 0 THEN "medium" ELSE "low"

(* One detector's raw finding, per tool.  A semgrep finding carries the    *)
(* marker type and the placeholder advice until later passes replace them. *)
StaticFinding(tool, raw) ==
  CASE tool = "semgrep_scan" ->
         [Finding EXCEPT !.type = "SAST", !.title = StaticFindingTitle(raw.rule),
                         !.at = raw.file, !.line = raw.line, !.start = raw.line,
                         !.severity = MapSemgrepSeverity(raw.level),
                         !.said = raw.said, !.advice = "generic"]
    [] tool = "gitleaks_scan" /\ raw.exposure ->
         [Finding EXCEPT !.type = "Sensitive_Data_Exposure",
                         !.title = "Exposed_Sensitive_File", !.at = raw.file,
                         !.start = raw.line, !.severity = "critical",
                         !.verified = TRUE, !.said = raw.said]
    [] tool = "gitleaks_scan" /\ ~ raw.exposure ->
         [Finding EXCEPT !.type = "Secret_Exposure", !.title = "Hardcoded_Secret",
                         !.at = raw.file, !.line = raw.line, !.start = raw.line,
                         !.severity = "high", !.verified = TRUE, !.said = raw.said]
    [] tool = "osv_scan" ->
         [Finding EXCEPT !.type = "Vulnerable_Dependency",
                         !.title = "Vulnerable_Dependency", !.at = raw.file,
                         !.severity = MapOSVSeverity(raw.score),
                         !.cvss = IF raw.score > 0 THEN raw.score ELSE 0]

StaticDetectors == {"semgrep_scan", "gitleaks_scan", "osv_scan"}

(* extractStaticVulnsFromSteps. *)
ExtractStatic(steps) ==
  LET findings(s) == IF s.tool \in StaticDetectors /\ s.ran
                     THEN [i \in 1..Len(s.raw) |-> StaticFinding(s.tool, s.raw[i])]
                     ELSE <<>>
  IN FlattenSeq([i \in 1..Len(steps) |-> findings(steps[i])])

(* extractAgentStaticFindings: believed as they are, a missing type leaves *)
(* the marker. *)
ReadFindings(claims) ==
  LET named == Where(claims, LAMBDA c : c.title # Blank \/ c.type # Blank)
      or(a, b) == IF a = Blank THEN b ELSE a
  IN [i \in 1..Len(named) |->
        LET c == named[i] IN
        [Finding EXCEPT !.type = or(c.type, "SAST"), !.title = or(c.title, c.type),
                        !.at = c.at, !.line = IF c.line > 0 THEN c.line ELSE NoLine,
                        !.start = IF c.at = NoLocation THEN 0 ELSE c.line,
                        !.severity = MapNarrativeSeverity(c.severity),
                        !.verified = TRUE, !.impact = c.impact, !.said = c.said]]

----------------------------------------------------------------------------
(* The merge.                                                              *)

IsGeneric(f) == f.type = "SAST"

(* splitPathLine succeeds. *)
HasLine(f) == f.at # NoLocation /\ f.line # NoLine

(* fileLevelPath succeeds: a bare path, or a line that is no real one. *)
FileLevel(f) == f.at # NoLocation /\ f.line <= 1

Near(f, g) == f.at = g.at /\ f.line - g.line \in -3..3

StaticKey(f) == <<f.type, f.at, f.line>>

EmptyMerge == [list |-> <<>>, files |-> {}, generic |-> {}]

(* A mutation: any finding near a classified one gives way to it. *)
SupersededByAny(f, others) == HasLine(f) /\ \E g \in others \ {f} : Near(f, g)

(* A generic finding gives way to one that names its class, or to another  *)
(* generic one, within three lines.                                        *)
Superseded(f, others) ==
  IsGeneric(f) /\ HasLine(f) /\ \E g \in others : Near(f, g)

(* A finding is listed once per type, file and line.                       *)
AddKept(acc, f) ==
  IF \E g \in ToSet(acc.list) : StaticKey(g) = StaticKey(f) THEN acc
  ELSE [acc EXCEPT !.list = Append(@, f)]

(* The classified ones count for Superseded wherever they stand in the     *)
(* list, also when they are dropped themselves.                            *)
AddToFile(acc, f, classified) ==
  IF Superseded(f, classified \cup acc.generic) THEN acc
  ELSE AddKept([acc EXCEPT !.generic =
                  @ \cup {g \in {f} : IsGeneric(g) /\ HasLine(g)}], f)

(* A whole-file finding is the only one of its file.                       *)
AddStatic(acc, f, classified) ==
  IF ~ FileLevel(f) THEN AddToFile(acc, f, classified)
  ELSE IF f.at \in acc.files THEN acc
  ELSE AddToFile([acc EXCEPT !.files = @ \cup {f.at}], f, classified)

(* mergeStaticVulns. *)
MergeStatic(detector, agent) ==
  LET all == detector \o agent
      classified == {f \in ToSet(all) : ~ IsGeneric(f) /\ HasLine(f)}
      merged[n \in 0..Len(all)] ==
        IF n = 0 THEN EmptyMerge ELSE AddStatic(merged[n - 1], all[n], classified)
  IN merged[Len(all)].list

----------------------------------------------------------------------------
(* Ratings, categories, snippets.                                          *)

(* normalizeSeverities: a class is rated the same wherever it comes from. *)
NormalizeSeverities(list) ==
  [i \in 1..Len(list) |->
     LET r == ClassifyFinding(list[i]) IN
     IF r = Unrated THEN list[i]
     ELSE [list[i] EXCEPT !.severity = r.severity,
                          !.cvss = IF @ = 0 THEN r.cvss ELSE @]]

(* A mutation: only an empty type is replaced, the marker is not. *)
ApplyCategoriesToEmpty(list) ==
  [i \in 1..Len(list) |->
     IF list[i].type = Blank THEN [list[i] EXCEPT !.type = VulnCategory(list[i].title)]
     ELSE list[i]]

(* applyVulnCategories: the marker type becomes a category. *)
ApplyCategories(list) ==
  [i \in 1..Len(list) |->
     IF list[i].type \in {Blank, "SAST"}
     THEN [list[i] EXCEPT !.type = VulnCategory(list[i].title)] ELSE list[i]]

SnippetContext == 3

(* enrichCodeSnippets: the lines around a known line of a readable file; a *)
(* path outside the workspace is not read, and a line so far past the end  *)
(* that nothing is left to show has no snippet.                            *)
EnrichSnippets(list) ==
  [i \in 1..Len(list) |->
     IF /\ list[i].start > 0 /\ list[i].at \in ReadableFiles
        /\ LineCount[list[i].at] > 0
        /\ list[i].start - SnippetContext <= LineCount[list[i].at]
     THEN [list[i] EXCEPT !.code = TRUE] ELSE list[i]]

----------------------------------------------------------------------------
(* Advice.  Ids are positions in the renumbered list.                      *)

(* applyRemediationTemplates: the placeholder becomes the advice of the    *)
(* finding's class.                                                        *)
ApplyTemplates(list) ==
  [i \in 1..Len(list) |->
     IF list[i].advice = "generic" THEN [list[i] EXCEPT !.advice = "template"]
     ELSE list[i]]

(* The ids whose placeholder that replaced. *)
Templated(list) == {i \in 1..Len(list) : list[i].advice = "generic"}

(* The findings the model is asked about: only with code to fix. *)
Asked(list, templated) == {i \in templated : list[i].code}

(* A mutation: an example is spliced in wherever its id points. *)
SpliceAnywhere(list, asked, answered) ==
  [i \in 1..Len(list) |->
     IF i \in answered THEN [list[i] EXCEPT !.advice = "model"] ELSE list[i]]

(* enrichRemediationExamples, once its answer is read: an example for an   *)
(* id that was not asked about is ignored.                                 *)
Splice(list, asked, answered) ==
  [i \in 1..Len(list) |->
     IF i \in asked \cap answered THEN [list[i] EXCEPT !.advice = "model"]
     ELSE list[i]]

=============================================================================
