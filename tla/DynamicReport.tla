---------------------------- MODULE DynamicReport ----------------------------
(***************************************************************************)
(* The vulnerability list of a dynamic scan's report (report.go): the      *)
(* detectors that read the recorded steps, the validation of what the      *)
(* agent claims against those steps, and the merge of both.                *)
(*                                                                         *)
(* A step is what the detectors read of it: the tool, the path of its      *)
(* target, an object id in its query, its method, what it sent and what    *)
(* its answer showed.  A step of an output tool has lines instead.         *)
(***************************************************************************)
EXTENDS Findings

CONSTANT ObjectIds                  \* numeric path segments and query ids

NoLocation == <<Blank>>             \* the empty string, not the path "/"
Root == <<>>

\* A request that found nothing; steps are written as exceptions to it.
PlainStep ==
  [tool |-> "http_request", ran |-> TRUE, at |-> <<"shop">>, qid |-> "none",
   method |-> "GET", sent |-> {}, status |-> 200, numbers |-> "int",
   length |-> 0, proved |-> FALSE, shown |-> {}, owners |-> {}, headers |-> {},
   lands |-> "none", accepted |-> FALSE, lines |-> <<>>, count |-> 0, raw |-> <<>>]

Finding ==
  [type |-> Blank, title |-> Blank, at |-> NoLocation, line |-> -1, start |-> 0,
   severity |-> "medium", verified |-> FALSE, status |-> "none", poc |-> FALSE,
   impact |-> TRUE, said |-> {}, cvss |-> 0, advice |-> "own", code |-> FALSE]

Detected(type, at, severity, verified) ==
  [Finding EXCEPT !.type = type, !.title = type, !.at = at,
                  !.severity = severity, !.verified = verified]

WithPoC(f) == [f EXCEPT !.poc = TRUE]

Titled(f, title) == [f EXCEPT !.title = title]

----------------------------------------------------------------------------
(* Reading steps.                                                          *)

(* A mutation: the assertion on float64 that live steps do not satisfy.    *)
NumFieldOfJSON(s, n) == IF s.numbers = "float" THEN n ELSE 0

(* numField: a number is an int on the live path and a float after the     *)
(* JSON of the database; both are read.                                    *)
NumField(s, n) == IF s.numbers \in {"int", "float"} THEN n ELSE 0

GetStatusCode(s) == IF s.ran THEN NumField(s, s.status) ELSE 0

Answered(s) == s.tool = "http_request" /\ s.ran
Succeeded(s) == Answered(s) /\ GetStatusCode(s) \in 200..299
Accepted(s) ==
  /\ s.tool = "http_request" /\ s.method = "POST"
  /\ GetStatusCode(s) \in 200..399

(* The elements of a sequence that pass a test, as the loops collect them. *)
Where(seq, Test(_)) ==
  FlattenSeq([i \in 1..Len(seq) |-> IF Test(seq[i]) THEN <<seq[i]>> ELSE <<>>])

(* The finding made of the first step that fits, if one does. *)
OnFirst(steps, Fits(_), Make(_)) ==
  LET hits == Where(steps, Fits)
  IN IF hits = <<>> THEN <<>> ELSE Make(Head(hits))

(* Of the elements with one key, the first. *)
FirstPer(seq, Key(_)) ==
  FlattenSeq([i \in 1..Len(seq) |->
                IF \E j \in 1..(i - 1) : Key(seq[j]) = Key(seq[i])
                THEN <<>> ELSE <<seq[i]>>])

----------------------------------------------------------------------------
(* The deterministic detectors.                                            *)

(* The first probe whose output starts with a line that parses decides,    *)
(* versioned banner or not.                                                *)
DetectServerBanner(steps) ==
  OnFirst(steps,
    LAMBDA s : /\ s.tool = "httpx_probe" /\ s.ran
               /\ s.lines # <<>> /\ Head(s.lines).banner # "unparsable",
    LAMBDA s : IF Head(s.lines).banner = "versioned"
               THEN <<Detected("Information_Disclosure", Head(s.lines).at,
                               "informational", TRUE)>>
               ELSE <<>>)

(* Command output in any answer, once for each location. *)
DetectRCE(steps) ==
  LET proofs == Where(steps, LAMBDA s : s.ran /\ "command_output" \in s.shown)
      Found(s) == WithPoC(Detected(IF "upload" \in ToSet(s.at)
                                   THEN "Unrestricted_File_Upload"
                                   ELSE "Remote_Code_Execution",
                                   s.at, "critical", TRUE))
      distinct == FirstPer(proofs, LAMBDA s : s.at)
  IN [i \in 1..Len(distinct) |->
        Titled(Found(distinct[i]), "Remote_Code_Execution")]

(* The first jQuery version, in a probe's technologies before any body.    *)
(* Only the first counts: majors from 3 on are not reported.               *)
DetectOutdatedComponent(steps) ==
  LET probes == Where(steps, LAMBDA s : s.tool = "httpx_probe" /\ s.ran)
      tech == Where(FlattenSeq([i \in 1..Len(probes) |-> probes[i].lines]),
                        LAMBDA l : l.jquery # 0)
      bodies == Where(steps, LAMBDA s : s.ran /\
                                   {"jquery_1", "jquery_3"} \cap s.shown # {})
      first == IF tech # <<>> THEN [major |-> Head(tech).jquery, at |-> Head(tech).at]
               ELSE IF bodies # <<>>
               THEN [major |-> IF "jquery_1" \in Head(bodies).shown THEN 1 ELSE 3,
                     at |-> Head(bodies).at]
               ELSE [major |-> 3, at |-> Root]
  IN IF first.major >= 3 THEN <<>>
     ELSE <<Titled(Detected("Vulnerable_Component", first.at, "low", TRUE),
                   "Outdated_JavaScript_Library")>>

(* Which kind of sensitive file an answer is, told by its name and by its  *)
(* content, never by its status alone.                                     *)
ExposedKind(s) ==
  LET name == IF s.at = Root THEN Blank ELSE Last(s.at) IN
  IF name = ".env"
  THEN IF {"env_keys", "env_secret"} \cap s.shown # {} THEN "env" ELSE "none"
  ELSE IF ".git" \in ToSet(Front(<<Blank>> \o s.at))
  THEN IF "git_plumbing" \in s.shown THEN "git" ELSE "none"
  ELSE IF name = "site.bak" /\ {"source_code", "env_keys", "env_secret"} \cap s.shown # {}
  THEN "backup" ELSE "none"

(* The first exposure of each kind; it is proved when a secret was read. *)
DetectExposedFiles(steps) ==
  LET hits == FirstPer(Where(steps, LAMBDA s : Succeeded(s) /\ s.shown # {}
                                                   /\ ExposedKind(s) # "none"),
                       ExposedKind)
      Secret(s) == "env_secret" \in s.shown /\ ExposedKind(s) # "git"
  IN [i \in 1..Len(hits) |->
        WithPoC(Detected("Sensitive_Data_Exposure", hits[i].at,
                         IF Secret(hits[i]) /\ ExposedKind(hits[i]) = "env"
                         THEN "critical" ELSE "high",
                         Secret(hits[i])))]

DetectUnrestrictedUpload(steps) ==
  OnFirst(steps,
    LAMBDA s : Accepted(s) /\ "script_upload" \in s.sent,
    LAMBDA s : <<WithPoC(Detected("Unrestricted_File_Upload", s.at, "high", FALSE))>>)

HardeningHeaders ==
  {"X-Frame-Options", "X-Content-Type-Options", "Content-Security-Policy"}

(* The first answer whose headers were captured decides for the whole app. *)
DetectMissingSecurityHeaders(steps) ==
  OnFirst(steps,
    LAMBDA s : Succeeded(s) /\ {"Content-Type", "Server"} \cap s.headers # {},
    LAMBDA s : IF Cardinality(HardeningHeaders \ s.headers) < 2 THEN <<>>
               ELSE <<Titled(Detected("Security_Misconfiguration", s.at, "low", FALSE),
                             "Missing_Security_Headers")>>)

(* The marker step the login prelude records. *)
DetectDefaultCredentials(steps) ==
  OnFirst(steps,
    LAMBDA s : s.tool = "default_cred_login" /\ s.ran /\ s.accepted,
    LAMBDA s : <<Detected("Default_Credentials", s.at, "critical", TRUE)>>)

(* idorKey: the endpoint with its object id replaced, and the id: of the   *)
(* query if it has one, else the first numeric segment of the path.        *)
IdorKey(s) ==
  IF s.qid # "none" THEN [base |-> s.at \o <<"?id={id}">>, val |-> s.qid, ok |-> TRUE]
  ELSE LET ids == {i \in 1..Len(s.at) : s.at[i] \in ObjectIds} IN
       IF ids = {} THEN [base |-> s.at, val |-> "none", ok |-> FALSE]
       ELSE LET i == CHOOSE j \in ids : \A k \in ids : j <= k
            IN [base |-> [s.at EXCEPT ![i] = "{id}"], val |-> s.at[i], ok |-> TRUE]

(* An answer that names the owner of an object.                            *)
NamesOwner(s) ==
  Succeeded(s) /\ s.method = "GET" /\ IdorKey(s).ok /\ s.owners # {}

(* Two ids of one endpoint whose answers name different owners prove an    *)
(* IDOR; of several answers for one id the latest counts.  The code walks  *)
(* a map of endpoints and reports the first it meets, so any of the set    *)
(* may be the one. *)
DetectIDORDiff(steps) ==
  LET reads == {s \in ToSet(steps) : NamesOwner(s)}
      Of(b) == Where(steps, LAMBDA s : NamesOwner(s) /\ IdorKey(s).base = b)
      Latest(b, v) == Last(Where(steps, LAMBDA s : /\ NamesOwner(s)
                                                   /\ IdorKey(s).base = b
                                                   /\ IdorKey(s).val = v)).owners
      Vals(b) == {IdorKey(s).val : s \in {r \in reads : IdorKey(r).base = b}}
      proved == {b \in {IdorKey(s).base : s \in reads} :
                   \E v, w \in Vals(b) : Latest(b, v) # Latest(b, w)}
      Report(b) == <<WithPoC(Detected("Insecure_Direct_Object_Reference",
                                      Head(Of(b)).at, "high", TRUE))>>
  IN IF proved = {} THEN {<<>>} ELSE {Report(b) : b \in proved}

\* Sign-in, upload, search and API paths are not judged for CSRF.
CSRFExcluded == {"login", "upload", "search", "api"}

DetectCSRF(steps) ==
  OnFirst(steps,
    LAMBDA s : /\ Accepted(s)
               /\ ToSet(s.at) \cap CSRFExcluded = {}
               /\ "csrf_token" \notin s.sent,
    LAMBDA s : <<WithPoC(Detected("Cross-Site_Request_Forgery", s.at, "medium", FALSE))>>)

DetectSSRF(steps) ==
  OnFirst(steps,
    LAMBDA s : Succeeded(s) /\ "internal_fetch" \in s.sent,
    LAMBDA s : <<WithPoC(Detected("Server-Side_Request_Forgery", s.at, "high", FALSE))>>)

----------------------------------------------------------------------------
(* Scanner output.                                                         *)

(* One finding per template, templates that only detect a feature dropped; *)
(* a count without readable lines becomes one finding.                     *)
ParseNuclei(s) ==
  LET json == Where(s.lines, LAMBDA l : l.json)
      kept == Where(FirstPer(json, LAMBDA l : l.key), LAMBDA l : ~ l.noise)
  IN IF json = <<>>
     THEN IF s.count > 0
          THEN <<[Detected("Misconfiguration", s.at, "high", FALSE) EXCEPT !.impact = FALSE]>>
          ELSE <<>>
     ELSE [i \in 1..Len(kept) |->
             WithPoC(Detected(kept[i].type, kept[i].at,
                              MapNarrativeSeverity(kept[i].severity), FALSE))]

(* One finding per injected parameter, the first line read for it: "V" is  *)
(* an executed payload, "R" a reflected one, anything else is dropped.     *)
ParseDalfox(s) ==
  LET json == Where(s.lines, LAMBDA l : l.json)
      kept == FirstPer(Where(json, LAMBDA l : l.kind \in {"V", "R"}),
                       LAMBDA l : l.key)
      XSS(l) == Detected("Cross-Site_Scripting", l.at,
                         IF l.kind = "V" THEN "high" ELSE "medium", l.kind = "V")
  IN IF json = <<>>
     THEN IF s.count > 0
          THEN <<Detected("Cross-Site_Scripting", s.at, "medium", FALSE)>> ELSE <<>>
     ELSE [i \in 1..Len(kept) |-> WithPoC(XSS(kept[i]))]

(* sqlmap confirms in a line that affirms and does not negate. *)
SqlmapConfirms(s) == \E i \in 1..Len(s.lines) : s.lines[i].kind = "affirms"

SQLi(at, severity, verified) == Detected("SQL_Injection", at, severity, verified)

AuthBypassRedirect(s) ==
  GetStatusCode(s) \in 300..399 /\ s.lands \notin {"none", "login"}

(* What one step alone proves or suggests. *)
StepFindings(s) ==
  IF ~ s.ran THEN <<>>
  ELSE IF s.tool = "http_request"
  THEN IF s.proved \/ (s.method = "POST" /\ "login_bypass" \in s.sent /\ AuthBypassRedirect(s))
       THEN <<WithPoC(SQLi(s.at, "critical", TRUE))>> ELSE <<>>
  ELSE IF s.tool = "sqlmap_scan"
  THEN IF SqlmapConfirms(s) THEN <<SQLi(s.at, "critical", TRUE)>> ELSE <<>>
  ELSE IF s.tool = "nuclei_scan" THEN ParseNuclei(s)
  ELSE IF s.tool = "dalfox_xss" THEN ParseDalfox(s) ELSE <<>>

SQLiBase(s) == [at |-> s.at, category |-> "category" \in s.sent]

BooleanGap == 500

(* Evidence gathered across the requests to one base: the latest answer to *)
(* a true and to a false condition differ much in length (proof), or a     *)
(* union broke the server (a sign).                                        *)
Evidence(steps, b) ==
  LET to == Where(steps, LAMBDA s : Answered(s) /\ SQLiBase(s) = b)
      sent(what) == Where(to, LAMBDA s : what \in s.sent)
      length(what) == IF sent(what) = <<>> THEN 0
                      ELSE NumField(Last(sent(what)), Last(sent(what)).length)
      gap == length("or_true") - length("and_false")
      differs == /\ length("or_true") > 0 /\ length("and_false") > 0
                 /\ (gap >= BooleanGap \/ -gap >= BooleanGap)
      breaks == /\ sent("union") # <<>>
                /\ \/ GetStatusCode(Last(sent("union"))) >= 500
                   \/ "server_error" \in Last(sent("union")).shown
  IN IF differs THEN <<WithPoC(SQLi(b.at, "critical", TRUE))>>
     ELSE IF breaks THEN <<WithPoC(SQLi(b.at, "high", FALSE))>> ELSE <<>>

(* extractVulnsFromSteps: per step, then per base in the order of a map,   *)
(* which is any order: the set of lists it may return.                     *)
ExtractVulns(steps) ==
  LET perStep == FlattenSeq([i \in 1..Len(steps) |-> StepFindings(steps[i])])
      bases == {SQLiBase(s) : s \in {t \in ToSet(steps) : Answered(t)}}
      shown == {b \in bases : Evidence(steps, b) # <<>>}
  IN {perStep \o FlattenSeq([i \in 1..Len(order) |-> Evidence(steps, order[i])]) :
        order \in SetToSeqs(shown)}

StatusForVerified(verified) == IF verified THEN "validated" ELSE "candidate"

(* setDeterministicStatus. *)
SetStatus(list) ==
  [i \in 1..Len(list) |->
     IF list[i].status = "none"
     THEN [list[i] EXCEPT !.status = StatusForVerified(list[i].verified)]
     ELSE list[i]]

(* All the detectors, in the order GenerateReport appends them. *)
DetectorFindings(steps) ==
  {SetStatus(vulns
             \o DetectServerBanner(steps) \o DetectRCE(steps)
             \o DetectOutdatedComponent(steps) \o DetectExposedFiles(steps)
             \o DetectUnrestrictedUpload(steps) \o DetectMissingSecurityHeaders(steps)
             \o DetectDefaultCredentials(steps) \o idor
             \o DetectCSRF(steps) \o DetectSSRF(steps)) :
     vulns \in ExtractVulns(steps), idor \in DetectIDORDiff(steps)}

----------------------------------------------------------------------------
(* What the agent claims.                                                  *)

(* normalizeDynamicLocation: everything under /.git is /.git. *)
NormalizeLocation(at) == IF at # Root /\ Head(at) = ".git" THEN <<".git">> ELSE at

AppWide(at) == at \in {NoLocation, Root}

ParentPath(at) == IF Len(at) > 1 THEN Front(at) ELSE Root

SameFamily(at, other) ==
  \/ other = at
  \/ /\ ParentPath(at) # Root
     /\ other = ParentPath(at) \/ ParentPath(other) = ParentPath(at)

(* findingHasSupportingStep: some request went to the place, or within its *)
(* directory; nothing is asked of a claim about the whole application.     *)
HasSupportingStep(at, steps) ==
  LET loc == NormalizeLocation(at) IN
  \/ AppWide(loc)
  \/ \E s \in ToSet(steps) :
       /\ s.tool = "http_request"
       /\ ~ AppWide(NormalizeLocation(s.at))
       /\ SameFamily(loc, NormalizeLocation(s.at))

(* extractAgentDynamicFindings, once the model's array is parsed: elements *)
(* with neither title nor type are dropped.                                *)
ClaimedFindings(claims) ==
  LET named == Where(claims, LAMBDA c : c.title # Blank \/ c.type # Blank)
      or(a, b) == IF a = Blank THEN b ELSE a
  IN [i \in 1..Len(named) |->
        LET c == named[i] IN
        [Finding EXCEPT !.type = or(c.type, "Web"), !.title = or(c.title, c.type),
                        !.at = c.at, !.severity = MapNarrativeSeverity(c.severity),
                        !.verified = c.verified, !.impact = c.impact, !.said = c.said,
                        !.poc = c.at # NoLocation \/ c.payload]]

(* A mutation: the model's word is taken for it. *)
ValidateOnFaith(list, steps) == SetStatus(list)

(* validateAgentFindings. *)
ValidateAgentFindings(list, steps) ==
  [i \in 1..Len(list) |->
     IF list[i].verified /\ HasSupportingStep(list[i].at, steps)
     THEN [list[i] EXCEPT !.status = "validated"]
     ELSE [list[i] EXCEPT !.status = "candidate", !.verified = FALSE]]

----------------------------------------------------------------------------
(* The merge.                                                              *)

(* collapseIDs: the expression takes the slash after an id along, which    *)
(* the next segment would need, so of ids in a row every second one stays. *)
CollapseIDs(at) ==
  LET taken[i \in 0..Len(at)] ==
        i > 0 /\ at[i] \in ObjectIds \cup {"{id}"} /\ ~ taken[i - 1]
  IN [i \in 1..Len(at) |-> IF taken[i] THEN "{id}" ELSE at[i]]

(* Findings with one key are one vulnerability. *)
MergeKey(f) ==
  LET class == CanonicalVulnType(f.type)
      at == NormalizeLocation(f.at)
  IN <<class, IF class \in {"rce", "security_misconfiguration"} THEN NoLocation
              ELSE IF class = "broken_access_control" THEN CollapseIDs(at) ELSE at>>

(* A mutation: a proof counts no more than its severity. *)
VulnScoreBySeverity(f) ==
  SeverityOrder(f.severity) * 10 + (IF f.poc THEN 5 ELSE 0) + (IF f.impact THEN 2 ELSE 0)

(* vulnScore: a proof outweighs any severity, PoC and impact break ties. *)
VulnScore(f) ==
  SeverityOrder(f.severity) * 10 + (IF f.verified THEN 100 ELSE 0)
    + (IF f.poc THEN 5 ELSE 0) + (IF f.impact THEN 2 ELSE 0)

(* A mutation: the latest duplicate replaces the one kept so far. *)
AddFindingLatest(list, f) ==
  LET same == {i \in 1..Len(list) : MergeKey(list[i]) = MergeKey(f)} IN
  IF same = {} THEN Append(list, f)
  ELSE [list EXCEPT ![CHOOSE i \in same : TRUE] = f]

(* One step of the merge: the richer of two duplicates stays, the earlier  *)
(* of two equal ones, at the place of the first.                           *)
AddFinding(list, f) ==
  LET same == {i \in 1..Len(list) : MergeKey(list[i]) = MergeKey(f)} IN
  IF same = {} THEN Append(list, f)
  ELSE LET i == CHOOSE j \in same : TRUE IN
       IF VulnScore(f) > VulnScore(list[i]) THEN [list EXCEPT ![i] = f] ELSE list

MergeDynamic(detector, agent) ==
  LET all == detector \o agent
      merged[n \in 0..Len(all)] ==
        IF n = 0 THEN <<>> ELSE AddFinding(merged[n - 1], all[n])
  IN merged[Len(all)]

(* enrichCVSSAndCWE: a reference score per class, the severity untouched. *)
EnrichCVSS(list) ==
  [i \in 1..Len(list) |->
     IF list[i].cvss = 0
     THEN [list[i] EXCEPT !.cvss = ClassifyFinding(list[i]).cvss] ELSE list[i]]

=============================================================================
