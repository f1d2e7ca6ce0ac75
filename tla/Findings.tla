------------------------------ MODULE Findings ------------------------------
(***************************************************************************)
(* What a report lists and how it is rated: the classes of a finding, read *)
(* from the words of its type and title, its severity, and the statistics  *)
(* of a list (report.go, static_report.go).                                *)
(*                                                                         *)
(* A type, a title or a rule id is a label.  The code only ever asks which *)
(* of its search words a label contains, so a label is what OwnWords or    *)
(* AgentWords says it contains; a space in it is written _.                *)
(* A location is the sequence of segments of a path, with a line of its    *)
(* own when it names one.                                                  *)
(***************************************************************************)
EXTENDS Integers, Sequences, FiniteSets, TLC, SequencesExt

\* The labels a model or a rule may come up with, and the words in each.
CONSTANT AgentWords

Blank == ""     \* nothing was said

\* The labels the code gives a finding, and the words in each.
OwnLabels ==
  {"SQL_Injection", "Possible_SQL_Injection", "Remote_Code_Execution",
   "Unrestricted_File_Upload", "Default_Credentials", "Insecure_Direct_Object_Reference",
   "Cross-Site_Scripting", "Possible_Cross-Site_Scripting", "Sensitive_Data_Exposure",
   "Security_Misconfiguration", "Misconfiguration", "Missing_Security_Headers",
   "Information_Disclosure", "Vulnerable_Component", "Outdated_JavaScript_Library",
   "Cross-Site_Request_Forgery", "Missing_CSRF_Protection", "Server-Side_Request_Forgery",
   "Possible_Server-Side_Request_Forgery", "Open_Redirect", "Possible_Open_Redirect",
   "SAST", "Secret_Exposure", "Hardcoded_Secret", "Exposed_Sensitive_File",
   "Vulnerable_Dependency", "Possible_Command_Injection", "Command_Injection",
   "Possible_Code_Injection", "Code_Injection", "Insecure_Deserialization",
   "Possible_Path_Traversal", "Path_Traversal", "Broken_Access_Control",
   "Debug_Mode_Enabled", "Verbose_Error_Reporting_Enabled",
   "Insecure_Cookie_Configuration", "Static_Analysis_Finding", "Other", "Web", Blank}

OwnWords(label) ==
  CASE label \in {"SQL_Injection", "Possible_SQL_Injection"} -> {"sql", "sql_injection"}
    [] label = "Remote_Code_Execution" ->
         {"remote_code", "remote_code_execution", "code_execution"}
    [] label = "Unrestricted_File_Upload" -> {"upload", "file_upload"}
    [] label = "Default_Credentials" ->
         {"default_cred", "default_credential", "credential"}
    [] label = "Insecure_Direct_Object_Reference" -> {"insecure_direct_object"}
    [] label = "Broken_Access_Control" ->
         {"access_control", "broken_access", "broken_access_control"}
    [] label \in {"Cross-Site_Scripting", "Possible_Cross-Site_Scripting"} ->
         {"cross-site_script", "cross-site_scripting"}
    [] label = "Sensitive_Data_Exposure" ->
         {"sensitive", "exposure", "sensitive_data", "data_exposure",
          "sensitive_data_exposure"}
    [] label \in {"Security_Misconfiguration", "Misconfiguration"} -> {"misconfig"}
    [] label = "Missing_Security_Headers" ->
         {"security_header", "security_headers", "missing_security_header"}
    [] label = "Information_Disclosure" -> {"disclosure", "information_disclosure"}
    [] label = "Outdated_JavaScript_Library" -> {"outdated"}
    [] label = "Cross-Site_Request_Forgery" -> {"cross-site_request_forgery"}
    [] label = "Missing_CSRF_Protection" -> {"csrf"}
    [] label \in {"Server-Side_Request_Forgery", "Possible_Server-Side_Request_Forgery"} ->
         {"server-side_request", "server-side_request_forgery"}
    [] label \in {"Open_Redirect", "Possible_Open_Redirect"} -> {"redirect", "open_redirect"}
    [] label = "Secret_Exposure" -> {"secret", "exposure"}
    [] label = "Hardcoded_Secret" -> {"secret", "hardcoded", "hardcoded_secret"}
    [] label = "Exposed_Sensitive_File" -> {"sensitive", "exposed_sensitive_file"}
    [] label = "Vulnerable_Dependency" -> {"vulnerable_dependency", "dependency"}
    [] label \in {"Possible_Command_Injection", "Command_Injection"} ->
         {"command_injection", "command_inj"}
    [] label \in {"Possible_Code_Injection", "Code_Injection"} -> {"code_injection"}
    [] label = "Insecure_Deserialization" -> {"deserialization"}
    [] label \in {"Possible_Path_Traversal", "Path_Traversal"} ->
         {"path_travers", "path_traversal"}
    [] label = "Debug_Mode_Enabled" -> {"debug_mode"}
    [] label = "Verbose_Error_Reporting_Enabled" -> {"verbose_error"}
    [] label = "Insecure_Cookie_Configuration" -> {"cookie"}
    [] label \in {"Vulnerable_Component", "SAST", "Static_Analysis_Finding", "Other", "Web",
                  Blank} -> {}

Words ==
  [label \in OwnLabels \cup DOMAIN AgentWords |->
     IF label \in OwnLabels THEN OwnWords(label) ELSE AgentWords[label]]

Labels == DOMAIN Words

Has(label, subs) == Words[label] \cap subs # {}

(* The class of the first rule that knows a word of the label.             *)
FirstRule(rules, label, otherwise) ==
  LET hits == {i \in DOMAIN rules : Has(label, rules[i].words)} IN
  IF hits = {} THEN otherwise ELSE rules[Min(hits)].class

----------------------------------------------------------------------------
(* Severities.                                                             *)

Severities == {"critical", "high", "medium", "low", "informational"}

SeverityOrder(s) ==
  IF s \in Severities
  THEN [critical |-> 5, high |-> 4, medium |-> 3, low |-> 2, informational |-> 1][s]
  ELSE 0

(* mapNarrativeSeverity: what a model or a scanner writes as a severity. *)
MapNarrativeSeverity(s) ==
  IF s \in Severities THEN s ELSE IF s = "info" THEN "informational" ELSE "medium"

Highest(findings) ==
  {f.severity : f \in {g \in findings :
     \A h \in findings : SeverityOrder(h.severity) <= SeverityOrder(g.severity)}}

CalculateOverallSeverity(list) ==
  IF list = <<>> THEN "informational" ELSE CHOOSE s \in Highest(ToSet(list)) : TRUE

(* ExploitSuccessCount adds the verified findings to the steps that say    *)
(* they succeeded.                                                         *)
CalculateStatistics(list, successes) ==
  [total |-> Len(list),
   bySeverity |-> [s \in Severities |->
                     Len(SelectSeq(list, LAMBDA f : f.severity = s))],
   exploits |-> Len(SelectSeq(list, LAMBDA f : f.verified)) + successes]

----------------------------------------------------------------------------
(* Classes.                                                                *)

CanonicalRules ==
  << [words |-> {"sql"}, class |-> "sql_injection"],
     [words |-> {"xss", "cross-site_script"}, class |-> "xss"],
     [words |-> {"ssrf", "server-side_request"}, class |-> "ssrf"],
     [words |-> {"ssti", "template_inj"}, class |-> "ssti"],
     [words |-> {"upload", "rce", "remote_code", "command_inj", "web_shell", "webshell"},
      class |-> "rce"],
     [words |-> {"idor", "insecure_direct_object", "access_control", "broken_access"},
      class |-> "broken_access_control"],
     [words |-> {"redirect"}, class |-> "open_redirect"],
     [words |-> {"default_cred", "default_login", "default_admin"},
      class |-> "default_credentials"],
     [words |-> {"cookie", "samesite", "httponly", "security_header", "missing_header",
                 "misconfig", "csp", "cors"},
      class |-> "security_misconfiguration"],
     [words |-> {"sensitive", "exposure", "disclosure", "secret", "env_file", ".env"},
      class |-> "sensitive_data_exposure"],
     [words |-> {"path_travers", "directory_travers", "lfi"}, class |-> "path_traversal"] >>

(* canonicalVulnType: one label for each class, the first match wins; a    *)
(* type none of the rules knows is its own class.                          *)
CanonicalVulnType(type) == FirstRule(CanonicalRules, type, type)

CategoryRules ==
  << [words |-> {"sql_injection", "sqli"}, class |-> "SQL_Injection"],
     [words |-> {"cross-site_scripting", "xss"}, class |-> "Cross-Site_Scripting"],
     [words |-> {"server-side_request_forgery", "ssrf"},
      class |-> "Server-Side_Request_Forgery"],
     [words |-> {"open_redirect"}, class |-> "Open_Redirect"],
     [words |-> {"csrf", "cross-site_request_forgery"},
      class |-> "Cross-Site_Request_Forgery"],
     [words |-> {"file_upload"}, class |-> "Unrestricted_File_Upload"],
     [words |-> {"command_injection"}, class |-> "Command_Injection"],
     [words |-> {"code_injection", "eval"}, class |-> "Code_Injection"],
     [words |-> {"deserialization"}, class |-> "Insecure_Deserialization"],
     [words |-> {"path_traversal"}, class |-> "Path_Traversal"],
     [words |-> {"hardcoded_secret", "secret", "credential"}, class |-> "Secret_Exposure"],
     [words |-> {"debug_mode", "verbose_error", "display_errors", "cookie", "misconfig"},
      class |-> "Security_Misconfiguration"],
     [words |-> {"information_disclosure", "phpinfo", "info_disclosure"},
      class |-> "Information_Disclosure"],
     [words |-> {"idor", "insecure_direct_object", "broken_access", "authorization",
                 "access_control"},
      class |-> "Broken_Access_Control"],
     [words |-> {"sensitive_data", "data_exposure", "pii"},
      class |-> "Sensitive_Data_Exposure"] >>

(* vulnCategory: the category a dashboard groups a finding under, read     *)
(* from its title.                                                         *)
VulnCategory(title) == FirstRule(CategoryRules, title, "Other")

Unrated == [severity |-> Blank, cvss |-> 0]

Rate(severity, cvss) == [severity |-> severity, cvss |-> cvss]

CodeExecution ==
  {"remote_code_execution", "arbitrary_code", "rce", "web_shell", "webshell",
   "code_execution"}

\* What says that anyone gets in, and what says that the data is private.
Unauthenticated ==
  {"unauthenticated", "without_authentication", "no_authentication",
   "missing_authentication", "publicly_reachable", "publicly_accessible", "anyone_can",
   "any_client_can", "any_caller_can", "any_remote"}
Private ==
  {"ssn", "credit_card", "sensitive", "pii", "all_user", "full_user"}

(* classifyFinding: the fixed rating of a class, the most severe rule      *)
(* first; scores are tenths, CWE ids are left out.  Dependencies keep the  *)
(* score they came with.  f.said is the words of the description, which    *)
(* one rule reads too.                                                     *)
ClassifyFinding(f) ==
  LET has(subs) == Has(f.type, subs) \/ Has(f.title, subs)
      hasFull(subs) == has(subs) \/ f.said \cap subs # {}
  IN
  IF has({"vulnerable_dependency", "outdated", "dependency"}) THEN Unrated
  ELSE IF has({"file_upload", "unrestricted_upload"}) /\ has(CodeExecution) THEN
         Rate("critical", 98)
  ELSE IF has({"remote_code_execution", "command_injection", "code_injection",
            "arbitrary_code", "os_command", "default_credential", "default_creds",
            "default_account", "default_login"}) THEN Rate("critical", 98)
  ELSE IF hasFull(Unauthenticated) /\ hasFull(Private) THEN Rate("critical", 91)
  ELSE IF has({"sql_injection", "sqli", "file_upload"}) THEN Rate("high", 88)
  ELSE IF has({"server-side_request_forgery", "ssrf"}) THEN Rate("high", 86)
  ELSE IF has({"idor", "insecure_direct_object", "broken_access_control",
            "broken_authentication", "authentication_bypass", "access_control",
            "deserialization"}) THEN Rate("high", 81)
  ELSE IF has({"stored_xss", "stored_cross-site"}) THEN Rate("high", 71)
  ELSE IF has({"sensitive_data_exposure", "exposes_sensitive", "sensitive_pii",
            "personal_data", "payment_data", "hardcoded", "secret", "credential",
            "exposed_sensitive_file", ".env", ".git", "private_key"}) THEN
         Rate("high", 75)
  ELSE IF has({"csrf", "cross-site_request_forgery"}) THEN Rate("medium", 65)
  ELSE IF has({"xss", "cross-site_scripting", "open_redirect"}) THEN Rate("medium", 61)
  ELSE IF has({"debug_mode", "display_errors", "verbose_error", "debug_enabled",
            "information_disclosure", "phpinfo", "info_disclosure"}) THEN Rate("low", 37)
  ELSE IF \/ has({"missing_security_header", "security_headers", "directory_listing",
                 "autocomplete"})
          \/ has({"cookie"}) /\ has({"httponly", "secure_flag", "samesite"}) THEN
         Rate("low", 31)
  ELSE IF has({"version_disclosure", "technology_disclosure", "banner",
            "tech_stack_disclosure", "best_practice", "informational", "hardening"}) THEN
         Rate("informational", 0)
  ELSE Unrated

=============================================================================
