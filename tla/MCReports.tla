------------------------------ MODULE MCReports ------------------------------
(***************************************************************************)
(* Instances of Reports for TLC: short transcripts over a pool of steps    *)
(* that meet every detector, static scans over two files, and answers that *)
(* claim up to two findings, true, inflated or invented.                   *)
(***************************************************************************)
EXTENDS Reports

MCWords ==
  "sqli" :> {"sql", "sqli"} @@ "Admin_takeover" :> {}
  @@ "php.authorization" :> {"authorization"}
  @@ "php.sqli" :> {"sql"} @@ "php.debug" :> {"debug"} @@ "php.other" :> {}
  @@ "Default_Login" :> {"default_login"}

MCIds == {"1", "2"}
MCReadable == {<<"a.php">>}
MCLineCount == (<<"a.php">> :> 16)

Req(at) == [PlainStep EXCEPT !.at = at]

MCPool ==
  { [Req(<<"item">>) EXCEPT !.proved = TRUE],
    [Req(<<"item">>) EXCEPT !.sent = {"or_true"}, !.length = 900],
    [Req(<<"item">>) EXCEPT !.sent = {"and_false"}, !.length = 100],
    [Req(<<"item">>) EXCEPT !.sent = {"union"}, !.status = 500],
    [Req(<<"login">>) EXCEPT !.method = "POST", !.status = 302,
                             !.sent = {"login_bypass"}, !.lands = "home"],
    [Req(<<"upload">>) EXCEPT !.method = "POST", !.sent = {"script_upload"}],
    [Req(<<"upload", "x">>) EXCEPT !.shown = {"command_output"}],
    [Req(<<"users", "1">>) EXCEPT !.owners = {"ann"}],
    [Req(<<"users", "2">>) EXCEPT !.owners = {"bob"}],
    [Req(<<".env">>) EXCEPT !.shown = {"env_secret"}],
    [Req(<<".git", "HEAD">>) EXCEPT !.shown = {"git_plumbing"}],
    [Req(Root) EXCEPT !.headers = {"Server"}, !.shown = {"jquery_1"}],
    [Req(<<"pay">>) EXCEPT !.method = "POST", !.sent = {"internal_fetch"}],
    [Req(<<"login">>) EXCEPT !.tool = "default_cred_login", !.accepted = TRUE],
    [Req(Root) EXCEPT !.tool = "httpx_probe",
       !.lines = <<[banner |-> "versioned", jquery |-> 1, at |-> Root]>>],
    [Req(<<"item">>) EXCEPT !.tool = "sqlmap_scan", !.lines = <<[kind |-> "affirms", at |-> Root]>>] }

Scanned ==
  { <<[Req(Root) EXCEPT !.tool = "nuclei_scan",
         !.lines = <<[json |-> TRUE, key |-> "t1", noise |-> FALSE, type |-> "Misconfiguration",
                      at |-> <<"admin">>, severity |-> "info"],
                     [json |-> TRUE, key |-> "t2", noise |-> TRUE, type |-> "Misconfiguration",
                      at |-> Root, severity |-> "info"]>>],
      [Req(Root) EXCEPT !.tool = "dalfox_xss",
         !.lines = <<[json |-> TRUE, key |-> "q", kind |-> "R", at |-> <<"find">>],
                     [json |-> TRUE, key |-> "q", kind |-> "V", at |-> <<"find">>]>>]>>,
    <<[Req(Root) EXCEPT !.tool = "httpx_probe",
         !.lines = <<[banner |-> "unparsable", jquery |-> 0, at |-> Root]>>],
      [Req(Root) EXCEPT !.tool = "httpx_probe",
         !.lines = <<[banner |-> "versioned", jquery |-> 1, at |-> Root]>>]>>,
    <<[Req(Root) EXCEPT !.tool = "nuclei_scan", !.count = 2],
      [Req(<<"find">>) EXCEPT !.tool = "dalfox_xss", !.count = 1]>> }

Claim(type, at, severity) ==
  [type |-> type, title |-> type, at |-> at, line |-> 0, severity |-> severity,
   verified |-> TRUE, impact |-> TRUE, payload |-> FALSE, said |-> {}]

Doubted(c) == [c EXCEPT !.verified = FALSE]

MCClaims ==
  LET sqli == Claim("sqli", <<"item">>, "critical")
      access == Claim("Broken_Access_Control", <<"users", "1">>, "critical")
      takeover == Claim("Admin_takeover", <<"admin">>, "critical")
  IN { <<>>, <<sqli>>, <<Doubted(sqli), sqli>>, <<Doubted(access), [access EXCEPT !.at = <<"users", "1", "2">>]>>,
       <<takeover, [sqli EXCEPT !.at = NoLocation, !.payload = TRUE]>>,
       <<Claim("Default_Login", <<"login">>, "low"), Claim("", <<"x">>, "low")>> }

\* Objects read more than once: the latest answer for each counts.
MCReads ==
  { [Req(<<"users", "1">>) EXCEPT !.owners = {"ann"}],
    [Req(<<"users", "2">>) EXCEPT !.owners = {"bob"}],
    [Req(<<"users", "1">>) EXCEPT !.owners = {"bob"}],
    [Req(<<"users", "2">>) EXCEPT !.owners = {}] }

MCDynamic ==
  [kind : {"dynamic"},
   steps : BoundedSeq(MCPool, 2) \cup BoundedSeq(MCReads, 3) \cup Scanned,
   claims : MCClaims]

----------------------------------------------------------------------------
File == <<"a.php">>
Lib == <<"lib.js">>

Semgrep(rule, line) ==
  [rule |-> rule, file |-> File, line |-> line, level |-> "error", said |-> {}]

Tool(tool, raws) == [PlainStep EXCEPT !.tool = tool, !.raw = raws]

MCStaticSteps ==
  LET semgrep == { <<>>, <<Semgrep("php.sqli", 1)>>, <<Semgrep("php.other", 5)>>,
                   <<Semgrep("php.sqli", 5), Semgrep("php.debug", 7)>>,
                   <<Semgrep("php.authorization", 4), Semgrep("php.sqli", 20)>> }
      leaks == { <<>>, <<[exposure |-> FALSE, file |-> File, line |-> 6, said |-> {}]>>,
                 <<[exposure |-> TRUE, file |-> File, line |-> 0,
                    said |-> {"publicly_accessible"}]>> }
      osv == { <<>>, <<[file |-> Lib, score |-> 95], [file |-> Lib, score |-> -1]>> }
  IN {<<Tool("semgrep_scan", s), Tool("gitleaks_scan", l), Tool("osv_scan", o)>> :
        s \in semgrep, l \in leaks, o \in osv}

Read(type, line) == [Claim(type, File, "high") EXCEPT !.line = line]

MCStaticClaims ==
  { <<>>, <<Read("SQL_Injection", 1)>>, <<Read("SQL_Injection", 5)>>,
    <<Read("SQL_Injection", 7), Read("Broken_Access_Control", 8)>>,
    <<[Read("", 21) EXCEPT !.title = "Admin_takeover"], Read("SQL_Injection", 0)>>,
    <<Claim("Admin_takeover", NoLocation, "info")>> }

MCStatic == [kind : {"sast"}, steps : MCStaticSteps, claims : MCStaticClaims]

MCScans == MCDynamic \cup MCStatic

=============================================================================
