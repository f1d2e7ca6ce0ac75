----------------------------- MODULE MCDashboard -----------------------------
(***************************************************************************)
(* Instances of Dashboard for TLC: two users and an administrator, reports *)
(* with two contents, one of them from before categories were written.     *)
(***************************************************************************)
EXTENDS Dashboard

MCWords == "Old_finding" :> {"sqli"}

Vuln(type, title, cvss) == [type |-> type, title |-> title, cvss |-> cvss]

MCContents ==
  { [overall |-> "high",
     list |-> <<Vuln("SAST", "Old_finding", 0), Vuln("SQL_Injection", "SQL_Injection", 88)>>],
    [overall |-> "informational", list |-> <<>>] }

\* The second day begins a month.
MCMonthStart == [d \in Days |-> IF d = 0 THEN -20 ELSE 1]

Ask(user, range, limit) ==
  [user |-> user, range |-> range, from |-> None, to |-> None, limit |-> limit]

Between(user, from, to, limit) ==
  [user |-> user, range |-> "custom", from |-> from, to |-> to, limit |-> limit]

MCQueries ==
  { Ask(All, "all", 1),
    Ask("ann", "today", 1),
    Ask(All, "this_week", 2),
    Ask("ann", "7d", 0),
    Ask("bob", "30d", None),
    Ask(All, "this_month", 1),
    Ask(All, "yesterday", 0),
    Between("ann", 1, None, 1),
    Between(All, 3, 1, 1) }

=============================================================================
