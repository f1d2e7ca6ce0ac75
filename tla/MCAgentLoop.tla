---------------------------- MODULE MCAgentLoop ----------------------------
(***************************************************************************)
(* Instances of AgentLoop for TLC: a crawl, an active test and another     *)
(* active test of one endpoint, a plain request, one without a target, one *)
(* out of scope and one the policy refuses.                                *)
(***************************************************************************)
EXTENDS AgentLoop

CONSTANTS crawl, sqlmap, http, get, proxy, foreign, refused,
          e1, e2, site, other, lan

AllRequests == {crawl, sqlmap, http, get, proxy, foreign, refused}

EndpointTable(R) ==
  [r \in R |-> IF r = sqlmap THEN e1 ELSE IF r \in {http, get} THEN e2 ELSE NoEndpoint]

HostTable(R) ==
  [r \in R |-> IF r = foreign THEN other ELSE IF r = proxy THEN NoHost ELSE site]

AllEndpoints == EndpointTable(AllRequests)
AllHosts     == HostTable(AllRequests)

(* A probe, a crawl, and one later prelude of two probes, which may follow  *)
(* a link out of scope.  The agent may ask for the same requests.          *)
ThreePreludes == <<1, 1, 2>>
ThreeProbes   == <<{get}, {crawl}, {http, foreign}>>
=============================================================================
