----------------------------- MODULE ScanRecord -----------------------------
(***************************************************************************)
(* What the scan table promises its readers, whatever the server does:     *)
(* every record appears as "running", is settled in a terminal state, and  *)
(* never disappears or runs again (internal/domain/scan.go, the comment on *)
(* the statuses).  Rewrites says whether a settled record may be given     *)
(* another terminal state.                                                 *)
(***************************************************************************)
CONSTANTS Scans, Rewrites

VARIABLE status

Settled == {"completed", "failed", "cancelled"}

TypeOK == status \in [Scans -> {"absent", "running"} \cup Settled]

Init == status = [s \in Scans |-> "absent"]

(* A submission is accepted. *)
Submit(s) ==
  /\ status[s] = "absent"
  /\ status' = [status EXCEPT ![s] = "running"]

(* The run of s ends, is cancelled or is given up. *)
Settle(s) ==
  /\ \/ status[s] = "running"
     \/ Rewrites /\ status[s] \in Settled
  /\ \E t \in Settled : status' = [status EXCEPT ![s] = t]

(* Recovery at boot fails a set of running scans in one statement. *)
FailAll(S) ==
  /\ \A s \in S : status[s] = "running"
  /\ status' = [s \in Scans |-> IF s \in S THEN "failed" ELSE status[s]]

Next ==
  \/ \E s \in Scans : Submit(s) \/ Settle(s)
  \/ \E S \in SUBSET Scans : FailAll(S)

Spec == Init /\ [][Next]_status
=============================================================================
