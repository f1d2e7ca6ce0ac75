--------------------------- MODULE MCChatSessions ---------------------------
(***************************************************************************)
(* Instances of ChatSessions for TLC: two chat requests beside the loop of *)
(* one scan.                                                               *)
(***************************************************************************)
EXTENDS ChatSessions

CONSTANTS q1, q2, l1

(* Loops and requests share nothing but the program: they are explored      *)
(* apart from one another.                                                  *)
LoopsApart == \/ \A r \in Requests : req[r] = Fresh
              \/ \A l \in Loops : call[l] = Idle /\ charged[l] = 0 /\ ctx[l] = "live"

(* A provider that reports a total and one (Anthropic) that reports none.   *)
MCUsages == {[in |-> 1, out |-> 1, total |-> 0], [in |-> 1, out |-> 0, total |-> 1]}
=============================================================================
