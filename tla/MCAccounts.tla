----------------------------- MODULE MCAccounts -----------------------------
(***************************************************************************)
(* Instances of Accounts for TLC.  Requests are interchangeable, and so    *)
(* are tokens.                                                             *)
(***************************************************************************)
EXTENDS Accounts, TLC

CONSTANTS root, ann, r1, r2, t1, t2, t3

(* The seeded administrator, and an account yet to be created. *)
Seeded == [u \in Users |-> IF u = root THEN "admin" ELSE "none"]

AccountSymmetry == Permutations(Requests) \cup Permutations(Tokens)

(* What of a state can still matter.  A session lives while it has a usable *)
(* token or a refresh in flight; nothing asks a token that is not usable    *)
(* for its password or for its lateness, nor whether a dead session was     *)
(* raced for or revoked.                                                    *)
Living(s) ==
  \/ \E t \in Tokens : Live(t) /\ tokens[t].session = s
  \/ \E r \in Requests : Refreshing(r) /\ req[r].session = s

Kept(t) ==
  IF Live(t) \/ ~ Issued(t) THEN tokens[t]
  ELSE [status |-> tokens[t].status, user |-> tokens[t].user,
        session |-> IF Living(tokens[t].session) THEN tokens[t].session ELSE NoToken]

AccountView ==
  <<accounts, req, unrevoked, outrun, [t \in Tokens |-> Kept(t)],
    {s \in raced : Living(s)}, {s \in purged : Living(s)}>>
=============================================================================
