--------------------------- MODULE MCLoginPrelude ---------------------------
(***************************************************************************)
(* Instances of LoginPrelude for TLC: two pairs of default credentials and *)
(* honest targets of every kind.  Those with a plain login form in the     *)
(* usual place also accept two users, or have failure markers on a page.   *)
(***************************************************************************)
EXTENDS LoginPrelude

MCDefault == <<"admin", "root">>

Plain(s) == s.find = "common" /\ ~s.odd /\ s.action = "login"
MCSites == {s \in SiteType : /\ Cardinality(s.accepts) + Cardinality(s.words) <= 2
                             /\ s.words # {} => Cardinality(s.accepts) = 1
                             /\ ~s.odd => s.reads
                             /\ ~Plain(s) => /\ s.landing = "guarded" /\ s.words = {}
                                             /\ Cardinality(s.accepts) <= 1
                             /\ s.action = "off" => s.after = None /\ s.inside = "bare"}

MCRequests ==
  {[auth |-> "form", url |-> u, verify |-> v, auto |-> FALSE, profile |-> TRUE] :
     u \in {"login", "off", None}, v \in {"landing", "off", None}} \cup
  {[auth |-> a, url |-> None, verify |-> None, auto |-> on, profile |-> TRUE] :
     a \in {"cookie", "none"}, on \in BOOLEAN}
=============================================================================
