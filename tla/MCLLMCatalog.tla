---------------------------- MODULE MCLLMCatalog ----------------------------
(***************************************************************************)
(* Instances of LLMCatalog for TLC: two providers whose names may differ   *)
(* only in case, two model rows, two administrators at once.               *)
(***************************************************************************)
EXTENDS LLMCatalog, TLC

CONSTANTS x1, x2, a1, a2, c1, u1

MCFold == [n \in Names |-> IF n \in {"OpenAI", "openai"} THEN "openai" ELSE n]

NoPatch == [name |-> Keep, conf |-> Keep, key |-> Keep, enabled |-> Keep]
NoModelPatch == [model |-> Keep, enabled |-> Keep, price |-> Keep]

(* A new key, a rename, switching off.                                      *)
MCPatches == {[NoPatch EXCEPT !.key = "k2"],
              [NoPatch EXCEPT !.name = "openai"], [NoPatch EXCEPT !.enabled = FALSE]}
MCModelPatches == {[NoModelPatch EXCEPT !.model = "m", !.price = "p"],
                   [NoModelPatch EXCEPT !.enabled = FALSE]}
MCCreations == {[name |-> "openai", conf |-> "c1", key |-> "k1", enabled |-> TRUE],
                [name |-> "openai", conf |-> "c1", key |-> NoKey, enabled |-> FALSE]}

(* Calls and selections touch nothing in common but the catalogue, which    *)
(* neither changes: they are explored apart from one another.               *)
ReadersApart == \/ /\ \A c \in Scans : call[c] = IdleCall
                   /\ \A f \in Folded : cache[f] = None
                \/ \A u \in Users : pick[u].pc = "idle"

CatalogSymmetry == Permutations(Admins) \cup Permutations(Mids)
=============================================================================
