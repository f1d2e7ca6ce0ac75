-------------------------- MODULE MCScanLifecycle --------------------------
(***************************************************************************)
(* Instances of ScanLifecycle for TLC.  Two submissions of one user are    *)
(* enough for every interference between two scans: scans of different     *)
(* users share nothing but the price.                                      *)
(***************************************************************************)
EXTENDS ScanLifecycle, TLC

CONSTANT alice

(* Two dynamic scans of one user are interchangeable. *)
ScanSymmetry == Permutations(Scans)

OwnedByAlice == [s \in Scans |-> alice]
=============================================================================
