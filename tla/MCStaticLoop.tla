---------------------------- MODULE MCStaticLoop ----------------------------
(***************************************************************************)
(* Instances of StaticLoop for TLC: one file of three lines, the last past  *)
(* the byte limit, is enough for a region to start, to end, to be inverted *)
(* or cut off inside it, and to lie beyond it.                             *)
(***************************************************************************)
EXTENDS StaticLoop

CONSTANTS main, osv, nmap

ThreeLines == [p \in {main} |-> 3]
TwoLines   == [p \in {main} |-> 2]
=============================================================================
