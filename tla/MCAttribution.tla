---------------------------- MODULE MCAttribution ----------------------------
(***************************************************************************)
(* An instance of Attribution for TLC; pods and addresses are model values *)
(* no action tells apart.                                                  *)
(***************************************************************************)
EXTENDS Attribution, TLC

Symmetry == Permutations(Pods) \cup Permutations(Ips)
=============================================================================
