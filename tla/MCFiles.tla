------------------------------ MODULE MCFiles -------------------------------
(***************************************************************************)
(* Files.tla for TLC: two names, two clusters, one standard descriptor and *)
(* two others, so that the table is full, a FIL is shared, and a slot and  *)
(* a cluster of a removed file are used again.                             *)
(***************************************************************************)
EXTENDS Files, TLC

Symmetry == Permutations(Names) \cup Permutations(Clusters)
=============================================================================
