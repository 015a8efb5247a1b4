------------------------- MODULE MCHazardReclamation --------------------------
(* Instances of HazardReclamation for TLC.                                  *)
EXTENDS HazardReclamation, TLC

Symmetry == Permutations(Threads) \cup Permutations(Objects)
==============================================================================
