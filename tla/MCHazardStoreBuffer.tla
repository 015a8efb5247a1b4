------------------------- MODULE MCHazardStoreBuffer --------------------------
(* Instances of HazardStoreBuffer for TLC.                                  *)
EXTENDS HazardStoreBuffer, TLC

Symmetry == Permutations(Threads) \cup Permutations(Objects)
==============================================================================
