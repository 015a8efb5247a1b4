---------------------- MODULE MCProtectedSinglyLinkedList ----------------------
(* Instances of ProtectedSinglyLinkedList for TLC.                          *)
EXTENDS ProtectedSinglyLinkedList, TLC

Symmetry == Permutations(Threads) \cup Permutations(Objects)
==============================================================================
