------------------------ MODULE MCCountingReclamation ------------------------
(* Instances of CountingReclamation for TLC. *)
EXTENDS CountingReclamation
==============================================================================
