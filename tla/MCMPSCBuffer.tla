---------------------------- MODULE MCMPSCBuffer -----------------------------
(* Instances of MPSCBuffer for TLC. *)
EXTENDS MPSCBuffer
==============================================================================
