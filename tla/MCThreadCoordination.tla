------------------------ MODULE MCThreadCoordination -------------------------
(* Instances of ThreadCoordination for TLC. *)
EXTENDS ThreadCoordination

(* Two calls with two stages. *)
TwoStagesEach == <<2, 2>>
==============================================================================
