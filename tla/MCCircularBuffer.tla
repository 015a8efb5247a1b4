--------------------------- MODULE MCCircularBuffer ----------------------------
(* Instances of CircularBuffer for TLC. *)
EXTENDS CircularBuffer
==============================================================================
