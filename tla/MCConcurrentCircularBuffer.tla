---------------------- MODULE MCConcurrentCircularBuffer -----------------------
(* Instances of ConcurrentCircularBuffer for TLC. *)
EXTENDS ConcurrentCircularBuffer
==============================================================================
