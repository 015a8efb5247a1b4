------------------------------- MODULE Barrier --------------------------------
(***************************************************************************)
(* What the threads of thread_coordination.hpp may rely on: a barrier that *)
(* is reused.  A thread arrives at its next barrier and crosses it once    *)
(* every other thread has arrived there too.                               *)
(***************************************************************************)
EXTENDS Naturals

CONSTANT Threads

VARIABLES
  arrived,   \* per thread: how many barriers it has reached
  crossed    \* per thread: how many of them it has left behind

vars == <<arrived, crossed>>

Init == arrived = [t \in Threads |-> 0] /\ crossed = [t \in Threads |-> 0]

Arrive(t) ==
  /\ arrived[t] = crossed[t]
  /\ arrived' = [arrived EXCEPT ![t] = @ + 1]
  /\ UNCHANGED crossed

Cross(t) ==
  /\ crossed[t] < arrived[t]
  /\ \A u \in Threads : arrived[t] <= arrived[u]
  /\ crossed' = [crossed EXCEPT ![t] = @ + 1]
  /\ UNCHANGED arrived

Next == \E t \in Threads : Arrive(t) \/ Cross(t)

Spec == Init /\ [][Next]_vars
==============================================================================
