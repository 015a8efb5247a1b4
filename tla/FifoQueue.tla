------------------------------ MODULE FifoQueue ------------------------------
(***************************************************************************)
(* What many_producer_single_consumer_buffer promises its users, without   *)
(* the two halves, the flag bit and the dummy elements: a FIFO queue that  *)
(* every producer may append to, from which one consumer takes the oldest  *)
(* element.  Each operation takes effect in one step.                      *)
(*                                                                         *)
(* The capacity is soft.  The consumer drains one half while the producers *)
(* fill the other, so a push may be refused as soon as Capacity elements   *)
(* are queued, and is never accepted once 2 * Capacity are.                *)
(***************************************************************************)
EXTENDS Naturals, Sequences

CONSTANTS
  Producers,   \* the threads that push
  Values,      \* the elements they push
  NoElement,   \* what an unsuccessful pop returns (std::nullopt)
  Capacity     \* the capacity the buffer was constructed with

VARIABLES
  queue,       \* the queued elements, oldest first
  pushResult,  \* what the last push of each producer returned (or will)
  popResult    \* what the last pop returned

vars == <<queue, pushResult, popResult>>

Init ==
  /\ queue = << >>
  /\ pushResult = [p \in Producers |-> TRUE]
  /\ popResult = NoElement

Accept(p, v) ==
  /\ Len(queue) < 2 * Capacity
  /\ queue' = Append(queue, v)
  /\ pushResult' = [pushResult EXCEPT ![p] = TRUE]
  /\ UNCHANGED popResult

Refuse(p) ==
  /\ Len(queue) >= Capacity
  /\ pushResult' = [pushResult EXCEPT ![p] = FALSE]
  /\ UNCHANGED <<queue, popResult>>

Take ==
  /\ queue # << >>
  /\ popResult' = Head(queue)
  /\ queue' = Tail(queue)
  /\ UNCHANGED pushResult

FindEmpty ==
  /\ queue = << >>
  /\ popResult' = NoElement
  /\ UNCHANGED <<queue, pushResult>>

Next ==
  \/ \E p \in Producers : Refuse(p) \/ \E v \in Values : Accept(p, v)
  \/ Take
  \/ FindEmpty

Spec == Init /\ [][Next]_vars
==============================================================================
