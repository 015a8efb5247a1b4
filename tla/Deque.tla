-------------------------------- MODULE Deque --------------------------------
(***************************************************************************)
(* What circular_buffer promises: a sequence that takes and gives elements *)
(* at both ends and has room for all of them.                              *)
(***************************************************************************)
EXTENDS Sequences, SequencesExt

CONSTANTS Values, NoElement

VARIABLES
  deque,    \* the elements, front first
  result    \* what the last pop returned

vars == <<deque, result>>

Init == deque = << >> /\ result = NoElement

PushBack(v) == deque' = Append(deque, v) /\ UNCHANGED result

PushFront(v) == deque' = Cons(v, deque) /\ UNCHANGED result

PopBack ==
  /\ deque # << >>
  /\ result' = Last(deque)
  /\ deque' = Front(deque)

PopFront ==
  /\ deque # << >>
  /\ result' = Head(deque)
  /\ deque' = Tail(deque)

PopNothing == deque = << >> /\ result' = NoElement /\ UNCHANGED deque

Next ==
  \/ \E v \in Values : PushBack(v) \/ PushFront(v)
  \/ PopBack \/ PopFront \/ PopNothing

Spec == Init /\ [][Next]_vars
==============================================================================
