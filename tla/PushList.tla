------------------------------- MODULE PushList -------------------------------
(***************************************************************************)
(* What concurrent_singly_linked_list promises: pushes put elements in     *)
(* front of a list; a list can be moved to another, which leaves it empty, *)
(* copied and destroyed.  A copy is what the list was when copying began.  *)
(***************************************************************************)
EXTENDS Sequences, SequencesExt

CONSTANTS Threads, Lists, Values

VARIABLES
  items,    \* the lists that exist, each a sequence of elements
  view      \* per thread: the elements that its iteration or copy is to see

vars == <<items, view>>

Init ==
  /\ items = [l \in Lists |-> << >>]
  /\ view = [t \in Threads |-> << >>]

Push(l, v) == UNCHANGED view /\ items' = [items EXCEPT ![l] = <<v>> \o @]

WithList(k, s) == [l \in DOMAIN items \cup {k} |-> IF l = k THEN s ELSE items[l]]
Without(k) == [l \in DOMAIN items \ {k} |-> items[l]]

(* What k held before, if it existed, is gone.                             *)
Move(k, l) ==
  /\ k # l
  /\ UNCHANGED view
  /\ items' = [WithList(k, items[l]) EXCEPT ![l] = << >>]

Destroy(l) == UNCHANGED view /\ items' = Without(l)

Looks(t, l) == view' = [view EXCEPT ![t] = items[l]]
Look(t, l) == Looks(t, l) /\ UNCHANGED items
LookInstead(t, k, l) == k # l /\ Looks(t, l) /\ items' = Without(k)

Copied(t, k) ==
  /\ k \notin DOMAIN items
  /\ view' = [view EXCEPT ![t] = << >>]
  /\ items' = WithList(k, view[t])

Forget(t) == view' = [view EXCEPT ![t] = << >>] /\ UNCHANGED items

Next ==
  \/ \E l \in DOMAIN items :
       \/ Destroy(l)
       \/ \E v \in Values : Push(l, v)
       \/ \E k \in Lists : Move(k, l)
  \/ \E t \in Threads :
       \/ Forget(t)
       \/ \E l \in DOMAIN items :
            Look(t, l) \/ \E k \in Lists : LookInstead(t, k, l)
       \/ \E k \in Lists : Copied(t, k)

Spec == Init /\ [][Next]_vars
==============================================================================
