----------------------------- MODULE ErasableList -----------------------------
(***************************************************************************)
(* What protected_singly_linked_list promises: push adds an element, erase *)
(* removes one with the value it is given.  An erase may give up only if   *)
(* no such element has been in the list all the time since it was called.  *)
(* Where elements lie and when their memory goes does not appear here.     *)
(***************************************************************************)
EXTENDS Naturals

CONSTANTS Threads, Objects, Values

VARIABLES
  items,    \* the elements in the list, each with its value
  call,     \* per thread: the operation it is in and its argument, or Idle
  stable    \* per thread: the elements it looks for, there since its call

vars == <<items, call, stable>>

Idle == <<"idle">>
Calls == ({"push", "erase"} \X Values) \cup {<<"size">>, <<"iterate">>}

LookedFor(c) ==
  {e \in DOMAIN items : c[1] \in {"size", "iterate"} \/ (c[1] = "erase" /\ items[e] = c[2])}

Init ==
  /\ items = [e \in {} |-> Idle]
  /\ call = [t \in Threads |-> Idle]
  /\ stable = [t \in Threads |-> {}]

Call(t, c) ==
  /\ call[t] = Idle
  /\ call' = [call EXCEPT ![t] = c]
  /\ stable' = [stable EXCEPT ![t] = LookedFor(c)]
  /\ UNCHANGED items

Return(t) == call' = [call EXCEPT ![t] = Idle]

Push(t, e) ==
  /\ call[t][1] = "push" /\ Return(t)
  /\ e \notin DOMAIN items
  /\ items' = [x \in DOMAIN items \cup {e} |->
                 IF x = e THEN call[t][2] ELSE items[x]]
  /\ UNCHANGED stable

Erase(t, e) ==
  /\ call[t][1] = "erase" /\ Return(t)
  /\ e \in DOMAIN items /\ items[e] = call[t][2]
  /\ items' = [x \in DOMAIN items \ {e} |-> items[x]]
  /\ stable' = [u \in Threads |-> IF u = t THEN {} ELSE stable[u] \ {e}]

NotFound(t) ==
  /\ call[t][1] = "erase" /\ Return(t)
  /\ stable[t] = {}
  /\ UNCHANGED <<items, stable>>

Counted(t) ==
  /\ call[t][1] \in {"size", "iterate"} /\ Return(t)
  /\ stable' = [stable EXCEPT ![t] = {}]
  /\ UNCHANGED items

(* The list is destroyed, and an empty one takes its place.                *)
Clear ==
  /\ \A t \in Threads : call[t] = Idle
  /\ items' = [e \in {} |-> Idle]
  /\ UNCHANGED <<call, stable>>

Next ==
  \/ Clear
  \/ \E t \in Threads :
       \/ NotFound(t) \/ Counted(t)
       \/ \E c \in Calls : Call(t, c)
       \/ \E e \in Objects : Push(t, e) \/ Erase(t, e)

Spec == Init /\ [][Next]_vars
==============================================================================
