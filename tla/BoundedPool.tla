----------------------------- MODULE BoundedPool -----------------------------
(***************************************************************************)
(* What concurrent_circular_buffer promises whatever the threads do: a     *)
(* pool of at most Capacity elements.  push blocks while there is no room, *)
(* pop while there is nothing to take; an element goes in and comes out in *)
(* one step each.                                                          *)
(***************************************************************************)
EXTENDS Naturals, FiniteSets

CONSTANTS Threads, Values, Dummy, Capacity

VARIABLES
  pool,      \* the elements in the buffer
  outside,   \* the elements the threads may push
  op,        \* per thread: "idle", "push" or "pop"
  arg        \* per thread: the element it is pushing, else Dummy

vars == <<pool, outside, op, arg>>

Init ==
  /\ pool = {}
  /\ outside = Values
  /\ op = [t \in Threads |-> "idle"]
  /\ arg = [t \in Threads |-> Dummy]

CallPush(t, v) ==
  /\ op[t] = "idle" /\ v \in outside
  /\ op' = [op EXCEPT ![t] = "push"]
  /\ arg' = [arg EXCEPT ![t] = v]
  /\ outside' = outside \ {v}
  /\ UNCHANGED pool

Insert(t) ==
  /\ op[t] = "push" /\ Cardinality(pool) < Capacity
  /\ op' = [op EXCEPT ![t] = "idle"]
  /\ arg' = [arg EXCEPT ![t] = Dummy]
  /\ pool' = pool \cup {arg[t]}
  /\ UNCHANGED outside

CallPop(t) ==
  /\ op[t] = "idle"
  /\ op' = [op EXCEPT ![t] = "pop"]
  /\ UNCHANGED <<pool, outside, arg>>

Take(t, v) ==
  /\ op[t] = "pop" /\ v \in pool
  /\ op' = [op EXCEPT ![t] = "idle"]
  /\ pool' = pool \ {v}
  /\ outside' = outside \cup {v}
  /\ UNCHANGED arg

Next ==
  \E t \in Threads :
    \/ Insert(t) \/ CallPop(t)
    \/ \E v \in Values : CallPush(t, v) \/ Take(t, v)

Spec == Init /\ [][Next]_vars
==============================================================================
