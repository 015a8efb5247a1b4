---------------------- MODULE ConcurrentSinglyLinkedList ----------------------
(***************************************************************************)
(* data_structures/concurrent_singly_linked_list.hpp                       *)
(*                                                                         *)
(* A list that threads push to while others iterate over it, count, search *)
(* and copy it, or move it away.  Its nodes are never unlinked; they go    *)
(* when the list is destroyed.  A thread that pushes may have loaded a     *)
(* head that is moved away, destroyed and allocated again before its CAS.  *)
(*                                                                         *)
(* The program destroys a list, or assigns to it, only when no call on it  *)
(* is running and nobody walks over its nodes, which may have come from    *)
(* another list.  Everything else may happen at the same time.             *)
(***************************************************************************)
EXTENDS Naturals, FiniteSets, FiniteSetsExt, SequencesExt

CONSTANTS Threads, Lists, Nodes, Values, NoPtr

VARIABLES
  head,    \* _head, of the lists that exist
  value,   \* the elements of the nodes that are allocated
  next,    \* their next pointers
  op,      \* per thread: the operation it is in
  path     \* history, per thread: the nodes of the list when its walk began

vars == <<head, value, next, op, path>>

Pointers == Nodes \cup {NoPtr}
NodesFree == Nodes \ DOMAIN value

Idle == [kind |-> "idle"]
IsIdle(t) == op[t] = Idle
Walking(t) == op[t].kind \in {"size", "find", "copy"}

(* The nodes from p on.  No list has more of them than there are.          *)
Chain(p) ==
  LET at[i \in 0 .. Cardinality(Nodes)] ==
        IF i = 0 THEN p
        ELSE IF at[i - 1] = NoPtr THEN NoPtr ELSE next[at[i - 1]]
      Reached == {i \in DOMAIN at : at[i] # NoPtr}
  IN  [i \in 1 .. Cardinality(Reached) |-> at[i - 1]]

NodesOf(l) == ToSet(Chain(head[l]))

Init ==
  /\ head = [l \in Lists |-> NoPtr]
  /\ value = [n \in {} |-> NoPtr]
  /\ next = [n \in Nodes |-> NoPtr]
  /\ op = [t \in Threads |-> Idle]
  /\ path = [t \in Threads |-> << >>]

Begin(t, o) == IsIdle(t) /\ op' = [op EXCEPT ![t] = o]
Return(t) == op' = [op EXCEPT ![t] = Idle] /\ path' = [path EXCEPT ![t] = << >>]
With(f, x, y) == [z \in DOMAIN f \cup {x} |-> IF z = x THEN y ELSE f[z]]

------------------------------------------------------------------------------
(* Plausible bugs, each substituted for the definition it varies.          *)

RetryKeepsNext(t) ==
  op' = [op EXCEPT ![t].at = head[op[t].list]] /\ UNCHANGED next
SourceKept(k, l) == With(head, k, head[l])

------------------------------------------------------------------------------
(* push and emplace: the node is allocated, and its next is set to the     *)
(* head before the first CAS and after each one that fails.                *)
CallPush(t, l, v, n) ==
  /\ Begin(t, [kind |-> "push", list |-> l, item |-> n, at |-> head[l]])
  /\ n \in NodesFree
  /\ value' = With(value, n, v)
  /\ next' = [next EXCEPT ![n] = head[l]]
  /\ UNCHANGED <<head, path>>

NextPublished(t) == next

PushCas(t) ==
  /\ op[t].kind = "push" /\ head[op[t].list] = op[t].at
  /\ head' = [head EXCEPT ![op[t].list] = op[t].item]
  /\ next' = NextPublished(t)
  /\ Return(t)
  /\ UNCHANGED value

Relink(t) ==
  /\ op' = [op EXCEPT ![t].at = head[op[t].list]]
  /\ next' = [next EXCEPT ![op[t].item] = head[op[t].list]]

PushRetry(t) ==
  /\ op[t].kind = "push" /\ head[op[t].list] # op[t].at
  /\ Relink(t)
  /\ UNCHANGED <<head, value, path>>

(* begin(), in size, find, contains, and the copy constructor.             *)
Walk(t, l, o) == Begin(t, o) /\ path' = [path EXCEPT ![t] = Chain(head[l])]

CallSize(t, l) ==
  /\ Walk(t, l, [kind |-> "size", list |-> l, at |-> head[l], walked |-> 0])
  /\ UNCHANGED <<head, value, next>>
CallFind(t, l, v) ==
  /\ Walk(t, l, [kind |-> "find", list |-> l, at |-> head[l], walked |-> 0,
                 wanted |-> v])
  /\ UNCHANGED <<head, value, next>>

Target(t) == IF op[t].kind = "copy" THEN {op[t].target} ELSE {}
IsNew(k) == k \notin DOMAIN head /\ \A t \in Threads : k \notin Target(t)

Copy(k, l) == [kind |-> "copy", list |-> l, at |-> head[l], walked |-> 0,
               target |-> k, first |-> NoPtr, last |-> NoPtr]
CallCopy(t, k, l) ==
  IsNew(k) /\ Walk(t, l, Copy(k, l)) /\ UNCHANGED <<head, value, next>>

(* operator*, and operator++ of the iterator.                              *)
Found(t) ==
  op[t].kind = "find" /\ op[t].at # NoPtr /\ value[op[t].at] = op[t].wanted
Step(t) ==
  /\ op[t].kind \in {"size", "find"} /\ op[t].at # NoPtr /\ ~Found(t)
  /\ op' = [op EXCEPT ![t].at = next[@], ![t].walked = @ + 1]
  /\ UNCHANGED <<head, value, next, path>>

WalkReturn(t) ==
  /\ op[t].kind \in {"size", "find"} /\ (op[t].at = NoPtr \/ Found(t))
  /\ Return(t)
  /\ UNCHANGED <<head, value, next>>

(* prev->store(temp), where prev is the new list's head for the first.     *)
AppendCopy(t, n) ==
  /\ next' = [x \in Nodes |-> IF x = op[t].last THEN n ELSE
                              IF x = n THEN NoPtr ELSE next[x]]
  /\ op' = [op EXCEPT ![t].at = next[@], ![t].walked = @ + 1,
                      ![t].first = IF @ = NoPtr THEN n ELSE @, ![t].last = n]

CopyStep(t, n) ==
  /\ op[t].kind = "copy" /\ op[t].at # NoPtr
  /\ n \in NodesFree
  /\ value' = With(value, n, value[op[t].at])
  /\ AppendCopy(t, n)
  /\ UNCHANGED <<head, path>>

CopyReturn(t) ==
  /\ op[t].kind = "copy" /\ op[t].at = NoPtr
  /\ head' = With(head, op[t].target, op[t].first)
  /\ Return(t)
  /\ UNCHANGED <<value, next>>

(* The move constructors exchange the source's head for nullptr.           *)
Moved(k, l) == [With(head, k, head[l]) EXCEPT ![l] = NoPtr]

Move(k, l) ==
  IsNew(k) /\ head' = Moved(k, l) /\ UNCHANGED <<value, next, op, path>>

Quiet(l) ==
  \A t \in Threads : ~IsIdle(t) =>
    op[t].list # l /\ (Walking(t) => NodesOf(l) \cap ToSet(path[t]) = {})

Kept(l) == DOMAIN value \ NodesOf(l)
(* What the next pointer of a freed node was is of no importance any more. *)
Destructed(l) ==
  /\ Quiet(l)
  /\ value' = [n \in Kept(l) |-> value[n]]
  /\ next' = [n \in Nodes |-> IF n \in NodesOf(l) THEN NoPtr ELSE next[n]]

Destroy(l) ==
  /\ Destructed(l)
  /\ head' = [k \in DOMAIN head \ {l} |-> head[k]]
  /\ UNCHANGED <<op, path>>

(* The assignments destroy the list, and construct it anew in its place.   *)
MoveAssign(k, l) ==
  /\ k \in DOMAIN head \ {l} /\ Destructed(k)
  /\ head' = Moved(k, l)
  /\ UNCHANGED <<op, path>>

CopyAssign(t, k, l) ==
  /\ k \in DOMAIN head \ {l} /\ Destructed(k)
  /\ head' = [i \in DOMAIN head \ {k} |-> head[i]]
  /\ Walk(t, l, Copy(k, l))

Calls(t, l) ==
  \/ CallSize(t, l)
  \/ \E v \in Values : CallFind(t, l, v) \/ \E n \in Nodes : CallPush(t, l, v, n)
  \/ \E k \in Lists : CallCopy(t, k, l) \/ CopyAssign(t, k, l)

Next ==
  \/ \E t \in Threads :
       \/ PushCas(t) \/ PushRetry(t) \/ Step(t) \/ WalkReturn(t) \/ CopyReturn(t)
       \/ \E n \in Nodes : CopyStep(t, n)
       \/ \E l \in DOMAIN head : Calls(t, l)
  \/ \E l \in DOMAIN head :
       Destroy(l) \/ \E k \in Lists : Move(k, l) \/ MoveAssign(k, l)

Spec == Init /\ [][Next]_vars

------------------------------------------------------------------------------
(* Properties.                                                             *)

PushOps == [kind : {"push"}, list : Lists, item : Nodes, at : Pointers]
SizeOps == [kind : {"size"}, list : Lists, at : Pointers, walked : Nat]
FindOps == [kind : {"find"}, list : Lists, at : Pointers, walked : Nat,
            wanted : Values]
CopyOps == [kind : {"copy"}, list : Lists, at : Pointers, walked : Nat,
            target : Lists, first : Pointers, last : Pointers]

TypeOK ==
  /\ DOMAIN head \subseteq Lists /\ Range(head) \subseteq Pointers
  /\ DOMAIN value \subseteq Nodes /\ Range(value) \subseteq Values
  /\ next \in [Nodes -> Pointers]
  /\ op \in [Threads -> {Idle} \cup PushOps \cup SizeOps \cup FindOps \cup CopyOps]
  /\ path \in [Threads -> Seq(Nodes)]

Building(t) == IF op[t].kind = "copy" THEN Chain(op[t].first) ELSE
               IF op[t].kind = "push" THEN <<op[t].item>> ELSE << >>

(* Where a node is: at an index of a list that exists, or of what a thread *)
(* is copying or about to push.                                            *)
Indices(c, n) == {i \in DOMAIN c : c[i] = n}
InLists(n) ==
  UNION {{<<l, i>> : i \in Indices(Chain(head[l]), n)} : l \in DOMAIN head}
InCalls(n) ==
  UNION {{<<t, i>> : i \in Indices(Building(t), n)} : t \in Threads}

(* Every allocated node is in exactly one place, and the others in none.   *)
(* So none is freed twice, none leaks, and no chain has a cycle.           *)
NodesHaveOneOwner ==
  \A n \in Nodes :
    IF n \in DOMAIN value
    THEN \/ InCalls(n) = {} /\ \E x \in InLists(n) : InLists(n) = {x}
         \/ InLists(n) = {} /\ \E x \in InCalls(n) : InCalls(n) = {x}
    ELSE InLists(n) = {} /\ InCalls(n) = {}

(* A walk goes over exactly the nodes that were in the list when it began, *)
(* whatever is pushed, moved or copied meanwhile: size counts them all,    *)
(* and find has not passed an element that it looks for.                   *)
WalksSeeSnapshots ==
  \A t \in Threads : Walking(t) =>
    /\ op[t].walked <= Len(path[t])
    /\ op[t].at = IF op[t].walked = Len(path[t]) THEN NoPtr
                                                 ELSE path[t][op[t].walked + 1]
    /\ op[t].kind = "find" =>
         \A i \in 1 .. op[t].walked : value[path[t][i]] # op[t].wanted

(* The types, the owners of the nodes, and the walks.                      *)
StateInv == TypeOK /\ NodesHaveOneOwner /\ WalksSeeSnapshots

Elements(c) == [i \in 1 .. Len(c) |-> value[c[i]]]

Pushes == INSTANCE PushList WITH
  items <- [l \in DOMAIN head |-> Elements(Chain(head[l]))],
  view <- [t \in Threads |-> Elements(path[t])]

(* Each operation takes effect at one of its steps, and a copy is in the   *)
(* order of its source.                                                    *)
ImplementsPushList == Pushes!Spec
==============================================================================
