----------------------- MODULE ProtectedSinglyLinkedList -----------------------
(***************************************************************************)
(* data_structures/protected_singly_linked_list.hpp                        *)
(*                                                                         *)
(* push puts a node in front.  erase marks the next pointer of a node,     *)
(* after which the node no longer counts.  Whoever walks over it later     *)
(* unlinks it, lets its next pointer point to itself, which tells threads  *)
(* that are still there that they have left the list, and retires it.      *)
(* Walks protect the nodes they stand on.                                  *)
(*                                                                         *)
(* The reclamation manager is taken at its word (SafeReclamation): a node  *)
(* that has been retired is destroyed any time later, but not while it is  *)
(* guarded by a thread which guarded it before it was retired.  A guard    *)
(* that comes later is not trusted.  protect is that of hazard_manager, a  *)
(* load and reloads until two agree.  Addresses are used again.            *)
(*                                                                         *)
(* The program iterates, and destroys the list, only when no erase is      *)
(* running and every marked node has been taken out: the iterators and the *)
(* destructor follow marked pointers.                                      *)
(*                                                                         *)
(* find, contains and push_or_find cannot be instantiated and are left out.*)
(***************************************************************************)
EXTENDS Integers, FiniteSets

CONSTANTS
  Threads,
  Objects,  \* the addresses of nodes
  Values,   \* the elements
  Erased,   \* bound: the elements that erase is called with
  NoPtr     \* nullptr

ASSUME NoPtrAssumption == NoPtr \notin Objects
ASSUME ObjectsAssumption == IsFiniteSet(Objects)
ASSUME ValuesAssumption == Values # {} /\ Erased \subseteq Values

VARIABLES
  head,      \* _head
  next,      \* per node: next, a pointer and its mark
  value,     \* per node: value
  mem,       \* per address: "free", "private", "live" or "retired"
  pc,        \* per thread: the next step of the operation it is in
  loc,       \* per thread: the local variables of that operation
  stable,    \* history, per thread: what it looks for, there since its call
  disturbed, \* history, per thread: elements came or went since its call
  changed,   \* history, per thread: others changed the list in this attempt
  doubled    \* history: an erase has marked a node which had left the list

listVars == <<head, next, value, mem>>
history == <<stable, disturbed, changed, doubled>>
vars == <<listVars, pc, loc, history>>

Pointers == Objects \cup {NoPtr}
Link(p, m) == [ptr |-> p, mark |-> m]
Null == Link(NoPtr, FALSE)

(* A guard: its pointer, the mark in it, and whether the manager's promise *)
(* covers it.                                                              *)
Guard(l) == [ptr |-> l.ptr, mark |-> l.mark,
             safe |-> l.ptr \in Objects /\ mem[l.ptr] = "live"]
NoGuard == [ptr |-> NoPtr, mark |-> FALSE, safe |-> FALSE]

(* op: the operation; elem: its argument; prev, curr, next: the guards;    *)
(* temp: what protect has announced, or the node that push or remove work  *)
(* on; count: i of size; removing: in the loop of remove.                  *)
NoLoc == [op |-> "idle", elem |-> CHOOSE v \in Values : TRUE,
          prev |-> NoGuard, curr |-> NoGuard, next |-> NoGuard,
          temp |-> NoPtr, count |-> 0, removing |-> FALSE]

Goto(t, step, l) == pc' = [pc EXCEPT ![t] = step] /\ loc' = [loc EXCEPT ![t] = l]
Return(t) == Goto(t, "idle", NoLoc)

(* The nodes that count as elements.                                       *)
IsElement(o) == mem[o] = "live" /\ ~next[o].mark /\ next[o].ptr # o
Elements == {o \in Objects : IsElement(o)}

Guarded(t) ==
  {g.ptr : g \in {x \in {loc[t].prev, loc[t].curr, loc[t].next} : x.safe}}

(* The pointers that lead from _head to the end of the list.               *)
After(S) == S \cup {next[o].ptr : o \in S \ {NoPtr}}
Chain ==
  LET Reached[n \in 0 .. Cardinality(Objects)] ==
        IF n = 0 THEN {head} ELSE After(Reached[n - 1])
  IN  Reached[Cardinality(Objects)]

------------------------------------------------------------------------------
(* Plausible bugs, each substituted for the definition it varies.          *)

PointsToMarked(l, o) == l.ptr = o
FoundThoughMarked(t, n) ==
  loc[t].op = "erase" /\ value[loc[t].curr.ptr] = loc[t].elem
EndThoughMarked(n) == n.ptr = NoPtr
BeforeIsHead(t) == Link(head, FALSE)

------------------------------------------------------------------------------
Init ==
  /\ head = NoPtr
  /\ next = [o \in Objects |-> Null]
  /\ value = [o \in Objects |-> NoLoc.elem]
  /\ mem = [o \in Objects |-> "free"]
  /\ pc = [t \in Threads |-> "idle"]
  /\ loc = [t \in Threads |-> NoLoc]
  /\ stable = [t \in Threads |-> {}]
  /\ disturbed = [t \in Threads |-> FALSE]
  /\ changed = [t \in Threads |-> FALSE]
  /\ doubled = FALSE

(* What the operations under way may rely on: see ErasableList.  changed   *)
(* is about the attempt they are in, which begins where Restart goes to.   *)
Counting == {"size", "iterate"}
Sought(t) ==
  {o \in Elements : loc[t].op # "erase" \/ value[o] = loc[t].elem}

ListChanges ==
  head' # head \/ \E o \in Objects : mem[o] = "live" /\ next'[o] # next[o]

Begins(t) ==
  /\ pc'[t] # pc[t]
  /\ pc'[t] = "start" \/ (pc'[t] = "loadHead" /\ pc[t] # "start")

Watch(actor) ==
  /\ stable' = [t \in Threads |->
       IF loc'[t].op \in {"idle", "push"} THEN {}
       ELSE IF loc[t].op = "idle" THEN Sought(t)' ELSE stable[t] \cap Elements']
  /\ disturbed' = [t \in Threads |->
       loc[t].op \in Counting /\ loc'[t].op = loc[t].op
         /\ (disturbed[t] \/ Elements' # Elements)]
  /\ changed' = [t \in Threads |->
       loc'[t].op \notin {"idle", "push"} /\ ~Begins(t)
         /\ (changed[t] \/ (t # actor /\ ListChanges))]

(* push: the node is created and head loaded for the first time.           *)
CallPush(t, o, v) ==
  /\ pc[t] = "idle"
  /\ mem[o] = "free"
  /\ mem' = [mem EXCEPT ![o] = "private"]
  /\ value' = [value EXCEPT ![o] = v]
  /\ next' = [next EXCEPT ![o] = Link(head, FALSE)]
  /\ Goto(t, "pushCas", [NoLoc EXCEPT !.op = "push", !.elem = v, !.temp = o])
  /\ UNCHANGED <<head, doubled>> /\ Watch(t)

HeadIsStill(t) == head = next[loc[t].temp].ptr

PushCas(t) ==
  /\ pc[t] = "pushCas"
  /\ HeadIsStill(t)
  /\ head' = loc[t].temp
  /\ mem' = [mem EXCEPT ![loc[t].temp] = "live"]
  /\ Return(t)
  /\ UNCHANGED <<next, value, doubled>> /\ Watch(t)

PushRetry(t) ==
  /\ pc[t] = "pushCas"
  /\ ~HeadIsStill(t)
  /\ next' = [next EXCEPT ![loc[t].temp] = Link(head, FALSE)]
  /\ UNCHANGED <<head, value, mem, pc, loc, history>>

CallErase(t, v) ==
  /\ pc[t] = "idle"
  /\ \A u \in Threads : loc[u].op # "iterate"
  /\ Goto(t, "start", [NoLoc EXCEPT !.op = "erase", !.elem = v])
  /\ UNCHANGED <<listVars, doubled>> /\ Watch(t)

Walk(t, op) ==
  /\ pc[t] = "idle"
  /\ Goto(t, "loadHead", [NoLoc EXCEPT !.op = op])
  /\ UNCHANGED <<listVars, doubled>> /\ Watch(t)

CallSize(t) == Walk(t, "size")

(* An iteration from begin() to end().                                     *)
CallIterate(t) ==
  /\ \A u \in Threads : loc[u].op # "erase"
  /\ \A o \in Objects : mem[o] = "live" => IsElement(o)
  /\ Walk(t, "iterate")

(* Through the handle of the list.                                         *)
Walks(t) == CallSize(t) \/ CallIterate(t)

(* Back to the outer loop; the guards are given up.                        *)
Restart(t) ==
  IF loc[t].op = "erase"
    THEN Goto(t, "start", [NoLoc EXCEPT !.op = "erase", !.elem = loc[t].elem])
    ELSE Goto(t, "loadHead", [NoLoc EXCEPT !.op = loc[t].op])

(* erase: a load of _head; it is not found in an empty list.               *)
Start(t) ==
  /\ pc[t] = "start"
  /\ IF head = NoPtr THEN Return(t) ELSE Goto(t, "loadHead", loc[t])
  /\ UNCHANGED <<listVars, doubled>> /\ Watch(t)

NoHead(t) == IF loc[t].op = "erase" THEN Restart(t) ELSE Return(t)

(* protect(_head): the first load.                                         *)
LoadHead(t) ==
  /\ pc[t] = "loadHead"
  /\ IF head = NoPtr THEN NoHead(t)
     ELSE Goto(t, "checkHead", [loc[t] EXCEPT !.temp = head])
  /\ UNCHANGED <<listVars, doubled>> /\ Watch(t)

Agrees(announced, p) == announced = p

(* protect(_head): a load after the announcement.                          *)
CheckHead(t) ==
  /\ pc[t] = "checkHead"
  /\ IF Agrees(loc[t].temp, head)
       THEN Goto(t, "loadNext", [loc[t] EXCEPT !.curr = Guard(Link(loc[t].temp, FALSE)),
                                               !.temp = NoPtr, !.count = 1])
     ELSE IF head = NoPtr THEN NoHead(t)
     ELSE Goto(t, "checkHead", [loc[t] EXCEPT !.temp = head])
  /\ UNCHANGED <<listVars, doubled>> /\ Watch(t)

Found(t, n) ==
  loc[t].op = "erase" /\ ~n.mark /\ value[loc[t].curr.ptr] = loc[t].elem
IsEnd(n) == ~n.mark /\ n.ptr = NoPtr
HasLeft(t, n) == n.ptr = loc[t].curr.ptr

Forward(t, l) ==
  Goto(t, "loadNext", [l EXCEPT !.curr = l.next, !.next = NoGuard, !.count = @ + 1])

(* The rest of the loop of erase and size, from where next is guarded, up  *)
(* to its next access to shared memory; or of the loop of remove; or ++ of *)
(* an iterator, which does not look at the mark.                           *)
Decide(t, n) ==
  LET l == [loc[t] EXCEPT !.next = Guard(n), !.temp = NoPtr] IN
  IF loc[t].removing
    THEN IF n.mark THEN Goto(t, "unlink", l) ELSE Restart(t)
  ELSE IF Found(t, n) THEN Goto(t, "mark", l)
  ELSE IF IsEnd(n) THEN Return(t)
  ELSE IF l.op = "iterate" THEN Forward(t, l)
  ELSE IF n.mark THEN Goto(t, "unlink", l)
  ELSE IF HasLeft(t, n) THEN Restart(t)
  ELSE Forward(t, [l EXCEPT !.prev = l.curr])

NextOfCurr(t) == next[loc[t].curr.ptr]

(* protect(curr->next): the first load.  Null is returned with its mark.   *)
LoadNext(t) ==
  /\ pc[t] = "loadNext"
  /\ IF NextOfCurr(t).ptr = NoPtr THEN Decide(t, NextOfCurr(t))
     ELSE Goto(t, "checkNext", [loc[t] EXCEPT !.temp = NextOfCurr(t).ptr])
  /\ UNCHANGED <<listVars, doubled>> /\ Watch(t)

(* protect(curr->next): a load after the announcement.  A null that comes  *)
(* after another pointer is returned without its mark.                     *)
CheckNext(t) ==
  /\ pc[t] = "checkNext"
  /\ IF Agrees(loc[t].temp, NextOfCurr(t).ptr) THEN Decide(t, Link(loc[t].temp, NextOfCurr(t).mark))
     ELSE IF NextOfCurr(t).ptr = NoPtr THEN Decide(t, Null)
     ELSE Goto(t, "checkNext", [loc[t] EXCEPT !.temp = NextOfCurr(t).ptr])
  /\ UNCHANGED <<listVars, doubled>> /\ Watch(t)

(* erase: atomic_mark.  The call of remove that follows does nothing, for  *)
(* next is not marked: the node stays in the chain until another walk.     *)
Mark(t) ==
  /\ pc[t] = "mark"
  /\ IF NextOfCurr(t) = Link(loc[t].next.ptr, loc[t].next.mark)
       THEN /\ next' = [next EXCEPT ![loc[t].curr.ptr].mark = TRUE]
            /\ doubled' = (doubled \/ HasLeft(t, loc[t].next))
            /\ Return(t)
       ELSE /\ Goto(t, "loadNext", [loc[t] EXCEPT !.next = NoGuard])
            /\ UNCHANGED <<next, doubled>>
  /\ UNCHANGED <<head, value, mem>> /\ Watch(t)

PointsTo(l, o) == l = Link(o, FALSE)
LinkBefore(t) == IF loc[t].prev.ptr = NoPtr THEN Link(head, FALSE)
                                            ELSE next[loc[t].prev.ptr]

(* remove: the compare_exchange that takes curr out of the list.           *)
Unlink(t) ==
  /\ pc[t] = "unlink"
  /\ IF PointsTo(LinkBefore(t), loc[t].curr.ptr)
       THEN /\ IF loc[t].prev.ptr = NoPtr
                 THEN head' = loc[t].next.ptr /\ UNCHANGED next
                 ELSE /\ next' = [next EXCEPT ![loc[t].prev.ptr] =
                                    Link(loc[t].next.ptr, FALSE)]
                      /\ UNCHANGED head
            /\ Goto(t, "leave", loc[t])
       ELSE Restart(t) /\ UNCHANGED <<head, next>>
  /\ UNCHANGED <<value, mem, doubled>> /\ Watch(t)

(* remove: curr gets its pointer to itself, and its guard that of next.    *)
Leave(t) ==
  /\ pc[t] = "leave"
  /\ next' = [next EXCEPT ![loc[t].curr.ptr] = Link(loc[t].curr.ptr, FALSE)]
  /\ Goto(t, "retire", [loc[t] EXCEPT !.curr = loc[t].next, !.next = NoGuard,
                                      !.temp = loc[t].curr.ptr])
  /\ UNCHANGED <<head, value, mem, doubled>> /\ Watch(t)

(* remove: safe_delete, and on to the next node if there is one.           *)
Retire(t) ==
  /\ pc[t] = "retire"
  /\ mem' = [mem EXCEPT ![loc[t].temp] = "retired"]
  /\ IF loc[t].curr.ptr = NoPtr THEN Restart(t)
     ELSE Goto(t, "loadNext", [loc[t] EXCEPT !.temp = NoPtr, !.removing = TRUE])
  /\ UNCHANGED <<head, next, value, doubled>> /\ Watch(t)

(* The manager destroys a node.  What it held is forgotten.                *)
Destroy(o) ==
  /\ mem[o] = "retired"
  /\ \A t \in Threads : o \notin Guarded(t)
  /\ mem' = [mem EXCEPT ![o] = "free"]
  /\ next' = [next EXCEPT ![o] = Null]
  /\ value' = [value EXCEPT ![o] = NoLoc.elem]
  /\ UNCHANGED <<head, pc, loc, history>>

(* The assignment of an empty list, as between two rounds of the test: the *)
(* destructor, and a move.                                                 *)
Destruct ==
  /\ \A t \in Threads : pc[t] = "idle"
  /\ \A o \in Chain \ {NoPtr} : IsElement(o)
  /\ head' = NoPtr
  /\ mem' = [o \in Objects |-> IF o \in Chain THEN "free" ELSE mem[o]]
  /\ next' = [o \in Objects |-> IF o \in Chain THEN Null ELSE next[o]]
  /\ value' = [o \in Objects |-> IF o \in Chain THEN NoLoc.elem ELSE value[o]]
  /\ UNCHANGED <<pc, loc, history>>

Continue(t) ==
  \/ PushCas(t) \/ PushRetry(t)
  \/ Start(t) \/ LoadHead(t) \/ CheckHead(t) \/ LoadNext(t) \/ CheckNext(t)
  \/ Mark(t) \/ Unlink(t) \/ Leave(t) \/ Retire(t)

Next ==
  \/ \E t \in Threads :
       \/ Continue(t) \/ Walks(t)
       \/ \E v \in Erased : CallErase(t, v)
       \/ \E v \in Values, o \in Objects : CallPush(t, o, v)
  \/ \E o \in Objects : Destroy(o)
  \/ Destruct

Spec == Init /\ [][Next]_vars

------------------------------------------------------------------------------
(* Properties.                                                             *)

Guards == [ptr : Pointers, mark : BOOLEAN, safe : BOOLEAN]
Steps == {"idle", "pushCas", "start", "loadHead", "checkHead", "loadNext",
          "checkNext", "mark", "unlink", "leave", "retire"}

TypeOK ==
  /\ head \in Pointers
  /\ next \in [Objects -> [ptr : Pointers, mark : BOOLEAN]]
  /\ value \in [Objects -> Values]
  /\ mem \in [Objects -> {"free", "private", "live", "retired"}]
  /\ pc \in [Threads -> Steps]
  /\ loc \in [Threads -> [op : {"idle", "push", "erase"} \cup Counting, elem : Values,
                          prev : Guards, curr : Guards, next : Guards,
                          temp : Pointers, count : Nat, removing : BOOLEAN]]
  /\ stable \in [Threads -> SUBSET Objects]
  /\ disturbed \in [Threads -> BOOLEAN]
  /\ changed \in [Threads -> BOOLEAN]
  /\ doubled \in BOOLEAN

(* The nodes whose memory a thread is about to access.                     *)
Touches(t) ==
  CASE pc[t] \in {"loadNext", "checkNext", "mark", "leave"} -> {loc[t].curr.ptr}
    [] pc[t] = "unlink" -> {loc[t].prev.ptr} \ {NoPtr}
    [] pc[t] = "retire" -> {loc[t].temp}
    [] OTHER -> {}

(* A thread never accesses a node that has been destroyed, nor unlinks one *)
(* or retires one that has been retired.                                   *)
TouchesNodes ==
  \A t \in Threads :
    /\ \A o \in Touches(t) : mem[o] \in {"live", "retired"}
    /\ pc[t] \in {"leave", "retire"} =>
         mem[IF pc[t] = "leave" THEN loc[t].curr.ptr ELSE loc[t].temp] = "live"

(* The chain from _head ends, and it consists of nodes that have not been  *)
(* retired.  It holds all the elements; a node outside it that has not     *)
(* been retired yet is about to be, by the thread that has unlinked it.    *)
Unlinks(t, o) ==
  \/ pc[t] = "leave" /\ loc[t].curr.ptr = o
  \/ pc[t] = "retire" /\ loc[t].temp = o

ChainHoldsElements ==
  /\ NoPtr \in Chain
  /\ \A o \in Chain \ {NoPtr} : mem[o] = "live"
  /\ Elements \subseteq Chain
  /\ \A o \in Objects \ Chain : mem[o] = "live" => \E t \in Threads : Unlinks(t, o)

(* The types, the accesses, and the chain.                                 *)
StateInv == TypeOK /\ TouchesNodes /\ ChainHoldsElements

(* Elements are added by push and removed by an erase with their value,    *)
(* once each, and an erase gives up only if the element it looks for was   *)
(* not there all the time.  This holds until an erase finds the value in a *)
(* node that has left the list already, and marks its pointer to itself:   *)
(* then it returns 1 for an element that another erase has returned 1 for. *)
List == INSTANCE ErasableList WITH
  items <- [o \in Elements |-> value[o]],
  call <- [t \in Threads |->
             IF loc[t].op \in {"idle"} \cup Counting THEN <<loc[t].op>>
             ELSE <<loc[t].op, loc[t].elem>>]

ImplementsListUntilDoubled ==
  List!Init /\ [][~doubled' => List!Next \/ UNCHANGED List!vars]_vars

(* size counts, and an iteration visits, at least the elements that are    *)
(* there all the time, and exactly the elements if the list does not       *)
(* change.                                                                 *)
SizeReturns(t) == loc[t].op \in Counting /\ loc'[t].op = "idle"
Result(t) == loc[t].count

SizeIsRight ==
  [][\A t \in Threads : SizeReturns(t) =>
       /\ Result(t) >= Cardinality(stable[t])
       /\ ~disturbed[t] => Result(t) = Cardinality(stable[t])]_vars

(* The list is lock-free: a thread starts again, or tries again to mark,   *)
(* only if others have changed the list during its attempt, or if it has   *)
(* taken a node out itself.                                                *)
TriesAgain(t) ==
  \/ pc[t] # "idle" /\ Begins(t)
  \/ pc[t] = "mark" /\ pc'[t] = "loadNext"
Removing(t) == pc[t] = "retire" \/ loc[t].removing

RetriesAreExcused ==
  [][\A t \in Threads : TriesAgain(t) => changed[t] \/ Removing(t)]_vars
==============================================================================
