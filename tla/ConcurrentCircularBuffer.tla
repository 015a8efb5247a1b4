----------------------- MODULE ConcurrentCircularBuffer ------------------------
(***************************************************************************)
(* data_structures/concurrent_circular_buffer.hpp                          *)
(*                                                                         *)
(* push and pop each draw a ticket with a fetch_add, from _push_id and     *)
(* from _pop_id, and then work on the slot the ticket stands for: push     *)
(* waits until it can exchange the dummy for its element, pop until it     *)
(* gets something else than the dummy out of it.  Tickets that are         *)
(* Capacity apart share a slot, and operations on one slot are not ordered *)
(* by their tickets.  size is the difference of the two words, which it    *)
(* loads one after the other, in an order the language leaves open.        *)
(*                                                                         *)
(* _push_id and _pop_id are words that wrap around; Words is their number  *)
(* of values, 2^64 in the code.  Elements are told apart, and each is in   *)
(* the hands of the program or in the buffer, as in                        *)
(* tests/src/test_concurrent_circular_buffer.cpp.                          *)
(***************************************************************************)
EXTENDS Integers, Sequences, FiniteSets

CONSTANTS
  Threads,
  Readers,    \* the threads that call size
  Values,     \* the elements
  Dummy,      \* the template parameter dummy
  Capacity,   \* _bitmask + 1, a size_t
  Words       \* the number of values of a size_t

ASSUME CapacityAssumption ==
  Capacity \in Nat \ {0} /\ Words \in Nat /\ Capacity < Words /\ Words % Capacity = 0
ASSUME DummyAssumption == Dummy \notin Values
ASSUME ThreadsAssumption == IsFiniteSet(Threads) /\ Readers \subseteq Threads

VARIABLES
  pushId,      \* _push_id
  popId,       \* _pop_id
  buffer,      \* _buffer
  pc,          \* per thread: "idle", "push", in pop "exchange" or "spin", or
               \* in size the load that is next, "loadPop" or "loadPush"
  slot,        \* per thread: id, the slot it works on
  arg,         \* per thread: e, the element it is pushing
  outside,     \* the elements the program has
  loaded,      \* per thread: in size, the word it has loaded
  since,       \* history, per thread: in size, the tickets drawn from that
               \* word since, modulo Words
  overlapped   \* history: two pushes or two pops have been under way at once

sizeVars == <<loaded, since>>
vars == <<pushId, popId, buffer, pc, slot, arg, outside, loaded, since, overlapped>>

Slots == 0 .. (Capacity - 1)

Pushing == {t \in Threads : pc[t] = "push"}
Popping == {t \in Threads : pc[t] \in {"exchange", "spin"}}
Filled == {s \in Slots : buffer[s] # Dummy}

------------------------------------------------------------------------------
(* Plausible bugs, each substituted for the definition it varies.          *)

PopSlotWithoutInc(id) == id % Capacity
PopSlotMaskOffByOne(id) == ((id + 1) % Capacity) - ((id + 1) % 2)
TakenLeftInSlot(s) == buffer[s]
DifferenceOfSlots(push, pop) == ((push % Capacity) - (pop % Capacity)) % Words

------------------------------------------------------------------------------
Init ==
  /\ pushId = 0
  /\ popId = 0
  /\ buffer = [s \in Slots |-> Dummy]
  /\ pc = [t \in Threads |-> "idle"]
  /\ slot = [t \in Threads |-> 0]
  /\ arg = [t \in Threads |-> Dummy]
  /\ outside = Values
  /\ loaded = [t \in Threads |-> 0]
  /\ since = [t \in Threads |-> 0]
  /\ overlapped = FALSE

FetchAdd(id) == (id + 1) % Words
PushSlot(id) == (id + 1) % Capacity
PopSlot(id) == (id + 1) % Capacity

(* A ticket is counted by the calls of size that have loaded the word it   *)
(* is drawn from, and go on with the other load.                           *)
CountedBy(next) ==
  since' = [t \in Threads |-> IF pc[t] = next THEN FetchAdd(since[t]) ELSE since[t]]

(* push: the fetch_add on _push_id.                                        *)
PushClaim(t, e) ==
  /\ pc[t] = "idle"
  /\ e \in outside
  /\ pushId' = FetchAdd(pushId)
  /\ slot' = [slot EXCEPT ![t] = PushSlot(pushId)]
  /\ arg' = [arg EXCEPT ![t] = e]
  /\ outside' = outside \ {e}
  /\ pc' = [pc EXCEPT ![t] = "push"]
  /\ CountedBy("loadPop")
  /\ overlapped' = (overlapped \/ Pushing # {})
  /\ UNCHANGED <<popId, buffer, loaded>>

Free(s) == buffer[s] = Dummy

(* push: the compare_exchange that succeeds.  Those that fail, spuriously  *)
(* or because the slot is occupied, change nothing.                        *)
PushStore(t) ==
  /\ pc[t] = "push"
  /\ Free(slot[t])
  /\ buffer' = [buffer EXCEPT ![slot[t]] = arg[t]]
  /\ arg' = [arg EXCEPT ![t] = Dummy]
  /\ pc' = [pc EXCEPT ![t] = "idle"]
  /\ UNCHANGED <<pushId, popId, slot, outside, sizeVars, overlapped>>

(* pop: the fetch_add on _pop_id.                                          *)
PopClaim(t) ==
  /\ pc[t] = "idle"
  /\ popId' = FetchAdd(popId)
  /\ slot' = [slot EXCEPT ![t] = PopSlot(popId)]
  /\ pc' = [pc EXCEPT ![t] = "exchange"]
  /\ CountedBy("loadPush")
  /\ overlapped' = (overlapped \/ Popping # {})
  /\ UNCHANGED <<pushId, buffer, arg, outside, loaded>>

Ready(s) == buffer[s] # Dummy
LeftInSlot(s) == Dummy

(* pop: an exchange that gets an element, with which pop returns.          *)
PopTake(t) ==
  /\ pc[t] = "exchange"
  /\ Ready(slot[t])
  /\ outside' = outside \cup {buffer[slot[t]]}
  /\ buffer' = [buffer EXCEPT ![slot[t]] = LeftInSlot(slot[t])]
  /\ pc' = [pc EXCEPT ![t] = "idle"]
  /\ UNCHANGED <<pushId, popId, slot, arg, sizeVars, overlapped>>

(* pop: an exchange that gets the dummy back and starts the inner loop.    *)
PopMiss(t) ==
  /\ pc[t] = "exchange"
  /\ ~Ready(slot[t])
  /\ pc' = [pc EXCEPT ![t] = "spin"]
  /\ UNCHANGED <<pushId, popId, buffer, slot, arg, outside, sizeVars, overlapped>>

(* pop: the load that ends the inner loop; the next exchange may miss.     *)
PopSee(t) ==
  /\ pc[t] = "spin"
  /\ buffer[slot[t]] # Dummy
  /\ pc' = [pc EXCEPT ![t] = "exchange"]
  /\ UNCHANGED <<pushId, popId, buffer, slot, arg, outside, sizeVars, overlapped>>

(* size: the first load, of either word.                                   *)
SizeLoad(t, word, next) ==
  /\ pc[t] = "idle"
  /\ loaded' = [loaded EXCEPT ![t] = word]
  /\ since' = [since EXCEPT ![t] = 0]
  /\ pc' = [pc EXCEPT ![t] = next]
  /\ UNCHANGED <<pushId, popId, buffer, slot, arg, outside, overlapped>>

SizeLoadPush(t) == SizeLoad(t, pushId, "loadPop")
SizeLoadPop(t) == SizeLoad(t, popId, "loadPush")

Difference(push, pop) == (push - pop) % Words

(* size: what it returns if the second load is now.                        *)
Size(t) ==
  IF pc[t] = "loadPop" THEN Difference(loaded[t], popId)
                       ELSE Difference(pushId, loaded[t])

(* size: the second load, with which it returns.                           *)
SizeReturn(t) ==
  /\ pc[t] \in {"loadPop", "loadPush"}
  /\ loaded' = [loaded EXCEPT ![t] = 0]
  /\ since' = [since EXCEPT ![t] = 0]
  /\ pc' = [pc EXCEPT ![t] = "idle"]
  /\ UNCHANGED <<pushId, popId, buffer, slot, arg, outside, overlapped>>

Continue(t) ==
  PushStore(t) \/ PopTake(t) \/ PopMiss(t) \/ PopSee(t) \/ SizeReturn(t)

Next ==
  \/ \E t \in Threads :
       \/ Continue(t)
       \/ PopClaim(t)
       \/ \E e \in Values : PushClaim(t, e)
  \/ \E t \in Readers : SizeLoadPush(t) \/ SizeLoadPop(t)

Spec == Init /\ [][Next]_vars

(* A thread that is inside a call keeps running.  Nothing obliges a thread *)
(* to begin one.                                                           *)
FairSpec == Spec /\ \A t \in Threads : WF_vars(Continue(t))

------------------------------------------------------------------------------
(* Properties.                                                             *)

TypeOK ==
  /\ pushId \in 0 .. (Words - 1)
  /\ popId \in 0 .. (Words - 1)
  /\ buffer \in [Slots -> Values \cup {Dummy}]
  /\ pc \in [Threads -> {"idle", "push", "exchange", "spin", "loadPop", "loadPush"}]
  /\ slot \in [Threads -> Slots]
  /\ arg \in [Threads -> Values \cup {Dummy}]
  /\ outside \subseteq Values
  /\ loaded \in [Threads -> 0 .. (Words - 1)]
  /\ since \in [Threads -> 0 .. (Words - 1)]
  /\ overlapped \in BOOLEAN

(* No element is lost, returned twice or overwritten, however pushes and   *)
(* pops lap each other.                                                    *)
Pool == INSTANCE BoundedPool WITH
  pool <- {buffer[s] : s \in Filled},
  op <- [t \in Threads |-> IF t \in Popping THEN "pop"
                           ELSE IF t \in Pushing THEN "push" ELSE "idle"]

ImplementsPool == Pool!Spec

(* Why: an element is in one slot, or in the hands of one thread that is   *)
(* pushing it, or outside.                                                 *)
ElementsApart ==
  /\ \A s, r \in Filled : buffer[s] = buffer[r] => s = r
  /\ \A t, u \in Pushing : arg[t] = arg[u] => t = u
  /\ \A s \in Filled, t \in Pushing : buffer[s] # arg[t]
  /\ \A s \in Filled : buffer[s] \notin outside
  /\ \A t \in Pushing : arg[t] \notin outside

(* An element is in use from the moment its push has its ticket until some *)
(* pop has one; with pops that wait for elements the number is below zero. *)
InUse == Cardinality(Filled) + Cardinality(Pushing) - Cardinality(Popping)

(* size returns the number of elements in use at its second load, but for  *)
(* the tickets drawn between its loads from the word it has loaded first:  *)
(* so it is exact if nobody draws one, it misses the pushes in between if  *)
(* _push_id comes first, and counts elements that are gone if _pop_id      *)
(* does.                                                                   *)
SizeOffByTicketsBetween ==
  [][\A t \in Threads : SizeReturn(t) =>
       Size(t) = IF pc[t] = "loadPop" THEN (InUse - since[t]) % Words
                                      ELSE (InUse + since[t]) % Words]_vars

(* Why: the two words differ by what is in use, and by the tickets drawn   *)
(* since from what a call of size has loaded.                              *)
WordsCountUse == (pushId - popId) % Words = InUse % Words

LoadedIsBehind ==
  \A t \in Threads :
    /\ pc[t] = "loadPop" => (loaded[t] + since[t]) % Words = pushId
    /\ pc[t] = "loadPush" => (loaded[t] + since[t]) % Words = popId

SizeInv == WordsCountUse /\ LoadedIsBehind

(* Tickets are dealt to the slots in turn, for pushes and pops alike.  So  *)
(* it cannot be that a push waits on an occupied slot and a pop on an      *)
(* empty one and nobody is left to help either.                            *)
Blocked(t) == t \in Pushing <=> slot[t] \in Filled

NoMutualWait ==
  Pushing # {} /\ Popping # {} =>
    \E t \in Pushing \cup Popping : ~Blocked(t)

(* Why not: what a slot is owed, the tickets for pushes it has been dealt  *)
(* minus those for pops, is its element and the operations that wait for   *)
(* it, and it differs between slots by no more than whether the last push  *)
(* has passed the slot since the last pop has.                             *)
PushingAt(s) == {t \in Pushing : slot[t] = s}
PoppingAt(s) == {t \in Popping : slot[t] = s}

Owed(s) ==
  (IF s \in Filled THEN 1 ELSE 0)
    + Cardinality(PushingAt(s)) - Cardinality(PoppingAt(s))

LastPush == pushId % Capacity
LastPop == popId % Capacity

IsAhead(s) == IF LastPop <= LastPush THEN LastPop < s /\ s <= LastPush
                                     ELSE LastPop < s \/ s <= LastPush
Ahead(s) == IF IsAhead(s) THEN 1 ELSE 0

DealtInTurn ==
  \A s, r \in Slots : Owed(s) - Owed(r) = Ahead(s) - Ahead(r)

IndInv ==
  /\ TypeOK
  /\ \A t \in Pushing : arg[t] \in Values
  /\ DealtInTurn

(* A thread may starve, but the buffer does not: as long as there are      *)
(* pushes and pops under way again and again, operations keep completing.  *)
Completes == \E t \in Threads : PushStore(t) \/ PopTake(t)

KeepsCompleting ==
  []<>(Pushing # {}) /\ []<>(Popping # {}) => []<><<Completes>>_vars

(* One thread that pushes at a time and one that pops: a FIFO queue.  The  *)
(* queue is what lies in the slots of the tickets that pushes are done     *)
(* with and pops are not.                                                  *)
Done(id, busy) == (id - Cardinality(busy)) % Words

Queue ==
  [i \in 1 .. (Done(pushId, Pushing) - Done(popId, Popping)) % Words |->
     buffer[(Done(popId, Popping) + i) % Capacity]]

IsFifoStep ==
  \/ UNCHANGED <<Queue, buffer>>
  \/ \E t \in Threads : pc[t] = "push" /\ Queue' = Append(Queue, arg[t])
  \/ Queue # << >> /\ Queue' = Tail(Queue) /\ outside' = outside \cup {Head(Queue)}

FifoWithoutOverlap == [][~overlapped' => IsFifoStep]_vars
==============================================================================
