--------------------------- MODULE MPSCBufferProofs ---------------------------
(***************************************************************************)
(* The safety of MPSCBuffer for every number of producers and every        *)
(* capacity.  The only thing to find is that Claimed, the set of slots     *)
(* somebody owns, changes by one slot at a time and is not changed at all  *)
(* by the swap, which merely renames the filled half to the drained one.   *)
(***************************************************************************)
EXTENDS MPSCBuffer, SequenceTheorems, TLAPS

USE CapacityAssumption, MaxPosAssumption, DummyAssumption

(* What is claimed lies in the buffer, and no slot is claimed twice.       *)
LEMMA ClaimedSlots ==
  ASSUME TypeOK, HalvesApart
  PROVE  /\ Claimed \subseteq Slots
         /\ Draining \cap Filling = {}
         /\ Fits(pos.count) => pos.count \in Slots \ Claimed
BY DEF TypeOK, HalvesApart, Claimed, Draining, Filling, FillEnd, HalfEnd,
       HalfStart, Smaller, Slots, Fits

LEMMA InitIndInv == Init => IndInv
<1> SUFFICES ASSUME Init PROVE IndInv
  OBVIOUS
<1>1. TypeOK /\ HalvesApart
  BY DEF Init, TypeOK, HalvesApart, HalfStart, Slots
<1>2. Claimed = {}
  BY DEF Init, Claimed, Draining, Filling, FillEnd, HalfEnd, HalfStart,
         Smaller
<1>3. StoreHitsFreeSlot
  BY DEF Init, StoreHitsFreeSlot
<1>4. SlotsAccountedFor
  BY <1>2 DEF Init, SlotsAccountedFor, Pending
<1> QED
  BY <1>1, <1>3, <1>4 DEF IndInv

LEMMA PushClaimIndInv ==
  ASSUME IndInv, NEW p \in Producers, NEW e \in Values, PushClaim(p, e)
  PROVE  IndInv'
<1> DEFINE t == pos.count
<1> USE DEF IndInv
<1>1. TypeOK'
  <2>1. pos' \in [second : BOOLEAN, count : 0 .. MaxPos]
    BY DEF TypeOK, PushClaim
  <2>2. UNCHANGED <<buffer, readPos, readEnd, cpc, read, popResult>>
    BY DEF PushClaim, consumerVars
  <2>3. /\ pc' \in [Producers -> {"idle", "store"}]
        /\ slot' \in [Producers -> Nat]
        /\ elem' \in [Producers -> Values \cup {Dummy}]
        /\ pushResult' \in [Producers -> BOOLEAN]
    <3>1. pos.count \in Nat
      BY DEF TypeOK
    <3>2. CASE Fits(pos.count)
      BY <3>1, <3>2 DEF TypeOK, PushClaim
    <3>3. CASE ~Fits(pos.count)
      BY <3>3 DEF TypeOK, PushClaim
    <3> QED
      BY <3>2, <3>3
  <2> QED
    BY <2>1, <2>2, <2>3 DEF TypeOK, Slots
<1>2. UNCHANGED <<HalfStart, HalfEnd, Draining>>
  BY DEF TypeOK, PushClaim, consumerVars, HalfStart, HalfEnd, Draining
<1>3. t \in Nat /\ t' = t + 1 /\ pos'.second = pos.second
  BY DEF TypeOK, PushClaim
<1>4. CASE Fits(t)
  <2>1. /\ pc' = [pc EXCEPT ![p] = "store"]
        /\ slot' = [slot EXCEPT ![p] = t]
        /\ elem' = [elem EXCEPT ![p] = e]
        /\ UNCHANGED <<buffer, readPos, readEnd, cpc, read>>
    BY <1>4 DEF PushClaim, consumerVars
  <2>2. t \in Slots /\ t \notin Claimed
    BY <1>4, ClaimedSlots
  <2>3. Claimed' = Claimed \cup {t}
    BY <1>2, <1>3, <1>4 DEF TypeOK, HalvesApart, Claimed, Filling, FillEnd,
         HalfEnd, HalfStart, Smaller, Fits
  <2>4. \A i \in Slots : Pending(i)' =
          IF i = t THEN Pending(i) \cup {p} ELSE Pending(i)
    BY <2>1 DEF Pending, TypeOK, PushClaim
  <2>5. buffer[t] = Dummy /\ Pending(t) = {}
    BY <2>2 DEF SlotsAccountedFor
  <2>6. HalvesApart'
    BY <1>2, <1>3, <2>1, <2>2 DEF HalvesApart, TypeOK, HalfStart, Slots
  <2>7. StoreHitsFreeSlot'
    <3> SUFFICES ASSUME NEW q \in Producers, pc'[q] = "store"
                 PROVE  buffer'[slot'[q]] = Dummy /\ Pending(slot[q])' = {q}
      BY DEF StoreHitsFreeSlot
    <3>1. CASE q = p
      BY <2>1, <2>2, <2>4, <2>5, <3>1 DEF TypeOK
    <3>2. CASE q # p
      <4>1. pc[q] = "store" /\ slot'[q] = slot[q] /\ slot[q] \in Slots
        BY <2>1, <3>2 DEF HalvesApart, TypeOK
      <4>2. slot[q] # t
        BY <2>5, <4>1 DEF Pending
      <4> QED
        BY <2>1, <2>4, <4>1, <4>2 DEF StoreHitsFreeSlot
    <3> QED
      BY <3>1, <3>2
  <2>8. SlotsAccountedFor'
    <3> SUFFICES ASSUME NEW i \in Slots
                 PROVE  (i \in Claimed)'
                          <=> (buffer'[i] # Dummy \/ Pending(i)' # {})
      BY DEF SlotsAccountedFor, Slots
    <3> QED
      BY <2>1, <2>3, <2>4 DEF SlotsAccountedFor
  <2> QED
    BY <1>1, <2>6, <2>7, <2>8
<1>5. CASE ~Fits(t)
  <2>1. UNCHANGED <<pc, slot, elem, buffer, readPos, readEnd, cpc, read>>
    BY <1>5 DEF PushClaim, consumerVars
  <2>2. Claimed' = Claimed
    BY <1>2, <1>3, <1>5 DEF TypeOK, Claimed, Filling, FillEnd, HalfEnd,
         HalfStart, Smaller, Fits
  <2>3. HalvesApart'
    BY <1>2, <1>3, <2>1 DEF HalvesApart, TypeOK, HalfStart, Slots
  <2>4. StoreHitsFreeSlot'
    BY <2>1 DEF StoreHitsFreeSlot, Pending
  <2>5. SlotsAccountedFor'
    BY <2>1, <2>2 DEF SlotsAccountedFor, Pending, Slots
  <2> QED
    BY <1>1, <2>3, <2>4, <2>5
<1> QED
  BY <1>4, <1>5

LEMMA PushStoreIndInv ==
  ASSUME IndInv, NEW p \in Producers, PushStore(p)
  PROVE  IndInv'
<1> DEFINE t == slot[p]
<1> USE DEF IndInv
<1>1. TypeOK'
  BY DEF TypeOK, PushStore, consumerVars, HalvesApart
<1>2. /\ buffer' = [buffer EXCEPT ![t] = elem[p]]
      /\ pc' = [pc EXCEPT ![p] = "idle"]
      /\ UNCHANGED <<pos, slot, elem, readPos, readEnd, cpc, read>>
  BY DEF PushStore, consumerVars
<1>3. t \in Slots /\ elem[p] # Dummy /\ buffer[t] = Dummy /\ Pending(t) = {p}
  BY DEF PushStore, HalvesApart, StoreHitsFreeSlot
<1>4. Claimed' = Claimed
  BY <1>2 DEF Claimed, Draining, Filling, FillEnd, HalfEnd, HalfStart
<1>5. \A i \in Slots : Pending(i)' = Pending(i) \ {p}
  BY <1>2 DEF Pending, TypeOK
<1>6. HalvesApart'
  <2>1. cpc = "clear" => buffer[readPos] # Dummy
    BY DEF HalvesApart
  <2>2. cpc = "clear" => buffer'[readPos] = buffer[readPos]
    BY <1>2, <1>3, <2>1 DEF TypeOK
  <2> QED
    BY <1>2, <2>2 DEF HalvesApart, TypeOK, HalfStart
<1>7. StoreHitsFreeSlot'
  <2> SUFFICES ASSUME NEW q \in Producers, pc'[q] = "store"
               PROVE  buffer'[slot'[q]] = Dummy /\ Pending(slot[q])' = {q}
    BY DEF StoreHitsFreeSlot
  <2>1. q # p /\ pc[q] = "store" /\ slot'[q] = slot[q] /\ slot[q] \in Slots
    BY <1>2 DEF TypeOK, HalvesApart
  <2>2. slot[q] # t
    BY <1>3, <2>1 DEF Pending
  <2> QED
    BY <1>2, <1>5, <2>1, <2>2 DEF StoreHitsFreeSlot, TypeOK
<1>8. SlotsAccountedFor'
  <2> SUFFICES ASSUME NEW i \in Slots
               PROVE  (i \in Claimed)'
                        <=> (buffer'[i] # Dummy \/ Pending(i)' # {})
    BY DEF SlotsAccountedFor, Slots
  <2>1. CASE i = t
    BY <1>2, <1>3, <1>4, <2>1 DEF SlotsAccountedFor, TypeOK
  <2>2. CASE i # t
    <3>1. p \notin Pending(i)
      BY <2>2 DEF Pending
    <3> QED
      BY <1>2, <1>4, <1>5, <2>2, <3>1 DEF SlotsAccountedFor, TypeOK
  <2> QED
    BY <2>1, <2>2
<1> QED
  BY <1>1, <1>6, <1>7, <1>8

LEMMA PopSwapIndInv == IndInv /\ PopSwap => IndInv'
<1> SUFFICES ASSUME IndInv, PopSwap PROVE IndInv'
  OBVIOUS
<1> USE DEF IndInv
<1>1. /\ readPos = readEnd /\ cpc = "idle"
      /\ pos' = SwappedPos /\ readPos' = HalfStart /\ readEnd' = FillEnd
      /\ UNCHANGED <<buffer, read, pc, slot, elem, pushResult>>
  BY DEF PopSwap, FetchOnEmpty, ClampedEnd, producerVars
<1>2. TypeOK'
  BY <1>1 DEF TypeOK, PopSwap, SwappedPos, HalfStart, HalfEnd, FillEnd, Smaller
<1>3. /\ pos.second \in BOOLEAN /\ pos.count \in Nat /\ readPos \in Nat
      /\ pos.second => pos'.second = FALSE /\ pos'.count = 0
      /\ ~pos.second => pos'.second = TRUE /\ pos'.count = Capacity
  <2>1. pos.second \in BOOLEAN /\ pos.count \in Nat /\ readPos \in Nat
    BY DEF TypeOK
  <2>2. CASE pos.second
    <3>1. pos' = [second |-> FALSE, count |-> 0]
      BY <1>1, <2>1, <2>2, Zenon DEF SwappedPos
    <3> QED
      BY <2>1, <2>2, <3>1
  <2>3. CASE ~pos.second
    <3>1. pos' = [second |-> TRUE, count |-> Capacity]
      BY <1>1, <2>1, <2>3, Zenon DEF SwappedPos
    <3> QED
      BY <2>1, <2>3, <3>1
  <2> QED
    BY <2>1, <2>2, <2>3
<1>4. HalfStart' = pos'.count /\ FillEnd' = pos'.count
  <2>1. CASE pos.second
    BY <1>3, <2>1 DEF HalfStart, FillEnd, HalfEnd, Smaller
  <2>2. CASE ~pos.second
    BY <1>3, <2>2 DEF HalfStart, FillEnd, HalfEnd, Smaller
  <2> QED
    BY <2>1, <2>2
<1>5. HalvesApart'
  <2>0. HalfStart <= pos.count
    BY DEF HalvesApart
  <2>1. /\ readPos' <= readEnd' /\ HalfStart' <= pos'.count
        /\ pos'.second => readEnd' <= Capacity
        /\ ~pos'.second => readPos' = readEnd' \/ Capacity <= readPos'
    <3>1. CASE pos.second
      BY <1>1, <1>3, <1>4, <2>0, <3>1 DEF HalfStart, HalfEnd, FillEnd, Smaller
    <3>2. CASE ~pos.second
      BY <1>1, <1>3, <1>4, <2>0, <3>2 DEF HalfStart, HalfEnd, FillEnd, Smaller
    <3> QED
      BY <3>1, <3>2
  <2>2. cpc' # "clear" /\ (cpc' # "idle" => readPos' # readEnd')
    BY <1>1 DEF PopSwap
  <2>3. readPos' \in Nat /\ readEnd' \in Nat
    BY <1>2 DEF TypeOK
  <2> QED
    BY <1>1, <2>1, <2>2, <2>3 DEF HalvesApart, Slots
<1>6. Claimed' = Claimed
  <2>1. Filling' = {}
    BY <1>3, <1>4 DEF Filling
  <2>2. Draining = {} /\ Draining' = Filling
    BY <1>1, <1>3 DEF Draining, Filling
  <2> QED
    BY <2>1, <2>2 DEF Claimed
<1>7. StoreHitsFreeSlot' /\ SlotsAccountedFor'
  BY <1>1, <1>6 DEF StoreHitsFreeSlot, SlotsAccountedFor, Pending, Slots
<1> QED
  BY <1>2, <1>5, <1>7

LEMMA PopReadIndInv == IndInv /\ (PopBegin \/ PopRead) => IndInv'
<1> SUFFICES ASSUME IndInv, PopBegin \/ PopRead PROVE IndInv'
  OBVIOUS
<1> USE DEF IndInv
<1>1. UNCHANGED <<pos, buffer, readPos, readEnd, pc, slot, elem, pushResult>>
  BY DEF PopBegin, PopRead, producerVars
<1>2. TypeOK' /\ HalvesApart'
  BY <1>1 DEF TypeOK, HalvesApart, PopBegin, PopRead, AwaitElement,
       FetchOnEmpty, HalfStart, HalfEnd, Slots
<1>3. StoreHitsFreeSlot' /\ SlotsAccountedFor'
  BY <1>1 DEF StoreHitsFreeSlot, SlotsAccountedFor, Pending, Slots, Claimed,
       Draining, Filling, FillEnd, HalfEnd, HalfStart
<1> QED
  BY <1>2, <1>3

LEMMA PopClearIndInv == IndInv /\ PopClear => IndInv'
<1> SUFFICES ASSUME IndInv, PopClear PROVE IndInv'
  OBVIOUS
<1> USE DEF IndInv
<1>1. /\ cpc = "clear" /\ cpc' = "idle" /\ readPos' = readPos + 1
      /\ buffer' = [buffer EXCEPT ![readPos] = Dummy]
      /\ UNCHANGED <<pos, readEnd, read, pc, slot, elem, pushResult>>
  BY DEF PopClear, ClearSlot, producerVars
<1>2. readPos \in Draining /\ readPos \in Slots /\ readPos \notin Filling
  <2>1. readPos \in Draining
    BY <1>1 DEF HalvesApart, Draining, TypeOK
  <2> QED
    BY <2>1, ClaimedSlots DEF Claimed
<1>3. TypeOK' /\ HalvesApart'
  BY <1>1, <1>2 DEF TypeOK, HalvesApart, PopClear, HalfStart, Slots
<1>4. buffer[readPos] # Dummy /\ Pending(readPos) = {}
  <2>1. buffer[readPos] # Dummy
    BY <1>1 DEF HalvesApart
  <2> QED
    BY <2>1 DEF StoreHitsFreeSlot, Pending
<1>5. Claimed' = Claimed \ {readPos}
  <2>1. Filling' = Filling
    BY <1>1 DEF Filling, FillEnd, HalfEnd, HalfStart
  <2>2. Draining' = Draining \ {readPos}
    BY <1>1 DEF Draining, TypeOK
  <2> QED
    BY <1>2, <2>1, <2>2 DEF Claimed
<1>6. \A i : Pending(i)' = Pending(i)
  BY <1>1 DEF Pending
<1>7. StoreHitsFreeSlot'
  BY <1>1, <1>2, <1>6 DEF StoreHitsFreeSlot, HalvesApart, TypeOK
<1>8. SlotsAccountedFor'
  <2> SUFFICES ASSUME NEW i \in Slots
               PROVE  (i \in Claimed)'
                        <=> (buffer'[i] # Dummy \/ Pending(i)' # {})
    BY DEF SlotsAccountedFor, Slots
  <2> QED
    BY <1>1, <1>2, <1>4, <1>5, <1>6 DEF SlotsAccountedFor, TypeOK
<1> QED
  BY <1>3, <1>7, <1>8

(* The inductive invariant: a pushed element's slot is its own from the    *)
(* fetch_add of push_back until the consumer has put the dummy back, for   *)
(* any number of producers stalled anywhere between their two steps.       *)
THEOREM InductiveInvariant == Spec => []IndInv
<1>1. IndInv /\ [Next]_vars => IndInv'
  <2> SUFFICES ASSUME IndInv, [Next]_vars PROVE IndInv'
    OBVIOUS
  <2>1. CASE \E p \in Producers : Push(p)
    BY <2>1, PushClaimIndInv, PushStoreIndInv DEF Push
  <2>2. CASE Pop
    BY <2>2, PopSwapIndInv, PopReadIndInv, PopClearIndInv DEF Pop
  <2>3. CASE UNCHANGED vars
    BY <2>3 DEF vars, producerVars, consumerVars, IndInv, TypeOK, HalvesApart,
         StoreHitsFreeSlot, SlotsAccountedFor, Pending, Claimed, Draining,
         Filling, FillEnd, HalfEnd, HalfStart, Slots
  <2> QED
    BY <2>1, <2>2, <2>3 DEF Next
<1> QED
  BY InitIndInv, <1>1, PTL DEF Spec

(* Type correctness: in particular _read_pos and _read_end never leave the *)
(* 2 * _capacity slots that were allocated.                                *)
THEOREM TypeCorrect == Spec => []TypeOK
<1>1. IndInv => TypeOK
  BY DEF IndInv
<1> QED
  BY InductiveInvariant, <1>1, PTL

(* push_back never overwrites an element, although it stores blindly.      *)
THEOREM NoOverwrite == Spec => []StoreHitsFreeSlot
<1>1. IndInv => StoreHitsFreeSlot
  BY DEF IndInv
<1> QED
  BY InductiveInvariant, <1>1, PTL

(* pop never waits on a slot that no producer is going to fill.            *)
THEOREM NoAbandonedSlot == Spec => []SlotsAccountedFor
<1>1. IndInv => SlotsAccountedFor
  BY DEF IndInv
<1> QED
  BY InductiveInvariant, <1>1, PTL
------------------------------------------------------------------------------
(* The refinement of FifoQueue.  The queue is compared element by element: *)
(* its k-th element is the one of the slot SlotOf(k).                      *)
DrainLength == readEnd - readPos
FillLength == FillEnd - HalfStart
QueueLength == DrainLength + FillLength
SlotOf(k) ==
  IF k <= DrainLength THEN readPos + k - 1
                      ELSE HalfStart + (k - DrainLength) - 1

QueueOfSlots ==
  /\ Represented \in Seq(Values)
  /\ Len(Represented) = QueueLength
  /\ \A k \in 1 .. QueueLength :
       SlotOf(k) \in Claimed /\ Represented[k] = ElementAt(SlotOf(k))

(* What a slot contributes to the queue: the element it holds, or the one  *)
(* its claimant is about to store.                                         *)
ElementsOfSlots ==
  \A i \in Slots :
    /\ buffer[i] # Dummy => ElementAt(i) = buffer[i]
    /\ \A p \in Pending(i) : ElementAt(i) = elem[p]

LEMMA StoredElement ==
  ASSUME NEW i \in Slots, buffer[i] # Dummy
  PROVE  ElementAt(i) = buffer[i]
BY DEF ElementAt

LEMMA OutstandingElement ==
  ASSUME IndInv, NEW p \in Producers, pc[p] = "store"
  PROVE  ElementAt(slot[p]) = elem[p]
<1>1. buffer[slot[p]] = Dummy /\ Pending(slot[p]) = {p}
  BY DEF IndInv, StoreHitsFreeSlot
<1>2. \A q \in Producers : pc[q] = "store" /\ slot[q] = slot[p] => q = p
  BY <1>1 DEF Pending
<1>3. (CHOOSE q \in Producers : pc[q] = "store" /\ slot[q] = slot[p]) = p
  BY <1>2
<1> QED
  BY <1>1, <1>3 DEF ElementAt

LEMMA SlotElements == IndInv => ElementsOfSlots
BY StoredElement, OutstandingElement DEF ElementsOfSlots, Pending

LEMMA ClaimedElement ==
  ASSUME IndInv, NEW i \in Claimed
  PROVE  ElementAt(i) \in Values
<1>1. i \in Slots /\ (buffer[i] # Dummy \/ Pending(i) # {})
  BY ClaimedSlots DEF IndInv, SlotsAccountedFor
<1>2. CASE buffer[i] # Dummy
  BY <1>1, <1>2, StoredElement DEF IndInv, TypeOK
<1>3. CASE buffer[i] = Dummy
  <2>1. PICK p \in Producers : pc[p] = "store" /\ slot[p] = i
    BY <1>1, <1>3 DEF Pending
  <2>2. ElementAt(i) = elem[p]
    BY <2>1, OutstandingElement
  <2>3. elem[p] \in Values
    BY <2>1 DEF IndInv, TypeOK, HalvesApart
  <2> QED
    BY <2>2, <2>3
<1> QED
  BY <1>2, <1>3

LEMMA Lengths ==
  ASSUME IndInv
  PROVE  /\ readPos \in Nat /\ readEnd \in Nat /\ HalfStart \in Nat
         /\ FillEnd \in Nat /\ HalfEnd \in Nat /\ pos.count \in Nat
         /\ HalfEnd = HalfStart + Capacity
         /\ DrainLength \in 0 .. Capacity /\ FillLength \in 0 .. Capacity
         /\ Fits(pos.count) => FillEnd = pos.count /\ FillLength < Capacity
         /\ ~Fits(pos.count) => FillLength = Capacity
BY DEF IndInv, TypeOK, HalvesApart, HalfStart, HalfEnd, FillEnd, Smaller, Fits,
       DrainLength, FillLength

LEMMA RepresentedQueue == IndInv => QueueOfSlots
<1> SUFFICES ASSUME IndInv PROVE QueueOfSlots
  OBVIOUS
<1> DEFINE drain == [i \in 1 .. (readEnd - readPos) |-> ElementAt(readPos + i - 1)]
           fill == [i \in 1 .. (FillEnd - HalfStart) |-> ElementAt(HalfStart + i - 1)]
<1>1. \A i \in 1 .. DrainLength : readPos + i - 1 \in Claimed
  BY Lengths DEF DrainLength, Claimed, Draining
<1>2. \A i \in 1 .. FillLength : HalfStart + i - 1 \in Claimed
  BY Lengths DEF FillLength, Claimed, Filling
<1>3. \A i \in 1 .. DrainLength : ElementAt(readPos + i - 1) \in Values
  BY <1>1, ClaimedElement
<1>4. \A i \in 1 .. FillLength : ElementAt(HalfStart + i - 1) \in Values
  BY <1>2, ClaimedElement
<1>5. drain \in Seq(Values) /\ Len(drain) = DrainLength
  BY <1>3, Lengths DEF DrainLength
<1>6. fill \in Seq(Values) /\ Len(fill) = FillLength
  BY <1>4, Lengths DEF FillLength
<1>7. Represented = drain \o fill
  BY DEF Represented
<1>8. \A k \in 1 .. DrainLength : drain[k] = ElementAt(readPos + k - 1)
  BY DEF DrainLength
<1>9. \A k \in 1 .. FillLength : fill[k] = ElementAt(HalfStart + k - 1)
  BY DEF FillLength
<1> HIDE DEF drain, fill
<1>10. /\ Represented \in Seq(Values) /\ Len(Represented) = QueueLength
       /\ \A k \in 1 .. QueueLength :
            Represented[k] = IF k <= DrainLength THEN drain[k]
                                                 ELSE fill[k - DrainLength]
  BY <1>5, <1>6, <1>7, ConcatProperties DEF QueueLength
<1>11. ASSUME NEW k \in 1 .. QueueLength
       PROVE  SlotOf(k) \in Claimed /\ Represented[k] = ElementAt(SlotOf(k))
  <2>1. CASE k <= DrainLength
    <3>1. k \in 1 .. DrainLength
      BY <2>1, Lengths DEF QueueLength
    <3> QED
      BY <1>1, <1>8, <1>10, <2>1, <3>1 DEF SlotOf
  <2>2. CASE ~(k <= DrainLength)
    <3>1. k - DrainLength \in 1 .. FillLength
      BY <2>2, Lengths DEF QueueLength
    <3> QED
      BY <1>2, <1>9, <1>10, <2>2, <3>1 DEF SlotOf
  <2> QED
    BY <2>1, <2>2
<1> QED
  BY <1>10, <1>11 DEF QueueOfSlots
(* The fetch_add of push_back appends the element, though it is stored     *)
(* later.                                                                  *)
LEMMA ClaimAppends ==
  ASSUME IndInv, IndInv', NEW p \in Producers, NEW e \in Values,
         NEW t \in Slots, t = pos.count, PushClaim(p, e), Fits(t)
  PROVE  Fifo!Accept(p, e)
<1> DEFINE n == QueueLength
<1>1. /\ pc[p] = "idle" /\ pc' = [pc EXCEPT ![p] = "store"]
      /\ slot' = [slot EXCEPT ![p] = t] /\ elem' = [elem EXCEPT ![p] = e]
      /\ UNCHANGED <<buffer, readPos, readEnd, pushResult, popResult>>
      /\ pos' = [pos EXCEPT !.count = @ + 1]
  BY DEF PushClaim, consumerVars
<1>2. pos'.count = t + 1 /\ pos'.second = pos.second
  BY <1>1 DEF IndInv, TypeOK
<1>3. QueueOfSlots /\ QueueOfSlots' /\ ElementsOfSlots /\ ElementsOfSlots'
  BY RepresentedQueue, SlotElements, PTL
<1>4. HalfStart' = HalfStart /\ HalfEnd' = HalfEnd /\ DrainLength' = DrainLength
  BY <1>1, <1>2 DEF HalfStart, HalfEnd, DrainLength
<1>5. FillEnd = t /\ FillEnd' = t + 1 /\ FillLength < Capacity
  BY <1>2, <1>4, Lengths DEF FillEnd, Smaller, Fits
<1>6. n \in Nat /\ n < 2 * Capacity /\ QueueLength' = n + 1
  BY <1>4, <1>5, Lengths DEF QueueLength, FillLength
<1>7. \A k \in 1 .. n + 1 : SlotOf(k)' = SlotOf(k)
  BY <1>4, <1>1 DEF SlotOf
<1>8. SlotOf(n + 1) = t
  BY <1>5, Lengths DEF SlotOf, QueueLength, FillLength
<1>9. ElementAt(t)' = e
  <2>1. p \in Pending(t)'
    BY <1>1 DEF Pending, IndInv, TypeOK
  <2>2. (\A q \in Pending(t) : ElementAt(t) = elem[q])'
    BY <1>3 DEF ElementsOfSlots, Slots
  <2> QED
    BY <1>1, <2>1, <2>2 DEF IndInv, TypeOK
<1>10. ASSUME NEW i \in Claimed PROVE ElementAt(i)' = ElementAt(i)
  <2>1. i \in Slots /\ (buffer[i] # Dummy \/ Pending(i) # {})
    BY ClaimedSlots DEF IndInv, SlotsAccountedFor
  <2>2. CASE buffer[i] # Dummy
    BY <1>1, <2>2 DEF ElementAt
  <2>3. CASE buffer[i] = Dummy
    <3>1. PICK q \in Producers : q \in Pending(i)
      BY <2>1, <2>3 DEF Pending
    <3>2. q # p /\ q \in Pending(i)' /\ elem'[q] = elem[q]
      BY <1>1, <3>1 DEF Pending, IndInv, TypeOK
    <3>3. (\A r \in Pending(i) : ElementAt(i) = elem[r])'
      BY <1>3, <2>1 DEF ElementsOfSlots, Slots
    <3>4. ElementAt(i) = elem[q]
      BY <1>3, <2>1, <3>1 DEF ElementsOfSlots
    <3> QED
      BY <3>2, <3>3, <3>4
  <2> QED
    BY <2>2, <2>3
<1>11. Represented' = Append(Represented, e)
  <2> DEFINE s == Represented
             u == Append(Represented, e)
  <2>1. s \in Seq(Values) /\ Len(s) = n
    BY <1>3 DEF QueueOfSlots
  <2>2. u \in Seq(Values) /\ Len(u) = n + 1
    BY <2>1
  <2>3. s' \in Seq(Values) /\ Len(s') = n + 1
    BY <1>3, <1>6 DEF QueueOfSlots
  <2>4. ASSUME NEW k \in 1 .. n + 1 PROVE s'[k] = u[k]
    <3>1. (Represented[k] = ElementAt(SlotOf(k)))'
      BY <1>3, <1>6 DEF QueueOfSlots
    <3>2. CASE k = n + 1
      <4>1. s'[k] = e
        BY <1>7, <1>8, <1>9, <3>1, <3>2
      <4> QED
        BY <2>1, <3>2, <4>1
    <3>3. CASE k # n + 1
      <4>1. k \in 1 .. n
        BY <1>6, <3>3
      <4>2. SlotOf(k) \in Claimed /\ s[k] = ElementAt(SlotOf(k))
        BY <1>3, <4>1 DEF QueueOfSlots
      <4>3. ElementAt(SlotOf(k))' = ElementAt(SlotOf(k))
        BY <1>7, <1>10, <4>2
      <4> QED
        BY <2>1, <3>1, <4>1, <4>2, <4>3
    <3> QED
      BY <3>2, <3>3
  <2> HIDE DEF s, u
  <2>5. s' = u
    BY <2>2, <2>3, <2>4, SeqEqual
  <2> QED
    BY <2>5 DEF s, u
<1>12. [q \in Producers |-> pc[q] = "store" \/ pushResult[q]]'
         = [[q \in Producers |-> pc[q] = "store" \/ pushResult[q]]
              EXCEPT ![p] = TRUE]
  BY <1>1 DEF IndInv, TypeOK
<1>13. Len(Represented) < 2 * Capacity
  BY <1>3, <1>6 DEF QueueOfSlots
<1> QED
  BY <1>1, <1>11, <1>12, <1>13 DEF Fifo!Accept
LEMMA SameQueue ==
  ASSUME IndInv, IndInv', QueueLength' = QueueLength,
         \A k \in 1 .. QueueLength :
           ElementAt(SlotOf(k))' = ElementAt(SlotOf(k))
  PROVE  Represented' = Represented
<1> DEFINE s == Represented
<1>1. QueueOfSlots /\ QueueOfSlots'
  BY RepresentedQueue, PTL
<1>2. s \in Seq(Values) /\ Len(s) = QueueLength
  BY <1>1 DEF QueueOfSlots
<1>3. s' \in Seq(Values) /\ Len(s') = QueueLength
  BY <1>1 DEF QueueOfSlots
<1>4. ASSUME NEW k \in 1 .. QueueLength PROVE s'[k] = s[k]
  <2>1. (Represented[k] = ElementAt(SlotOf(k)))'
    BY <1>1 DEF QueueOfSlots
  <2>2. Represented[k] = ElementAt(SlotOf(k))
    BY <1>1 DEF QueueOfSlots
  <2> QED
    BY <2>1, <2>2
<1> HIDE DEF s
<1>5. s' = s
  BY <1>2, <1>3, <1>4, SeqEqual
<1> QED
  BY <1>5 DEF s

(* A push_back that finds the half full is refused with Capacity elements  *)
(* in that half alone.                                                     *)
LEMMA ClaimRefused ==
  ASSUME IndInv, IndInv', NEW p \in Producers, NEW e \in Values,
         PushClaim(p, e), ~Fits(pos.count)
  PROVE  Fifo!Refuse(p)
<1>1. /\ pc[p] = "idle" /\ pushResult' = [pushResult EXCEPT ![p] = FALSE]
      /\ UNCHANGED <<pc, slot, elem, buffer, readPos, readEnd, popResult>>
      /\ pos' = [pos EXCEPT !.count = @ + 1]
  BY DEF PushClaim, consumerVars
<1>2. pos'.count = pos.count + 1 /\ pos'.second = pos.second
  BY <1>1 DEF IndInv, TypeOK
<1>3. UNCHANGED <<HalfStart, HalfEnd, FillEnd, DrainLength>>
  BY <1>1, <1>2, Lengths DEF HalfStart, HalfEnd, DrainLength, FillEnd, Smaller,
     Fits
<1>4. QueueLength' = QueueLength
  BY <1>3 DEF QueueLength, FillLength
<1>5. \A k \in 1 .. QueueLength :
        ElementAt(SlotOf(k))' = ElementAt(SlotOf(k))
  BY <1>1, <1>3 DEF ElementAt, SlotOf
<1>6. Represented' = Represented
  BY <1>4, <1>5, SameQueue
<1>7. QueueOfSlots
  BY RepresentedQueue
<1>8. Len(Represented) >= Capacity
  BY <1>7, Lengths DEF QueueOfSlots, QueueLength
<1>9. [q \in Producers |-> pc[q] = "store" \/ pushResult[q]]'
        = [[q \in Producers |-> pc[q] = "store" \/ pushResult[q]]
             EXCEPT ![p] = FALSE]
  BY <1>1 DEF IndInv, TypeOK
<1> QED
  BY <1>1, <1>6, <1>8, <1>9 DEF Fifo!Refuse

(* The store of push_back changes nothing a user of the queue can see.     *)
LEMMA StoreStutters ==
  ASSUME IndInv, IndInv', NEW p \in Producers, PushStore(p)
  PROVE  UNCHANGED Fifo!vars
<1>1. /\ pc[p] = "store" /\ pc' = [pc EXCEPT ![p] = "idle"]
      /\ buffer' = [buffer EXCEPT ![slot[p]] = elem[p]]
      /\ pushResult' = [pushResult EXCEPT ![p] = TRUE]
      /\ UNCHANGED <<pos, slot, elem, readPos, readEnd, popResult>>
  BY DEF PushStore, consumerVars
<1>2. UNCHANGED <<HalfStart, FillEnd, DrainLength, QueueLength>>
  BY <1>1 DEF HalfStart, HalfEnd, FillEnd, DrainLength, QueueLength, FillLength
<1>3. ElementsOfSlots /\ ElementsOfSlots' /\ QueueOfSlots
  BY SlotElements, RepresentedQueue, PTL
<1>4. slot[p] \in Slots /\ elem[p] # Dummy /\ Pending(slot[p]) = {p}
  BY <1>1 DEF IndInv, HalvesApart, StoreHitsFreeSlot
<1>5. ASSUME NEW i \in Claimed PROVE ElementAt(i)' = ElementAt(i)
  <2>1. i \in Slots
    BY ClaimedSlots DEF IndInv
  <2>2. CASE i = slot[p]
    <3>1. buffer'[i] = elem[p]
      BY <1>1, <1>4, <2>2 DEF IndInv, TypeOK
    <3>2. ElementAt(i) = elem[p]
      BY <1>3, <1>4, <2>2 DEF ElementsOfSlots
    <3> QED
      BY <1>4, <3>1, <3>2 DEF ElementAt
  <2>3. CASE i # slot[p]
    <3>1. buffer'[i] = buffer[i]
      BY <1>1, <2>3 DEF IndInv, TypeOK
    <3>2. CASE buffer[i] # Dummy
      BY <3>1, <3>2 DEF ElementAt
    <3>3. CASE buffer[i] = Dummy
      <4>1. PICK q \in Producers : q \in Pending(i)
        BY <2>1, <3>3 DEF Pending, IndInv, SlotsAccountedFor
      <4>2. q # p /\ q \in Pending(i)'
        BY <1>1, <2>3, <4>1 DEF Pending, IndInv, TypeOK
      <4>3. (\A r \in Pending(i) : ElementAt(i) = elem[r])'
        BY <1>3, <2>1 DEF ElementsOfSlots, Slots
      <4>4. ElementAt(i) = elem[q]
        BY <1>3, <2>1, <4>1 DEF ElementsOfSlots
      <4> QED
        BY <1>1, <4>2, <4>3, <4>4
    <3> QED
      BY <3>2, <3>3
  <2> QED
    BY <2>2, <2>3
<1>6. \A k : SlotOf(k)' = SlotOf(k)
  BY <1>1, <1>2 DEF SlotOf
<1>7. \A k \in 1 .. QueueLength :
        ElementAt(SlotOf(k))' = ElementAt(SlotOf(k))
  BY <1>3, <1>5, <1>6 DEF QueueOfSlots
<1>8. Represented' = Represented
  BY <1>2, <1>7, SameQueue
<1>9. [q \in Producers |-> pc[q] = "store" \/ pushResult[q]]'
        = [q \in Producers |-> pc[q] = "store" \/ pushResult[q]]
  BY <1>1 DEF IndInv, TypeOK
<1> QED
  BY <1>1, <1>8, <1>9 DEF Fifo!vars

(* The swap renames the filled half to the drained one, and pop reports    *)
(* that there is no element only if nothing has been claimed there either. *)
LEMMA SwapFindsEmpty ==
  ASSUME IndInv, IndInv', PopSwap
  PROVE  Fifo!FindEmpty \/ UNCHANGED Fifo!vars
<1>1. /\ readPos = readEnd /\ readPos' = HalfStart /\ readEnd' = FillEnd
      /\ UNCHANGED <<buffer, pc, slot, elem, pushResult>>
  BY DEF PopSwap, FetchOnEmpty, ClampedEnd, producerVars
<1>2. /\ pos.second => pos'.second = FALSE /\ pos'.count = 0
      /\ ~pos.second => pos'.second = TRUE /\ pos'.count = Capacity
  <2>1. pos' = SwappedPos
    BY DEF PopSwap
  <2>2. CASE pos.second
    BY <2>1, <2>2 DEF SwappedPos
  <2>3. CASE ~pos.second
    <3>1. pos' = [second |-> TRUE, count |-> Capacity]
      BY <2>1, <2>3, Zenon DEF SwappedPos
    <3> QED
      BY <2>3, <3>1
  <2> QED
    BY <2>2, <2>3
<1>3. FillLength' = 0
  <2>1. CASE pos.second
    BY <1>2, <2>1 DEF FillLength, HalfStart, FillEnd, HalfEnd, Smaller
  <2>2. CASE ~pos.second
    BY <1>2, <2>2 DEF FillLength, HalfStart, FillEnd, HalfEnd, Smaller
  <2> QED
    BY <2>1, <2>2
<1>4. DrainLength = 0 /\ DrainLength' = FillLength
  BY <1>1, Lengths DEF DrainLength, FillLength
<1>5. QueueLength' = QueueLength /\ QueueLength = FillLength
  BY <1>3, <1>4, Lengths DEF QueueLength
<1>6. \A k \in 1 .. QueueLength : SlotOf(k)' = SlotOf(k)
  BY <1>1, <1>4, <1>5, Lengths DEF SlotOf
<1>7. \A i : ElementAt(i)' = ElementAt(i)
  BY <1>1 DEF ElementAt
<1>8. Represented' = Represented
  BY <1>5, <1>6, <1>7, SameQueue
<1>9. UNCHANGED [q \in Producers |-> pc[q] = "store" \/ pushResult[q]]
  BY <1>1
<1>10. CASE readPos' = readEnd'
  <2>1. popResult' = NoElement
    BY <1>10 DEF PopSwap
  <2>2. QueueLength = 0
    BY <1>1, <1>5, <1>10, Lengths DEF FillLength
  <2>3. QueueOfSlots
    BY RepresentedQueue
  <2>4. Represented = << >>
    BY <2>2, <2>3 DEF QueueOfSlots
  <2> QED
    BY <1>8, <1>9, <2>1, <2>4 DEF Fifo!FindEmpty
<1>11. CASE readPos' # readEnd'
  <2>1. popResult' = popResult
    BY <1>11 DEF PopSwap
  <2> QED
    BY <1>8, <1>9, <2>1 DEF Fifo!vars
<1> QED
  BY <1>10, <1>11

(* pop returns the oldest element.                                         *)
LEMMA ClearTakes ==
  ASSUME IndInv, IndInv', PopClear
  PROVE  Fifo!Take
<1>1. /\ cpc = "clear" /\ readPos' = readPos + 1 /\ popResult' = read
      /\ buffer' = [buffer EXCEPT ![readPos] = Dummy]
      /\ UNCHANGED <<pos, readEnd, pc, slot, elem, pushResult>>
  BY DEF PopClear, ClearSlot, producerVars
<1>2. readPos < readEnd /\ read = buffer[readPos] /\ read # Dummy
  BY <1>1 DEF IndInv, HalvesApart
<1>3. UNCHANGED <<HalfStart, FillEnd, FillLength>> /\ DrainLength' = DrainLength - 1
  BY <1>1, Lengths DEF HalfStart, HalfEnd, FillEnd, FillLength, DrainLength
<1>4. QueueLength \in Nat /\ QueueLength > 0 /\ QueueLength' = QueueLength - 1
  BY <1>2, <1>3, Lengths DEF QueueLength, DrainLength
<1>5. QueueOfSlots /\ QueueOfSlots' /\ ElementsOfSlots
  BY RepresentedQueue, SlotElements, PTL
<1>6. readPos \in Slots /\ readPos \notin Claimed'
  <2>1. readPos \in Claimed /\ readPos \notin Filling
    BY <1>2, ClaimedSlots, Lengths DEF Claimed, Draining, IndInv
  <2>2. Filling' = Filling /\ Draining' = (readPos + 1) .. (readEnd - 1)
    BY <1>1, <1>3 DEF Filling, Draining
  <2> QED
    BY <2>1, <2>2, ClaimedSlots, Lengths DEF Claimed, IndInv
<1>7. SlotOf(1) = readPos
  BY <1>2, Lengths DEF SlotOf, DrainLength
<1>8. Represented[1] = read
  <2>1. Represented[1] = ElementAt(SlotOf(1))
    BY <1>4, <1>5 DEF QueueOfSlots
  <2> QED
    BY <1>2, <1>5, <1>6, <1>7, <2>1 DEF ElementsOfSlots
<1>9. \A k \in 1 .. QueueLength - 1 : SlotOf(k)' = SlotOf(k + 1)
  BY <1>1, <1>3, <1>4, Lengths DEF SlotOf
<1>10. \A i \in Slots : i # readPos => ElementAt(i)' = ElementAt(i)
  BY <1>1 DEF ElementAt, IndInv, TypeOK
<1>11. Represented' = Tail(Represented)
  <2> DEFINE s == Represented
             u == Tail(Represented)
  <2>1. s \in Seq(Values) /\ Len(s) = QueueLength /\ s # << >>
    BY <1>4, <1>5 DEF QueueOfSlots
  <2>2. u \in Seq(Values) /\ Len(u) = QueueLength - 1
    BY <2>1, HeadTailProperties
  <2>3. s' \in Seq(Values) /\ Len(s') = QueueLength - 1
    BY <1>4, <1>5 DEF QueueOfSlots
  <2>4. ASSUME NEW k \in 1 .. QueueLength - 1 PROVE s'[k] = u[k]
    <3>1. u[k] = s[k + 1]
      BY <2>1, <2>2, HeadTailProperties
    <3>2. s[k + 1] = ElementAt(SlotOf(k + 1))
      BY <1>4, <1>5 DEF QueueOfSlots
    <3>3. (SlotOf(k) \in Claimed /\ Represented[k] = ElementAt(SlotOf(k)))'
      BY <1>4, <1>5 DEF QueueOfSlots
    <3>4. SlotOf(k + 1) \in Claimed
      BY <1>4, <1>5 DEF QueueOfSlots
    <3>5. SlotOf(k + 1) \in Slots
      BY <3>4, ClaimedSlots DEF IndInv
    <3>6. SlotOf(k)' = SlotOf(k + 1) /\ SlotOf(k + 1) # readPos
      BY <1>6, <1>9, <3>3
    <3>7. ElementAt(SlotOf(k))' = ElementAt(SlotOf(k + 1))
      BY <1>10, <3>5, <3>6
    <3> QED
      BY <3>1, <3>2, <3>3, <3>7
  <2> HIDE DEF s, u
  <2>5. s' = u
    BY <2>2, <2>3, <2>4, SeqEqual
  <2> QED
    BY <2>5 DEF s, u
<1>12. Represented # << >> /\ Head(Represented) = read
  BY <1>4, <1>5, <1>8 DEF QueueOfSlots
<1>13. UNCHANGED [q \in Producers |-> pc[q] = "store" \/ pushResult[q]]
  BY <1>1
<1> QED
  BY <1>1, <1>11, <1>12, <1>13 DEF Fifo!Take

(* The buffer implements the queue: what push_back accepts comes out once  *)
(* and in the order of the fetch_adds, pop finds nothing only when nothing *)
(* is queued, and push_back refuses only with Capacity elements queued.    *)
THEOREM BufferIsFifo == Spec => ImplementsFifo
<1>1. Init => Fifo!Init
  <2> SUFFICES ASSUME Init PROVE Fifo!Init
    OBVIOUS
  <2>1. IndInv /\ QueueOfSlots
    BY InitIndInv, RepresentedQueue
  <2>2. QueueLength = 0
    BY DEF Init, QueueLength, DrainLength, FillLength, FillEnd, HalfEnd,
       HalfStart, Smaller
  <2>3. Represented = << >>
    BY <2>1, <2>2 DEF QueueOfSlots
  <2> QED
    BY <2>3 DEF Init, Fifo!Init
<1>2. IndInv /\ IndInv' /\ [Next]_vars => [Fifo!Next]_(Fifo!vars)
  <2> SUFFICES ASSUME IndInv, IndInv', [Next]_vars
               PROVE  [Fifo!Next]_(Fifo!vars)
    OBVIOUS
  <2>1. ASSUME NEW p \in Producers, NEW e \in Values, PushClaim(p, e)
        PROVE  Fifo!Next
    <3>1. CASE Fits(pos.count)
      <4>1. pos.count \in Slots
        BY <3>1, ClaimedSlots DEF IndInv
      <4>2. Fifo!Accept(p, e)
        BY <2>1, <3>1, <4>1, ClaimAppends
      <4> QED
        BY <4>2 DEF Fifo!Next
    <3>2. CASE ~Fits(pos.count)
      BY <2>1, <3>2, ClaimRefused DEF Fifo!Next
    <3> QED
      BY <3>1, <3>2
  <2>2. ASSUME NEW p \in Producers, PushStore(p)
        PROVE  UNCHANGED Fifo!vars
    BY <2>2, StoreStutters
  <2>3. CASE PopSwap
    BY <2>3, SwapFindsEmpty DEF Fifo!Next
  <2>4. CASE PopClear
    BY <2>4, ClearTakes DEF Fifo!Next
  <2>5. CASE PopBegin \/ PopRead \/ UNCHANGED vars
    <3>1. UNCHANGED <<pos, buffer, readPos, readEnd, pc, slot, elem,
                      pushResult, popResult>>
      BY <2>5 DEF PopBegin, PopRead, vars, producerVars, consumerVars
    <3> QED
      BY <3>1 DEF Fifo!vars, Represented, ElementAt, FillEnd, HalfStart,
         HalfEnd
  <2> QED
    BY <2>1, <2>2, <2>3, <2>4, <2>5 DEF Next, Push, Pop
<1> QED
  BY <1>1, <1>2, InductiveInvariant, PTL DEF Spec, ImplementsFifo, Fifo!Spec
==============================================================================
