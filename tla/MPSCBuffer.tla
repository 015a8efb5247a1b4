----------------------------- MODULE MPSCBuffer ------------------------------
(***************************************************************************)
(* data_structures/many_producer_single_consumer_buffer.hpp                *)
(*                                                                         *)
(* 2 * Capacity slots form two halves.  Producers claim slots of one half  *)
(* with a fetch_add on _pos and store into them afterwards; the consumer   *)
(* drains the other half, and when that is empty swaps the halves with an  *)
(* exchange on _pos.  A claimed slot whose store is still outstanding      *)
(* holds the dummy element, on which the consumer spins.                   *)
(*                                                                         *)
(* _pos is one word: its topmost bit says which half is being filled, the  *)
(* other bits count.  It is modelled as a record of the two; the model     *)
(* assumes what 63 bits give, that the count never carries into the flag   *)
(* (MaxPos bounds the refused pushes between two swaps).                   *)
(***************************************************************************)
EXTENDS Integers, Sequences

CONSTANTS
  Producers,   \* the threads that call push_back
  Values,      \* the elements they push
  Dummy,       \* the template parameter dummy
  NoElement,   \* std::nullopt
  Capacity,    \* _capacity
  MaxPos       \* bound: the largest count _pos reaches

ASSUME CapacityAssumption == Capacity \in Nat
ASSUME MaxPosAssumption == MaxPos \in Nat /\ MaxPos >= 2 * Capacity
ASSUME DummyAssumption == Dummy \notin Values /\ NoElement \notin Values

VARIABLES
  pos,         \* _pos: [second |-> flag bit, count |-> the other bits]
  buffer,      \* _buffer
  readPos,     \* _read_pos
  readEnd,     \* _read_end
  pc,          \* per producer: "idle", or "store" between claim and store
  slot,        \* per producer: tpos, the slot it has claimed
  elem,        \* per producer: e, the element it is pushing
  pushResult,  \* per producer: what its last push_back returned
  cpc,         \* the consumer: "idle", or inside pop in "read" or "clear"
  read,        \* the consumer's local variable read
  popResult    \* what its last pop returned

producerVars == <<pc, slot, elem, pushResult>>
consumerVars == <<readPos, readEnd, cpc, read, popResult>>
vars == <<pos, buffer, producerVars, consumerVars>>

Slots == 0 .. (2 * Capacity - 1)
Smaller(a, b) == IF a < b THEN a ELSE b

(* The half that producers fill starts at HalfStart and ends before        *)
(* HalfEnd; its slots below FillEnd have been claimed.                     *)
HalfStart == IF pos.second THEN Capacity ELSE 0
HalfEnd == IF pos.second THEN 2 * Capacity ELSE Capacity
FillEnd == Smaller(pos.count, HalfEnd)

------------------------------------------------------------------------------
(* Plausible bugs, each substituted for the definition it varies.          *)

SwappedPosStale == [second |-> ~pos.second, count |-> 0]
AwaitElementSkipped == TRUE

------------------------------------------------------------------------------
Init ==
  /\ pos = [second |-> FALSE, count |-> 0]
  /\ buffer = [i \in Slots |-> Dummy]
  /\ readPos = 0
  /\ readEnd = 0
  /\ pc = [p \in Producers |-> "idle"]
  /\ slot = [p \in Producers |-> 0]
  /\ elem = [p \in Producers |-> Dummy]
  /\ pushResult = [p \in Producers |-> TRUE]
  /\ cpc = "idle"
  /\ read = Dummy
  /\ popResult = NoElement

Fits(tpos) == tpos < HalfEnd

(* push_back, first step: the fetch_add that claims a slot or finds the    *)
(* half full.  The count grows in both cases.                              *)
PushClaim(p, e) ==
  /\ pc[p] = "idle"
  /\ pos.count < MaxPos
  /\ pos' = [pos EXCEPT !.count = @ + 1]
  /\ \/ /\ Fits(pos.count)
        /\ pc' = [pc EXCEPT ![p] = "store"]
        /\ slot' = [slot EXCEPT ![p] = pos.count]
        /\ elem' = [elem EXCEPT ![p] = e]
        /\ UNCHANGED pushResult
     \/ /\ ~Fits(pos.count)
        /\ pushResult' = [pushResult EXCEPT ![p] = FALSE]
        /\ UNCHANGED <<pc, slot, elem>>
  /\ UNCHANGED <<buffer, consumerVars>>

(* push_back, second step: the store into the claimed slot.                *)
PushStore(p) ==
  /\ pc[p] = "store"
  /\ buffer' = [buffer EXCEPT ![slot[p]] = elem[p]]
  /\ pc' = [pc EXCEPT ![p] = "idle"]
  /\ pushResult' = [pushResult EXCEPT ![p] = TRUE]
  /\ UNCHANGED <<pos, slot, elem, consumerVars>>

(* What the exchange of fetch_on_empty_read_buffer writes into _pos.  Only *)
(* the consumer changes the flag, so loading it and exchanging the word    *)
(* are one step.                                                           *)
SwappedPos ==
  [second |-> ~pos.second, count |-> IF pos.second THEN 0 ELSE Capacity]

ClampedEnd == FillEnd

FetchOnEmpty == readPos = readEnd

(* pop with an empty read half: fetch_on_empty_read_buffer takes over the  *)
(* half that was filled.  If that is empty too, pop returns no element.    *)
PopSwap ==
  /\ cpc = "idle"
  /\ FetchOnEmpty
  /\ pos' = SwappedPos
  /\ readPos' = HalfStart
  /\ readEnd' = ClampedEnd
  /\ IF readPos' = readEnd'
     THEN popResult' = NoElement /\ cpc' = "idle"
     ELSE UNCHANGED popResult /\ cpc' = "read"
  /\ UNCHANGED <<buffer, read, producerVars>>

(* pop while the read half still has elements goes straight to reading.    *)
PopBegin ==
  /\ cpc = "idle"
  /\ ~FetchOnEmpty
  /\ cpc' = "read"
  /\ UNCHANGED <<pos, buffer, readPos, readEnd, read, popResult, producerVars>>

AwaitElement == buffer[readPos] # Dummy

(* pop's spin loop, left once the slot holds something else than dummy.    *)
PopRead ==
  /\ cpc = "read"
  /\ AwaitElement
  /\ read' = buffer[readPos]
  /\ cpc' = "clear"
  /\ UNCHANGED <<pos, buffer, readPos, readEnd, popResult, producerVars>>

ClearSlot == buffer' = [buffer EXCEPT ![readPos] = Dummy]

(* pop puts the dummy back, advances and returns what it read.             *)
PopClear ==
  /\ cpc = "clear"
  /\ ClearSlot
  /\ readPos' = readPos + 1
  /\ popResult' = read
  /\ cpc' = "idle"
  /\ UNCHANGED <<pos, readEnd, read, producerVars>>

Push(p) == PushStore(p) \/ \E e \in Values : PushClaim(p, e)
Pop == PopSwap \/ PopBegin \/ PopRead \/ PopClear

Next == (\E p \in Producers : Push(p)) \/ Pop

Spec == Init /\ [][Next]_vars

(* A producer that has claimed a slot goes on to its store, and the owning *)
(* thread keeps calling pop and finishes each call, as the threads of      *)
(* tests/src/test_many_producer_single_consumer_buffer.cpp do.  Nothing    *)
(* obliges a producer to push.                                             *)
FairSpec == Spec /\ WF_vars(Pop) /\ \A p \in Producers : WF_vars(PushStore(p))

------------------------------------------------------------------------------
(* Properties.                                                             *)

(* The slots the consumer still has to read in the half it drains, and     *)
(* those claimed in the half being filled.                                 *)
Draining == readPos .. (readEnd - 1)
Filling == HalfStart .. (FillEnd - 1)
Claimed == Draining \cup Filling
Pending(i) == {p \in Producers : pc[p] = "store" /\ slot[p] = i}

TypeOK ==
  /\ pos \in [second : BOOLEAN, count : 0 .. MaxPos]
  /\ buffer \in [Slots -> Values \cup {Dummy}]
  /\ readPos \in 0 .. 2 * Capacity
  /\ readEnd \in 0 .. 2 * Capacity
  /\ pc \in [Producers -> {"idle", "store"}]
  /\ slot \in [Producers -> Nat]
  /\ elem \in [Producers -> Values \cup {Dummy}]
  /\ pushResult \in [Producers -> BOOLEAN]
  /\ cpc \in {"idle", "read", "clear"}
  /\ read \in Values \cup {Dummy}
  /\ popResult \in Values \cup {NoElement}

(* A producer that is about to store, however long ago and in whichever    *)
(* half it claimed its slot, finds the dummy there and is the only one     *)
(* with that slot: no pushed element is ever overwritten, although         *)
(* push_back stores without looking.                                       *)
StoreHitsFreeSlot ==
  \A p \in Producers : pc[p] = "store" =>
    /\ buffer[slot[p]] = Dummy
    /\ Pending(slot[p]) = {p}

(* Every claimed slot either holds its element or belongs to a producer    *)
(* that has yet to store, so the consumer never spins on a slot that       *)
(* nobody will fill; every other slot is dummy and free to be claimed.     *)
SlotsAccountedFor ==
  \A i \in Slots : (i \in Claimed) <=> (buffer[i] # Dummy \/ Pending(i) # {})

(* Why the two hold: what the consumer still has to read lies in the half  *)
(* that is not being filled, and inside pop it is not empty.               *)
HalvesApart ==
  /\ readPos <= readEnd
  /\ HalfStart <= pos.count
  /\ pos.second => readEnd <= Capacity
  /\ ~pos.second => readPos = readEnd \/ Capacity <= readPos
  /\ cpc # "idle" => readPos < readEnd
  /\ cpc = "clear" => read = buffer[readPos] /\ read # Dummy
  /\ \A p \in Producers :
       pc[p] = "store" => slot[p] \in Slots /\ elem[p] # Dummy

(* The inductive invariant: the conjunction is preserved by every step.    *)
IndInv == TypeOK /\ HalvesApart /\ StoreHitsFreeSlot /\ SlotsAccountedFor

(* The consumer's spin loop ends: a pop that has chosen a slot returns.    *)
PopReturns == (cpc = "read") ~> (cpc = "idle")

(* Every successful push is delivered: a claimed slot is eventually read   *)
(* and given back by the consumer.                                         *)
ClaimsAreConsumed == \A i \in Slots : (i \in Claimed) ~> (i \notin Claimed)

(* The queue the halves represent: what is left of the half being drained, *)
(* then the half being filled, in slot order.  An element counts from the  *)
(* moment its slot is claimed.                                             *)
ElementAt(i) ==
  IF buffer[i] # Dummy THEN buffer[i]
  ELSE elem[CHOOSE p \in Producers : pc[p] = "store" /\ slot[p] = i]

Represented ==
  [i \in 1 .. (readEnd - readPos) |-> ElementAt(readPos + i - 1)]
    \o [i \in 1 .. (FillEnd - HalfStart) |-> ElementAt(HalfStart + i - 1)]

Fifo == INSTANCE FifoQueue WITH
  queue <- Represented,
  pushResult <- [p \in Producers |-> pc[p] = "store" \/ pushResult[p]]

(* The buffer implements the queue: elements come out in the order of the  *)
(* fetch_adds across all producers, none lost or duplicated; pop reports   *)
(* empty only when it is; push_back refuses only at Capacity and more.     *)
ImplementsFifo == Fifo!Spec
==============================================================================
