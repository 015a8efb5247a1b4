------------------------------ MODULE MarkPointer ------------------------------
(***************************************************************************)
(* mark_pointer.hpp: pointers with flags in their topmost bits, which hold *)
(* nothing else.  A word is the set of the positions of its bits that are  *)
(* set.  Threads work on one atomic pointer.                               *)
(***************************************************************************)
EXTENDS Integers

CONSTANTS
  Threads,
  Bits,      \* the bits of a word, 64
  MarkBits   \* how many of them are flags, 16

VARIABLES
  tar,       \* the atomic pointer
  exp,       \* per thread: what it expects there
  address,   \* history: the address that was stored
  marked     \* history: the flags set since then

vars == <<tar, exp, address, marked>>

Flags == 0 .. (MarkBits - 1)
Low == Bits - MarkBits
Word == SUBSET (0 .. (Bits - 1))
Address == SUBSET (0 .. (Low - 1))

------------------------------------------------------------------------------
(* Plausible bugs, each substituted for the definition it varies.          *)

LowerInclusive(i) == 0 .. (Bits - 1 - i)

------------------------------------------------------------------------------
(* flag, mask and lower.                                                   *)
Flag(i) == {Bits - 1 - i}
Mask(i) == (0 .. (Bits - 1)) \ Flag(i)
Lower(i) == 0 .. (Bits - 2 - i)

Mark(i, w) == w \cup Flag(i)
Unmark(i, w) == w \cap Mask(i)
Clear(w) == w \cap Lower(MarkBits - 1)

GetMark(i, w) == w \cap Flag(i) # {}
IsMarked(w) == w \ Lower(MarkBits - 1) # {}
GetAllMarks(w) == {b - Low : b \in {x \in w : x >= Low}}
SetAllMarks(w, marks) == w \cup {b + Low : b \in marks}

------------------------------------------------------------------------------
Init ==
  /\ tar = {}
  /\ exp = [t \in Threads |-> {}]
  /\ address = {}
  /\ marked = {}

Store(a) ==
  /\ tar' = a /\ address' = a /\ marked' = {}
  /\ UNCHANGED exp

Load(t) ==
  /\ exp' = [exp EXCEPT ![t] = tar]
  /\ UNCHANGED <<tar, address, marked>>

(* atomic_mark: a CAS that puts what it finds into exp when it fails.      *)
AtomicMark(t, i) ==
  IF tar = exp[t]
  THEN /\ tar' = Mark(i, exp[t])
       /\ marked' = marked \cup {i}
       /\ UNCHANGED <<exp, address>>
  ELSE Load(t)

(* A thread stores what unmark, clear or set_all_marks makes of the        *)
(* pointer that is there.                                                  *)
StoreUnmarked(i) ==
  /\ tar' = Unmark(i, tar) /\ marked' = marked \ {i}
  /\ UNCHANGED <<exp, address>>

StoreCleared ==
  /\ tar' = Clear(tar) /\ marked' = {}
  /\ UNCHANGED <<exp, address>>

StoreMarks(marks) ==
  /\ tar' = SetAllMarks(tar, marks)
  /\ marked' = marked \cup {i \in Flags : MarkBits - 1 - i \in marks}
  /\ UNCHANGED <<exp, address>>

Next ==
  \/ \E a \in Address : Store(a)
  \/ \E t \in Threads : Load(t) \/ \E i \in Flags : AtomicMark(t, i)
  \/ \E i \in Flags : StoreUnmarked(i)
  \/ StoreCleared
  \/ \E marks \in SUBSET Flags : StoreMarks(marks)

Spec == Init /\ [][Next]_vars

------------------------------------------------------------------------------
(* Properties.                                                             *)

TypeOK ==
  /\ tar \in Word /\ exp \in [Threads -> Word]
  /\ address \in Address /\ marked \in SUBSET Flags

(* Flags and address never touch each other: clear gives the address back, *)
(* whatever flags have been set and reset; each flag reads as it was last  *)
(* set; and get_all_marks has them in its bits, the first flag on top.     *)
FlagsAndAddressApart ==
  /\ TypeOK
  /\ Clear(tar) = address
  /\ \A i \in Flags : GetMark(i, tar) <=> i \in marked
  /\ IsMarked(tar) <=> marked # {}
  /\ GetAllMarks(tar) = {MarkBits - 1 - i : i \in marked}
==============================================================================
