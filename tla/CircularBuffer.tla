--------------------------- MODULE CircularBuffer ----------------------------
(***************************************************************************)
(* data_structures/circular_buffer.hpp                                     *)
(*                                                                         *)
(* The elements lie between the offsets _start and _end, which are words   *)
(* that are never reduced: only accesses to the buffer take them modulo    *)
(* the capacity, a power of 2.  Both start far above 0, so that pushes in  *)
(* front have room to count down; but after the buffer has grown they      *)
(* start at 0, and pushes in front wrap around.                            *)
(*                                                                         *)
(* A slot without an element is Raw memory.  Elements are of a type that   *)
(* may be assigned to raw memory, as grow does.                            *)
(***************************************************************************)
EXTENDS Integers, SequencesExt

CONSTANTS
  Values,        \* the elements
  Raw,           \* memory without an element
  NoElement,     \* std::nullopt
  Words,         \* the number of values of a size_t, 2^64
  FirstOffset,   \* where the offsets start, 2^31
  MinCapacity,   \* the smallest capacity, 32
  MaxCapacity    \* bound: the largest capacity

(* No odd number but 1 divides a power of 2.                               *)
IsPowerOf2(n) == n > 0 /\ \A d \in 2 .. n : n % d = 0 => d % 2 = 0

ASSUME WordsAssumption ==
  /\ Words \in Nat /\ IsPowerOf2(Words)
  /\ MinCapacity \in Nat /\ IsPowerOf2(MinCapacity)
  /\ MaxCapacity \in Nat /\ IsPowerOf2(MaxCapacity)
  /\ MinCapacity <= MaxCapacity /\ 2 * MaxCapacity <= Words
  /\ FirstOffset \in 0 .. (Words - 1)
ASSUME ElementAssumption == Raw \notin Values /\ NoElement \notin Values

VARIABLES
  start,      \* _start
  end,        \* _end
  capacity,   \* _bitmask + 1
  buffer,     \* _buffer
  result,     \* what the last pop returned
  overfull    \* history: a push has met a full buffer that did not grow

vars == <<start, end, capacity, buffer, result, overfull>>

Capacities == {c \in MinCapacity .. MaxCapacity : IsPowerOf2(c)}

Mod(i) == i % capacity
Inc(i) == (i + 1) % Words
Dec(i) == (i - 1) % Words

Size == (end - start) % Words

(* An iterator is an offset: operator* and operator->, operator[], and the *)
(* steps to the next and the previous element.                             *)
Deref(off) == buffer[Mod(off)]
Subscript(off, d) == Deref((off + d) % Words)
Following(off) == Inc(off)
Previous(off) == Dec(off)

(* What an iterator visits from begin() to end(), and from end() back.     *)
Contents ==
  LET visit[off \in 0 .. (Words - 1)] ==
        IF off = end THEN << >> ELSE <<Deref(off)>> \o visit[Following(off)]
  IN  visit[start]

ContentsBackwards ==
  LET visit[off \in 0 .. (Words - 1)] ==
        IF off = start THEN << >>
        ELSE <<Deref(Previous(off))>> \o visit[Previous(off)]
  IN  visit[end]

------------------------------------------------------------------------------
(* The capacity asked for is rounded up to a power of 2 of at least        *)
(* MinCapacity.                                                            *)
Init ==
  /\ start = FirstOffset
  /\ end = FirstOffset
  /\ capacity \in Capacities
  /\ buffer = [s \in 0 .. (capacity - 1) |-> Raw]
  /\ result = NoElement
  /\ overfull = FALSE

(* grow: the elements move to the beginning of a buffer twice as large.    *)
Grown == [s \in 0 .. (2 * capacity - 1) |->
            IF s < Size THEN Contents[s + 1] ELSE Raw]

------------------------------------------------------------------------------
(* Plausible bugs, each substituted for the definition it varies.          *)

NeedsGrowLate == end > (start + capacity) % Words
GrownStartKept == start
ClearedKept(s) == buffer

------------------------------------------------------------------------------
(* The model ends where the buffer has been filled beyond its capacity:    *)
(* from there on the code reads and destroys objects that do not exist.    *)
Usable == ~overfull

(* The check of all pushes for a full buffer.                              *)
NeedsGrow == end > (start + capacity - 1) % Words

GrownStart == 0

GrownFields == [buffer |-> Grown, start |-> GrownStart, end |-> Size,
                capacity |-> 2 * capacity]
Fields == [buffer |-> buffer, start |-> start, end |-> end,
           capacity |-> capacity]

(* What a push works on, after it has grown the buffer if it has to.       *)
Room == IF NeedsGrow THEN GrownFields ELSE Fields

Pushed(r, offset, e) == buffer' = [r.buffer EXCEPT ![offset % r.capacity] = e]

Push ==
  /\ Usable
  /\ Room.capacity <= MaxCapacity
  /\ capacity' = Room.capacity
  /\ overfull' = (overfull \/ (Size = capacity /\ ~NeedsGrow))
  /\ UNCHANGED result

(* push_back and emplace_back.                                             *)
PushBack(e) ==
  /\ Push
  /\ Pushed(Room, Room.end, e)
  /\ start' = Room.start
  /\ end' = Inc(Room.end)

(* push_front and emplace_front.                                           *)
PushFront(e) ==
  /\ Push
  /\ start' = Dec(Room.start)
  /\ Pushed(Room, start', e)
  /\ end' = Room.end

Cleared(s) == [buffer EXCEPT ![s] = Raw]

PopNothing ==
  /\ Usable /\ start = end
  /\ result' = NoElement
  /\ UNCHANGED <<start, end, capacity, buffer, overfull>>

PopBack ==
  /\ Usable /\ start # end
  /\ end' = Dec(end)
  /\ result' = buffer[Mod(end')]
  /\ buffer' = Cleared(Mod(end'))
  /\ UNCHANGED <<start, capacity, overfull>>

PopFront ==
  /\ Usable /\ start # end
  /\ result' = buffer[Mod(start)]
  /\ buffer' = Cleared(Mod(start))
  /\ start' = Inc(start)
  /\ UNCHANGED <<end, capacity, overfull>>

Next ==
  \/ \E e \in Values : PushBack(e) \/ PushFront(e)
  \/ PopBack \/ PopFront \/ PopNothing

Spec == Init /\ [][Next]_vars

------------------------------------------------------------------------------
(* Properties.                                                             *)

TypeOK ==
  /\ start \in 0 .. (Words - 1)
  /\ end \in 0 .. (Words - 1)
  /\ capacity \in Capacities
  /\ buffer \in [0 .. (capacity - 1) -> Values \cup {Raw}]
  /\ result \in Values \cup {NoElement}
  /\ overfull \in BOOLEAN

Ends == INSTANCE Deque WITH deque <- Contents

(* Pushes and pops at both ends work on one sequence.                      *)
ImplementsDeque == Ends!Spec

(* They do until a push has met a full buffer that does not grow.          *)
ImplementsDequeUntilOverfull ==
  /\ Ends!Init
  /\ [][~overfull' => Ends!Next]_(Ends!vars)

(* The check for a full buffer compares words that may have wrapped.  Yet  *)
(* it misses a full buffer in one case only: the elements end at offset 0, *)
(* so that the first one is a whole capacity below it.  And it makes a     *)
(* buffer with room grow only if the elements lie so close below the       *)
(* largest word that the check overflows.                                  *)
FullIsSeen ==
  /\ Size = capacity /\ ~NeedsGrow => end = 0 /\ start = Words - capacity
  /\ ~overfull /\ NeedsGrow => Size = capacity \/ start + capacity - 1 >= Words

(* The slots of the elements hold objects, one for each element, and no    *)
(* other slot does: none is constructed over another, and what pop moves   *)
(* from and destroys is there.                                             *)
ObjectsAreElements ==
  ~overfull =>
    /\ Size <= capacity
    /\ {s \in DOMAIN buffer : buffer[s] # Raw} =
         {Mod(start + i) : i \in 0 .. (Size - 1)}

(* The elements are the same forwards, backwards and by their subscripts.  *)
IteratorsAgree ==
  ~overfull =>
    /\ ContentsBackwards = Reverse(Contents)
    /\ \A i \in 1 .. Size : Contents[i] = Subscript(start, i - 1)

(* The types, the slots, and the iterators.                                *)
StateInv == TypeOK /\ ObjectsAreElements /\ IteratorsAgree
==============================================================================
