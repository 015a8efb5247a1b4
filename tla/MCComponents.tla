----------------------------- MODULE MCComponents -----------------------------
(***************************************************************************)
(* The components that do not interact, checked together: a behaviour      *)
(* picks one of them and is a behaviour of this component, in which the    *)
(* others stay in their initial states.                                    *)
(***************************************************************************)
EXTENDS CircularBuffer, TLC

CONSTANTS
  Threads, NoPtr,
  Lists, Nodes,
  Objects, Slots, Cells, NoGuard,
  MaxUniverse, MaxFastSteps, MaxWeight, NoKey,
  Bits, MarkBits

VARIABLES
  part,
  head, value, next, op, path,
  guard, protection, cell, mem, made, pending, freelist, finished,
  universe, fastSteps, precomp, t_p, l, r, key,
  tar, exp, address, marked

(* 100 keys are tried one by one.                                          *)
ASSUME ZipfAssumption ==
  MaxUniverse \in Nat /\ MaxFastSteps \in Nat \ {0} /\ MaxWeight \in Nat
(* The flags are some of the bits of a word.                               *)
ASSUME MarksAssumption == Bits \in Nat /\ MarkBits \in 0 .. Bits

List == INSTANCE ConcurrentSinglyLinkedList
Delayed == INSTANCE DelayedReclamation
Zipf == INSTANCE ZipfKeygen
Marks == INSTANCE MarkPointer

(* Memory is finite, and no node is at nullptr.                            *)
ASSUME NodesAssumption == IsFiniteSet(Nodes) /\ NoPtr \notin Nodes

(* Guard variables are finitely many, and no pointer looks like none.      *)
ASSUME GuardsAssumption ==
  IsFiniteSet(Slots) /\ NoPtr \notin Objects /\ NoGuard \notin Delayed!Pointers

Parts == {"buffer", "list", "delayed", "zipf", "marks"}

listVars == <<head, value, next, op, path>>
delayedVars ==
  <<guard, protection, cell, mem, made, pending, freelist, finished>>
zipfVars == <<universe, fastSteps, precomp, t_p, l, r, key>>
marksVars == <<tar, exp, address, marked>>
allVars == <<part, vars, listVars, delayedVars, zipfVars, marksVars>>

(* One initial state is enough for the buffer where it stays there.        *)
PartInit ==
  /\ part \in Parts
  /\ Init /\ List!Init /\ Delayed!Init /\ Zipf!Init /\ Marks!Init
  /\ part = "buffer" \/ capacity = MinCapacity

BufferNext ==
  /\ part = "buffer" /\ Next
  /\ UNCHANGED <<part, listVars, delayedVars, zipfVars, marksVars>>
ListNext ==
  /\ part = "list" /\ List!Next
  /\ UNCHANGED <<part, vars, delayedVars, zipfVars, marksVars>>
DelayedNext ==
  /\ part = "delayed" /\ Delayed!Next
  /\ UNCHANGED <<part, vars, listVars, zipfVars, marksVars>>
ZipfNext ==
  /\ part = "zipf" /\ Zipf!Next
  /\ UNCHANGED <<part, vars, listVars, delayedVars, marksVars>>
MarksNext ==
  /\ part = "marks" /\ Marks!Next
  /\ UNCHANGED <<part, vars, listVars, delayedVars, zipfVars>>

PartNext ==
  BufferNext \/ ListNext \/ DelayedNext \/ ZipfNext \/ MarksNext

PartSpec == PartInit /\ [][PartNext]_allVars

Symmetry ==
  Permutations(Nodes) \cup Permutations(Threads) \cup Permutations(Lists)

------------------------------------------------------------------------------
(* The properties of the components, each checked where it says something: *)
(* in the behaviours of its component.                                     *)

(* The circular buffer sees when it is full.                               *)
BufferSeesFull == part = "buffer" => FullIsSeen

(* Its slots hold objects where its elements are, and its iterators agree. *)
BufferStateInv == part = "buffer" => StateInv

(* It is a deque until it has been filled beyond its capacity.             *)
BufferImplementsDeque ==
  Ends!Init /\ [][part = "buffer" /\ ~overfull' => Ends!Next]_(Ends!vars)

(* The nodes of concurrent lists have one owner; walks see snapshots.      *)
ListStateInv == part = "list" => List!StateInv

(* The concurrent lists are lists to which pushes add in front.            *)
ListImplementsPushList ==
  List!Pushes!Init /\ [][part = "list" => List!Pushes!Next]_(List!Pushes!vars)

(* Guards and protections agree, and retired objects are listed once.      *)
DelayedStateInv == part = "delayed" => Delayed!StateInv

(* The delayed manager keeps the promise of all reclamation managers.      *)
DelayedImplementsContract ==
  /\ Delayed!Contract!Init
  /\ [][part = "delayed" => Delayed!Contract!Next]_(Delayed!Contract!vars)

(* The key fits the random number.                                         *)
KeyFitsNumber == part = "zipf" => Zipf!KeyFitsNumber

(* The search for a key keeps to where it is, and ends.                    *)
KeySearchConverges == part = "zipf" => Zipf!SearchConverges

(* The flags of a pointer and its address do not touch each other.         *)
FlagsAndAddressApart == part = "marks" => Marks!FlagsAndAddressApart
==============================================================================
