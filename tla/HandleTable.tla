----------------------------- MODULE HandleTable ------------------------------
(***************************************************************************)
(* memory_reclamation/hazard_reclamation.hpp, the part that hands out      *)
(* handles: hazard_manager::get_handle, the last step of ~handle_type, and *)
(* ~hazard_manager's view of the table.                                    *)
(*                                                                         *)
(* get_handle walks over _handles once, from the front, and takes the      *)
(* first entry that is null (never used) or marked (given back).  It loads *)
(* an entry and then tries a compare_exchange; a failed one means that the *)
(* entry is in use at that moment, so the two are one step here.           *)
(*                                                                         *)
(* Every scan of the reclamation scheme starts at _handle_counter and      *)
(* dereferences what it finds unless it is marked.                         *)
(***************************************************************************)
EXTENDS Integers, FiniteSets

CONSTANTS
  Threads,      \* the threads; each has at most one handle at a time
  MaxHandles    \* maxThreads, the length of _handles

ASSUME MaxHandlesAssumption ==
  /\ MaxHandles \in Nat
  /\ IsFiniteSet(Threads) /\ Cardinality(Threads) <= MaxHandles

Ids == 0 .. (MaxHandles - 1)

VARIABLES
  handles,       \* _handles: "null", "active", or "marked"
  handleCounter, \* _handle_counter
  hpc,           \* per thread: "none", in get_handle "look" or "raise", or "has"
  at             \* per thread: i of get_handle; then _id of its handle

tableVars == <<handles, handleCounter, hpc, at>>

------------------------------------------------------------------------------
(* Plausible bugs, each substituted for the definition it varies.          *)

RaisedNotMonotonic(i) == i

------------------------------------------------------------------------------
TableInit ==
  /\ handles = [i \in Ids |-> "null"]
  /\ handleCounter = -1
  /\ hpc = [t \in Threads |-> "none"]
  /\ at = [t \in Threads |-> 0]

GetHandle(t) ==
  /\ hpc[t] = "none"
  /\ hpc' = [hpc EXCEPT ![t] = "look"]
  /\ at' = [at EXCEPT ![t] = 0]
  /\ UNCHANGED <<handles, handleCounter>>

Free(i) == handles[i] # "active"
NextEntry(i) == i + 1

(* A free entry is taken.  One that was marked is below _handle_counter    *)
(* already; for a new one the counter is still to be raised.               *)
Take(t) ==
  /\ hpc[t] = "look" /\ at[t] < MaxHandles
  /\ Free(at[t])
  /\ handles' = [handles EXCEPT ![at[t]] = "active"]
  /\ hpc' = [hpc EXCEPT ![t] = IF handles[at[t]] = "null" THEN "raise" ELSE "has"]
  /\ UNCHANGED <<handleCounter, at>>

(* An entry in use is passed over.  Past the last one get_handle gives up  *)
(* and returns a handle with _id -666, which no scan ever sees.            *)
PassOver(t) ==
  /\ hpc[t] = "look" /\ at[t] < MaxHandles
  /\ ~Free(at[t])
  /\ at' = [at EXCEPT ![t] = NextEntry(@)]
  /\ UNCHANGED <<handles, handleCounter, hpc>>

Raised(i) == IF handleCounter < i THEN i ELSE handleCounter

(* The compare_exchange loop on _handle_counter: a maximum.                *)
Raise(t) ==
  /\ hpc[t] = "raise"
  /\ handleCounter' = Raised(at[t])
  /\ hpc' = [hpc EXCEPT ![t] = "has"]
  /\ UNCHANGED <<handles, at>>

(* The last store of ~handle_type marks the entry.                         *)
GiveBack(t) ==
  /\ hpc[t] = "has"
  /\ handles' = [handles EXCEPT ![at[t]] = "marked"]
  /\ hpc' = [hpc EXCEPT ![t] = "none"]
  /\ UNCHANGED <<handleCounter, at>>

TableNext ==
  \E t \in Threads :
    GetHandle(t) \/ Take(t) \/ PassOver(t) \/ Raise(t) \/ GiveBack(t)

TableSpec == TableInit /\ [][TableNext]_tableVars

------------------------------------------------------------------------------
(* Properties.                                                             *)

TableTypeOK ==
  /\ handles \in [Ids -> {"null", "active", "marked"}]
  /\ handleCounter \in Ids \cup {-1}
  /\ hpc \in [Threads -> {"none", "look", "raise", "has"}]
  /\ at \in [Threads -> 0 .. MaxHandles]

(* get_handle finds an entry although it looks at each one only once and   *)
(* entries behind it are given back and taken by others meanwhile: with no *)
(* more than maxThreads threads the "out of bounds" error cannot happen.   *)
AlwaysFindsHandle == \A t \in Threads : hpc[t] = "look" => at[t] < MaxHandles

(* An entry is active exactly while one thread owns it, so two threads     *)
(* never share the protection slots of one handle.                         *)
OwnsEntry(t, i) == hpc[t] \in {"raise", "has"} /\ at[t] = i

ExclusiveHandles ==
  \A i \in Ids :
    /\ handles[i] = "active" <=> \E t \in Threads : OwnsEntry(t, i)
    /\ \A t, u \in Threads : OwnsEntry(t, i) /\ OwnsEntry(u, i) => t = u

(* Scans start at _handle_counter and neither miss a thread's handle nor   *)
(* meet a null entry, which they would dereference.                        *)
ScansCoverHandles ==
  /\ \A t \in Threads : hpc[t] = "has" => at[t] <= handleCounter
  /\ \A i \in Ids : i <= handleCounter => handles[i] # "null"

(* What the managers need of the table: get_handle gives every thread an   *)
(* entry, one of its own, that every scan started afterwards reaches.      *)
HandlesSafe == AlwaysFindsHandle /\ ExclusiveHandles /\ ScansCoverHandles

(* Why get_handle succeeds: no more than MaxHandles - k threads are at     *)
(* entry k or beyond, because passing an entry over leaves its owner       *)
(* behind.                                                                 *)
AtOrBeyond(k) == {t \in Threads : hpc[t] # "none" /\ at[t] >= k}

RoomAhead == \A k \in 0 .. MaxHandles : Cardinality(AtOrBeyond(k)) <= MaxHandles - k

(* Entries are used for the first time in order.                           *)
UsedInOrder ==
  \A t \in Threads : hpc[t] # "none" =>
    \A i \in Ids : i < at[t] => handles[i] # "null"

TableInv ==
  /\ TableTypeOK
  /\ ExclusiveHandles
  /\ ScansCoverHandles
  /\ RoomAhead
  /\ UsedInOrder
  /\ \A i \in Ids : handles[i] = "marked" => i <= handleCounter
==============================================================================
