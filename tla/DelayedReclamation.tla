-------------------------- MODULE DelayedReclamation --------------------------
(***************************************************************************)
(* memory_reclamation/delayed_reclamation.hpp                              *)
(*                                                                         *)
(* The manager that never looks at protections: a handle keeps what is     *)
(* safely deleted on its free list, and destroys it in its destructor.     *)
(* The program is the one of the other managers, with guards; it destroys  *)
(* the handles when all threads have dropped their guards, as the test     *)
(* does behind its last synchronization.                                   *)
(***************************************************************************)
EXTENDS ReclamationGuard, Sequences

CONSTANTS Cells

VARIABLES
  cell,      \* the shared atomic pointers
  mem,       \* per address: "free", "private", "live" or "retired"
  made,      \* per thread: what it has created and not published, or NoPtr
  pending,   \* per thread: what it has exchanged away, and must delete
  freelist,  \* _freelist, of each thread's handle
  finished   \* per thread: it has left the scopes of its guards

progVars == <<cell, mem, made, pending, freelist, finished>>
vars == <<guardVars, progVars>>

Init ==
  /\ GuardInit
  /\ cell = [c \in Cells |-> Null]
  /\ mem = [o \in Objects |-> "free"]
  /\ made = [t \in Threads |-> NoPtr]
  /\ pending = [t \in Threads |-> NoPtr]
  /\ freelist = [t \in Threads |-> << >>]
  /\ finished = [t \in Threads |-> FALSE]

------------------------------------------------------------------------------
(* Plausible bugs, each substituted for the definition it varies.          *)

DeletedAtOnce(t) ==
  /\ mem' = [mem EXCEPT ![pending[t]] = "free"]
  /\ UNCHANGED freelist

------------------------------------------------------------------------------
CreatePointer(t, o) ==
  /\ made[t] = NoPtr /\ mem[o] = "free"
  /\ made' = [made EXCEPT ![t] = o]
  /\ mem' = [mem EXCEPT ![o] = "private"]
  /\ UNCHANGED <<guardVars, cell, pending, freelist, finished>>

(* delete_raw of what nobody else has seen.                                *)
DeleteRaw(t) ==
  /\ made[t] # NoPtr /\ Guarding(t, made[t]) = {}
  /\ mem' = [mem EXCEPT ![made[t]] = "free"]
  /\ made' = [made EXCEPT ![t] = NoPtr]
  /\ UNCHANGED <<guardVars, cell, pending, freelist, finished>>

(* protect only loads the pointer.                                         *)
ProtectCell(t, s, c) == Guard(t, s, cell[c]) /\ UNCHANGED progVars

(* protect_raw does nothing.                                               *)
ProtectRaw(t, s, o) ==
  /\ o = made[t] \/ Guarding(t, o) # {}
  /\ Guard(t, s, Pointer(o, FALSE))
  /\ UNCHANGED progVars

(* The program's steps on the shared pointer.                              *)
Exchange(t, c) ==
  /\ pending[t] = NoPtr
  /\ cell' = [cell EXCEPT ![c] = Pointer(made[t], FALSE)]
  /\ pending' = [pending EXCEPT ![t] = cell[c].to]
  /\ made' = [made EXCEPT ![t] = NoPtr]
  /\ mem' = [o \in Objects |-> IF o = made[t] THEN "live" ELSE
                               IF o = cell[c].to THEN "retired" ELSE mem[o]]
  /\ UNCHANGED <<guardVars, freelist, finished>>

MarkCell(c) ==
  /\ cell[c].to # NoPtr /\ ~cell[c].marked
  /\ cell' = [cell EXCEPT ![c].marked = TRUE]
  /\ UNCHANGED <<guardVars, mem, made, pending, freelist, finished>>

Delay(t) ==
  /\ freelist' = [freelist EXCEPT ![t] = Append(@, pending[t])]
  /\ UNCHANGED mem

SafeDelete(t) ==
  /\ pending[t] # NoPtr
  /\ Delay(t)
  /\ pending' = [pending EXCEPT ![t] = NoPtr]
  /\ UNCHANGED <<guardVars, cell, made, finished>>

Finish(t) ==
  /\ ~HasGuards(t) /\ made[t] = NoPtr /\ pending[t] = NoPtr
  /\ finished' = [finished EXCEPT ![t] = TRUE]
  /\ UNCHANGED <<guardVars, cell, mem, made, pending, freelist>>

AllFinished == \A t \in Threads : finished[t]

(* One turn of the loop in a handle's destructor.                          *)
FreelistAfter(t) == [freelist EXCEPT ![t] = Tail(@)]
DestroyNext(t) ==
  /\ AllFinished /\ freelist[t] # << >>
  /\ mem' = [mem EXCEPT ![Head(freelist[t])] = "free"]
  /\ freelist' = FreelistAfter(t)
  /\ UNCHANGED <<guardVars, cell, made, pending, finished>>

(* get_handle, by all threads.                                             *)
GetHandles ==
  /\ AllFinished /\ \A t \in Threads : freelist[t] = << >>
  /\ finished' = [t \in Threads |-> FALSE]
  /\ UNCHANGED <<guardVars, cell, mem, made, pending, freelist>>

Working(t) ==
  \/ DeleteRaw(t) \/ SafeDelete(t) \/ Finish(t)
  \/ UseGuards(t) /\ UNCHANGED progVars
  \/ \E o \in Objects :
       CreatePointer(t, o) \/ \E s \in Slots : ProtectRaw(t, s, o)
  \/ \E c \in Cells :
       Exchange(t, c) \/ MarkCell(c) \/ \E s \in Slots : ProtectCell(t, s, c)

Next ==
  \/ GetHandles
  \/ \E t \in Threads : DestroyNext(t) \/ (~finished[t] /\ Working(t))

Spec == Init /\ [][Next]_vars

------------------------------------------------------------------------------
(* Properties.                                                             *)

TypeOK ==
  /\ GuardTypeOK
  /\ cell \in [Cells -> Pointers]
  /\ mem \in [Objects -> {"free", "private", "live", "retired"}]
  /\ made \in [Threads -> Objects \cup {NoPtr}]
  /\ pending \in [Threads -> Objects \cup {NoPtr}]
  /\ freelist \in [Threads -> Seq(Objects)]
  /\ finished \in [Threads -> BOOLEAN]

(* Where o waits for its destruction: in the hands of the thread that has  *)
(* exchanged it away (0), or at an index of its free list.                 *)
Positions(t) == 0 .. Len(freelist[t])
Waits(t, i, o) == o = IF i = 0 THEN pending[t] ELSE freelist[t][i]

(* A retired object waits in one place, a live one in none: it is          *)
(* destroyed exactly once, by the destructor of one handle.                *)
WaitsOnlyAt(t, i, o) ==
  /\ Waits(t, i, o)
  /\ \A u \in Threads : \A j \in Positions(u) :
       Waits(u, j, o) => u = t /\ j = i

RetiredIsListedOnce ==
  \A o \in Objects :
    IF mem[o] = "retired"
    THEN \E t \in Threads : \E i \in Positions(t) : WaitsOnlyAt(t, i, o)
    ELSE \A t \in Threads : \A i \in Positions(t) : ~Waits(t, i, o)

(* The types, the guards, and the free lists.                              *)
StateInv == TypeOK /\ GuardsBalance /\ RetiredIsListedOnce

Contract == INSTANCE SafeReclamation WITH
  cell <- [c \in Cells |-> cell[c].to],
  held <- [t \in Threads |-> [o \in Objects |-> Cardinality(Guarding(t, o))]]

(* What is in a cell is live, and what a thread has made is its own.       *)
ObjectsApart ==
  /\ \A c \in Cells : cell[c].to # NoPtr => mem[cell[c].to] = "live"
  /\ \A c, d \in Cells : cell[c].to = cell[d].to => c = d \/ cell[c].to = NoPtr
  /\ \A t \in Threads : made[t] # NoPtr => mem[made[t]] = "private"
  /\ \A t, u \in Threads : made[t] = made[u] => t = u \/ made[t] = NoPtr

(* What is guarded exists, and is guarded by its creator alone until it is *)
(* published; a thread that has finished has nothing in its hands.         *)
GuardsAreBacked ==
  /\ \A t \in Threads, o \in Objects : Guarding(t, o) # {} =>
       mem[o] # "free" /\ (mem[o] = "private" => made[t] = o)
  /\ \A t \in Threads : finished[t] =>
       ~HasGuards(t) /\ made[t] = NoPtr /\ pending[t] = NoPtr

(* The inductive invariant.                                                *)
IndInv == StateInv /\ ObjectsApart /\ GuardsAreBacked

(* What a guard points to is not destroyed while the guard exists.         *)
ImplementsContract == Contract!Spec
==============================================================================
