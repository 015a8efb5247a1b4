--------------------------- MODULE SafeReclamation ----------------------------
(***************************************************************************)
(* What the reclamation managers (hazard_manager, counting_manager) promise*)
(* to a program that shares objects through atomic pointers: an object     *)
(* that a thread has protected is not destroyed while the protection       *)
(* lasts, and a retired object is destroyed at most once.  The bookkeeping *)
(* that achieves this does not appear here.                                *)
(*                                                                         *)
(* The program keeps the rules the managers rely on: a pointer is passed   *)
(* to safe_delete once, by the thread that has exchanged it away, and      *)
(* protect_raw only gets pointers that are protected already or that no    *)
(* other thread has seen.                                                  *)
(***************************************************************************)
EXTENDS Naturals

CONSTANTS
  Threads,
  Objects,   \* the addresses at which objects are created
  Cells,     \* the shared atomic pointers
  NoPtr      \* nullptr

VARIABLES
  cell,      \* the object each shared pointer points to, or NoPtr
  mem,       \* per address: "free", "private", "live" or "retired"
  held       \* per thread and object: the protections it may rely on

vars == <<cell, mem, held>>

Init ==
  /\ cell = [c \in Cells |-> NoPtr]
  /\ mem = [o \in Objects |-> "free"]
  /\ held = [t \in Threads |-> [o \in Objects |-> 0]]

(* create_pointer, guarded before anyone else sees the object              *)
Create(t, o) ==
  /\ mem[o] = "free"
  /\ mem' = [mem EXCEPT ![o] = "private"]
  /\ UNCHANGED <<cell, held>>

(* delete_raw of an object that nobody else has seen                       *)
Discard(o) ==
  /\ mem[o] = "private"
  /\ \A t \in Threads : held[t][o] = 0
  /\ mem' = [mem EXCEPT ![o] = "free"]
  /\ UNCHANGED <<cell, held>>

Protect(t, o) ==
  /\ mem[o] = "private" \/ held[t][o] > 0 \/ \E c \in Cells : cell[c] = o
  /\ held' = [held EXCEPT ![t][o] = @ + 1]
  /\ UNCHANGED <<cell, mem>>

Unprotect(t, o) ==
  /\ held[t][o] > 0
  /\ held' = [held EXCEPT ![t][o] = @ - 1]
  /\ UNCHANGED <<cell, mem>>

(* The handle is destroyed with all the protections it still has.          *)
DropAll(t) ==
  /\ held' = [held EXCEPT ![t] = [o \in Objects |-> 0]]
  /\ UNCHANGED <<cell, mem>>

(* A shared pointer is set to p, a new object or nullptr; what it pointed  *)
(* to before is retired.                                                   *)
Exchange(c, p) ==
  /\ cell[c] # p
  /\ p # NoPtr => mem[p] \in {"free", "private"}
  /\ cell' = [cell EXCEPT ![c] = p]
  /\ mem' = [o \in Objects |->
               IF o = p THEN "live" ELSE IF o = cell[c] THEN "retired" ELSE mem[o]]
  /\ UNCHANGED held

Destroy(o) ==
  /\ mem[o] = "retired"
  /\ \A t \in Threads : held[t][o] = 0
  /\ mem' = [mem EXCEPT ![o] = "free"]
  /\ UNCHANGED <<cell, held>>

Next ==
  \/ \E t \in Threads : DropAll(t)
  \/ \E t \in Threads, o \in Objects : Create(t, o) \/ Protect(t, o) \/ Unprotect(t, o)
  \/ \E c \in Cells, p \in Objects \cup {NoPtr} : Exchange(c, p)
  \/ \E o \in Objects : Destroy(o) \/ Discard(o)

Spec == Init /\ [][Next]_vars
==============================================================================
