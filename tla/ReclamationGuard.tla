-------------------------- MODULE ReclamationGuard ---------------------------
(***************************************************************************)
(* memory_reclamation/reclamation_guard.hpp                                *)
(*                                                                         *)
(* A guard protects a pointer, through the handle of its thread, from its  *)
(* construction to its destruction.  Guards are moved, assigned to and     *)
(* released; the pointer may have its mark bits set, which the managers    *)
(* ignore when they are told to protect or unprotect it.                   *)
(***************************************************************************)
EXTENDS Integers, FiniteSets

CONSTANTS
  Threads,
  Objects,
  NoPtr,      \* nullptr
  Slots,      \* the guard variables of a thread
  NoGuard     \* a guard variable outside its scope

VARIABLES
  guard,      \* _ptr, of the guards of each thread
  protection  \* history, per thread and object: protect minus unprotect calls

guardVars == <<guard, protection>>

Pointer(o, marked) == [to |-> o, marked |-> marked]
Null == Pointer(NoPtr, FALSE)
Pointers == [to : Objects \cup {NoPtr}, marked : BOOLEAN]

Exists(t, s) == guard[t][s] # NoGuard
Guarding(t, o) == {s \in Slots : Exists(t, s) /\ guard[t][s].to = o}
HasGuards(t) == \E s \in Slots : Exists(t, s)

GuardInit ==
  /\ guard = [t \in Threads |-> [s \in Slots |-> NoGuard]]
  /\ protection = [t \in Threads |-> [o \in Objects |-> 0]]

Told(t, p, n) ==
  protection' = IF p.to = NoPtr THEN protection
                ELSE [protection EXCEPT ![t][p.to] = @ + n]

------------------------------------------------------------------------------
(* Plausible bugs, each substituted for the definition it varies.          *)

SourceKept(t, from) == guard[t][from]

------------------------------------------------------------------------------
Protect(t, p) == Told(t, p, 1)

(* if (mark::clear(_ptr)) unprotect(_ptr)                                  *)
Unprotect(t, p) == Told(t, p, -1)

Empty(t, s) ==
  /\ ~Exists(t, s)
  /\ guard' = [guard EXCEPT ![t][s] = Null]
  /\ UNCHANGED protection

(* A guard of what an atomic pointer holds, or of a pointer.  This is also *)
(* the managers' guard, and make_rec_guard.                                *)
Guard(t, s, p) ==
  /\ ~Exists(t, s)
  /\ guard' = [guard EXCEPT ![t][s] = p]
  /\ Protect(t, p)

SourceAfter(t, from) == Null
MovedTo(t, s, from) ==
  guard' = [guard EXCEPT ![t][s] = guard[t][from],
                         ![t][from] = SourceAfter(t, from)]

MoveConstruct(t, s, from) ==
  /\ ~Exists(t, s) /\ Exists(t, from)
  /\ MovedTo(t, s, from)
  /\ UNCHANGED protection

(* The target is destroyed first.                                          *)
MoveAssign(t, s, from) ==
  /\ s # from /\ Exists(t, s) /\ Exists(t, from)
  /\ Unprotect(t, guard[t][s])
  /\ MovedTo(t, s, from)

Destruct(t, s) ==
  /\ Exists(t, s)
  /\ Unprotect(t, guard[t][s])
  /\ guard' = [guard EXCEPT ![t][s] = NoGuard]

Release(t, s) ==
  /\ Exists(t, s)
  /\ Unprotect(t, guard[t][s])
  /\ guard' = [guard EXCEPT ![t][s] = Null]

Unmark(t, s) ==
  /\ Exists(t, s)
  /\ guard' = [guard EXCEPT ![t][s].marked = FALSE]
  /\ UNCHANGED protection

MoveGuards(t) ==
  \E s, from \in Slots : MoveConstruct(t, s, from) \/ MoveAssign(t, s, from)
UseGuards(t) ==
  MoveGuards(t) \/ \E s \in Slots :
    Empty(t, s) \/ Destruct(t, s) \/ Release(t, s) \/ Unmark(t, s)

------------------------------------------------------------------------------
(* Properties.                                                             *)

GuardTypeOK ==
  /\ guard \in [Threads -> [Slots -> Pointers \cup {NoGuard}]]
  /\ protection \in [Threads -> [Objects -> Int]]

(* However guards are moved, assigned, released and unmarked, a thread has *)
(* as many protections of an object as it has guards of it: none is lost   *)
(* while a guard relies on it, and none stays behind.                      *)
GuardsBalance ==
  \A t \in Threads, o \in Objects :
    protection[t][o] = Cardinality(Guarding(t, o))
==============================================================================
