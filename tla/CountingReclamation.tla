------------------------- MODULE CountingReclamation --------------------------
(***************************************************************************)
(* memory_reclamation/counting_reclamation.hpp, with reclamation_guard.hpp *)
(* and default_destructor.hpp.                                             *)
(*                                                                         *)
(* Every object carries a word with a reference count and, in its topmost  *)
(* bit, a deletion flag.  protect increments the count of an object that   *)
(* it has only read the address of, and checks afterwards that the shared  *)
(* pointer still points there.  So counts of retired and even of destroyed *)
(* objects are touched: the memory goes to a freelist, is constructed anew *)
(* there, and its count lives on.                                          *)
(*                                                                         *)
(* Each action is one access to shared memory or one critical section of   *)
(* the freelist's mutex.                                                   *)
(***************************************************************************)
EXTENDS Integers, Sequences, FiniteSets

CONSTANTS
  Threads,   \* the threads, each with a handle
  Objects,   \* the addresses that can be allocated
  Cells,     \* the shared atomic pointers that are read and exchanged
  NoPtr,     \* nullptr
  MaxHeld    \* bound: how many protections a thread has at a time

ASSUME ThreadsAssumption == IsFiniteSet(Threads)
ASSUME MaxHeldAssumption == MaxHeld \in Nat /\ NoPtr \notin Objects

VARIABLES
  cell,      \* per shared pointer: what it points to
  mem,       \* per address: "free", "private", "live" or "retired"
  held,      \* per thread and object: protections handed to the caller
  count,     \* per address: _counter as [del |-> flag, refs |-> count]
  freelist,  \* _freelist
  allocated, \* the addresses that were ever allocated
  pc,        \* per thread: the next step of the operation it is in
  loc        \* per thread: its local variables

clientVars == <<cell, mem, held>>
memoryVars == <<freelist, allocated>>
vars == <<clientVars, count, memoryVars, pc, loc>>

Pointers == Objects \cup {NoPtr}

(* ptr: the pointer of the operation (temp of protect); new: temp2; cell:  *)
(* protect's argument; then: the step after internal_delete.               *)
NoLoc == [ptr |-> NoPtr, new |-> NoPtr, cell |-> NoPtr, then |-> "idle"]

Goto(t, next, l) == pc' = [pc EXCEPT ![t] = next] /\ loc' = [loc EXCEPT ![t] = l]
Return(t) == Goto(t, "idle", NoLoc)
GoOn(t, l) == IF l.then = "idle" THEN Return(t) ELSE Goto(t, l.then, l)

(* internal_delete, if the access before it asks for it                    *)
DeleteIf(last, t, l) == IF last THEN Goto(t, "reset", l) ELSE GoOn(t, l)

------------------------------------------------------------------------------
(* Plausible bugs, each substituted for the definition it varies.          *)

IsLastNever(c) == FALSE
AfterResetUnchanged(c) == c
ConstructedAnew(p) == [count EXCEPT ![p] = [del |-> FALSE, refs |-> 0]]
StillThereUnchecked(t) == TRUE

------------------------------------------------------------------------------
Init ==
  /\ cell = [c \in Cells |-> NoPtr]
  /\ mem = [o \in Objects |-> "free"]
  /\ held = [t \in Threads |-> [o \in Objects |-> 0]]
  /\ count = [o \in Objects |-> [del |-> FALSE, refs |-> 0]]
  /\ freelist = << >>
  /\ allocated = {}
  /\ pc = [t \in Threads |-> "idle"]
  /\ loc = [t \in Threads |-> NoLoc]

Idle(t) == pc[t] = "idle"
Hold(t, o) == held' = [held EXCEPT ![t][o] = @ + 1]
HasRoom(t) ==
  Cardinality({x \in Objects \X (1 .. MaxHeld) : x[2] <= held[t][x[1]]}) < MaxHeld
AddRef(o, n) == count' = [count EXCEPT ![o].refs = @ + n]

(* emplace constructs the object but not its counter; a newly allocated    *)
(* one starts at 0, as Init has it.                                        *)
Constructed(p) == count

(* create_pointer: the front of the freelist, or a new allocation          *)
Create(p) ==
  /\ \/ freelist # << >> /\ p = Head(freelist) /\ freelist' = Tail(freelist)
     \/ freelist = << >> /\ p \in Objects \ allocated /\ UNCHANGED freelist
  /\ allocated' = allocated \cup {p}
  /\ count' = Constructed(p)

(* protect: load the pointer; nullptr is returned at once.                 *)
ProtectLoad(t, c) ==
  /\ Idle(t)
  /\ \/ cell[c] = NoPtr /\ UNCHANGED <<pc, loc>>
     \/ /\ cell[c] # NoPtr /\ HasRoom(t)
        /\ Goto(t, "increment", [NoLoc EXCEPT !.ptr = cell[c], !.cell = c])
  /\ UNCHANGED <<clientVars, count, memoryVars>>

Increment(t) ==
  /\ pc[t] = "increment"
  /\ AddRef(loc[t].ptr, 1)
  /\ Goto(t, "reload", loc[t])
  /\ UNCHANGED <<clientVars, memoryVars>>

StillThere(t) == cell[loc[t].cell] = loc[t].ptr

Reload(t) ==
  /\ pc[t] = "reload"
  /\ \/ StillThere(t) /\ Hold(t, loc[t].ptr) /\ Return(t)
     \/ /\ ~StillThere(t)
        /\ Goto(t, "decrement", [loc[t] EXCEPT !.new = cell[loc[t].cell]])
        /\ UNCHANGED held
  /\ UNCHANGED <<cell, mem, count, memoryVars>>

(* decrement_counter: was this the last reference to a retired object?     *)
IsLast(c) == c.del /\ c.refs = 1

Decrement(t) ==
  /\ pc[t] = "decrement"
  /\ AddRef(loc[t].ptr, -1)
  /\ DeleteIf(IsLast(count[loc[t].ptr]), t, [loc[t] EXCEPT !.then = "again"])
  /\ UNCHANGED <<clientVars, memoryVars>>

(* protect goes on with the pointer that it has reloaded.                  *)
Again(t) ==
  /\ pc[t] = "again"
  /\ \/ loc[t].new = NoPtr /\ Return(t) /\ UNCHANGED count
     \/ /\ loc[t].new # NoPtr
        /\ AddRef(loc[t].new, 1)
        /\ Goto(t, "reload", [NoLoc EXCEPT !.ptr = loc[t].new, !.cell = loc[t].cell])
  /\ UNCHANGED <<clientVars, memoryVars>>

(* guard(ptr), protect_raw: of a pointer that the thread already protects, *)
ProtectRaw(t, o) ==
  /\ Idle(t)
  /\ held[t][o] > 0 /\ HasRoom(t)
  /\ AddRef(o, 1)
  /\ Hold(t, o)
  /\ UNCHANGED <<cell, mem, memoryVars, pc, loc>>

(* or of an object it has just created.                                    *)
CreateGuarded(t, o) ==
  /\ Idle(t) /\ HasRoom(t)
  /\ Create(o)
  /\ mem' = [mem EXCEPT ![o] = "private"]
  /\ Goto(t, "protectNew", [NoLoc EXCEPT !.ptr = o])
  /\ UNCHANGED <<cell, held>>

ProtectNew(t) ==
  /\ pc[t] = "protectNew"
  /\ AddRef(loc[t].ptr, 1)
  /\ Hold(t, loc[t].ptr)
  /\ Return(t)
  /\ UNCHANGED <<cell, mem, memoryVars>>

(* unprotect, also by the destructor of a guard                            *)
Unprotect(t, o) ==
  /\ Idle(t)
  /\ held[t][o] > 0 /\ mem[o] # "private"
  /\ held' = [held EXCEPT ![t][o] = @ - 1]
  /\ AddRef(o, -1)
  /\ DeleteIf(IsLast(count[o]), t, [NoLoc EXCEPT !.ptr = o])
  /\ UNCHANGED <<cell, mem, memoryVars>>

(* The program exchanges a shared pointer for a new object or nullptr, as  *)
(* tests/src/test_reclamation_strategies.cpp does, and retires the old.    *)
Exchange(t, c, p) ==
  /\ Idle(t)
  /\ cell[c] # p
  /\ \/ p = NoPtr /\ UNCHANGED <<count, memoryVars>>
     \/ p # NoPtr /\ mem[p] = "free" /\ Create(p)
     \/ /\ p # NoPtr /\ mem[p] = "private" /\ held[t][p] > 0
        /\ UNCHANGED <<count, memoryVars>>
  /\ cell' = [cell EXCEPT ![c] = p]
  /\ mem' = [o \in Objects |->
               IF o = p THEN "live" ELSE IF o = cell[c] THEN "retired" ELSE mem[o]]
  /\ IF cell[c] = NoPtr THEN UNCHANGED <<pc, loc>>
     ELSE Goto(t, "markDeletion", [NoLoc EXCEPT !.ptr = cell[c]])
  /\ UNCHANGED held

(* mark_deletion: is the object unreferenced when it is flagged?           *)
Unused(c) == c.refs = 0 /\ ~c.del

(* safe_delete *)
MarkDeletion(t) ==
  LET o == loc[t].ptr IN
  /\ pc[t] = "markDeletion"
  /\ count' = [count EXCEPT ![o].del = TRUE]
  /\ DeleteIf(Unused(count[o]), t, loc[t])
  /\ UNCHANGED <<clientVars, memoryVars>>

Resets(c) == c.del /\ c.refs = 0
AfterReset(c) == [del |-> FALSE, refs |-> 0]

(* internal_delete: only who resets the counter destroys the object.       *)
Reset(t) ==
  LET o == loc[t].ptr IN
  /\ pc[t] = "reset"
  /\ \/ /\ Resets(count[o])
        /\ count' = [count EXCEPT ![o] = AfterReset(@)]
        /\ Goto(t, "erase", loc[t])
     \/ ~Resets(count[o]) /\ GoOn(t, loc[t]) /\ UNCHANGED count
  /\ UNCHANGED <<clientVars, memoryVars>>

(* delete_raw: the destructor of the object, then the freelist             *)
Erase(t) ==
  /\ pc[t] = "erase"
  /\ mem' = [mem EXCEPT ![loc[t].ptr] = "free"]
  /\ Goto(t, "recycle", loc[t])
  /\ UNCHANGED <<cell, held, count, memoryVars>>

Recycle(t) ==
  /\ pc[t] = "recycle"
  /\ freelist' = Append(freelist, loc[t].ptr)
  /\ GoOn(t, loc[t])
  /\ UNCHANGED <<clientVars, count, allocated>>

Step(t) ==
  \/ Increment(t) \/ Reload(t) \/ Decrement(t) \/ Again(t) \/ ProtectNew(t)
  \/ MarkDeletion(t) \/ Reset(t) \/ Erase(t) \/ Recycle(t)

Begin(t) ==
  \/ \E c \in Cells : ProtectLoad(t, c) \/ \E p \in Pointers : Exchange(t, c, p)
  \/ \E o \in Objects : ProtectRaw(t, o) \/ CreateGuarded(t, o) \/ Unprotect(t, o)

Next == \E t \in Threads : Begin(t) \/ Step(t)

Spec == Init /\ [][Next]_vars

(* Threads are scheduled again and again and finish what they have begun.  *)
FairSpec == Spec /\ \A t \in Threads : WF_vars(Step(t))

------------------------------------------------------------------------------
(* Properties.                                                             *)

TypeOK ==
  /\ cell \in [Cells -> Pointers]
  /\ mem \in [Objects -> {"free", "private", "live", "retired"}]
  /\ held \in [Threads -> [Objects -> Nat]]
  /\ count \in [Objects -> [del : BOOLEAN, refs : Nat]]
  /\ freelist \in Seq(Objects)
  /\ allocated \subseteq Objects
  /\ pc \in [Threads -> {"idle", "increment", "reload", "decrement", "again",
        "protectNew", "markDeletion", "reset", "erase", "recycle"}]
  /\ loc \in [Threads -> [ptr : Pointers, new : Pointers,
        cell : Cells \cup {NoPtr}, then : {"idle", "again"}]]

(* The manager keeps its promise: what protect and protect_raw return is   *)
(* not destroyed before it is given back, and nothing is destroyed that is *)
(* not retired.                                                            *)
Contract == INSTANCE SafeReclamation
ImplementsContract == Contract!Spec

(* The shared pointers point to objects that are not retired, and no two   *)
(* of them to the same one.                                                *)
CellsAreLive == \A c, d \in Cells :
  cell[c] # NoPtr =>
    mem[cell[c]] = "live" /\ (cell[d] = cell[c] => c = d)

(* The locals that an operation relies on.                                 *)
LocalsSet == \A t \in Threads :
  /\ pc[t] # "idle" => loc[t].ptr \in Objects
  /\ pc[t] \in {"increment", "reload", "decrement", "again"} =>
       loc[t].cell \in Cells
  /\ loc[t].then = "again" => loc[t].cell \in Cells

(* The count of an address is the number of protections of the object and  *)
(* of threads that are still to find out that it has gone; constructing an *)
(* object anew in that memory does not disturb the latter.                 *)
Protections(o) == UNION {{t} \X (1 .. held[t][o]) : t \in Threads}
PassingBy(o) == {t \in Threads : pc[t] \in {"reload", "decrement"} /\ loc[t].ptr = o}

CountsReferences == \A o \in Objects :
  /\ IsFiniteSet(Protections(o))
  /\ count[o].refs = Cardinality(Protections(o)) + Cardinality(PassingBy(o))

(* What is protected exists, and is not being erased.                      *)
About(step, o) == {t \in Threads : pc[t] = step /\ loc[t].ptr = o}
Protected(o) == \E t \in Threads : held[t][o] > 0

ProtectedExists == \A o \in Objects :
  /\ Protected(o) => mem[o] # "free" /\ About("erase", o) = {}
  /\ \A t \in About("protectNew", o) :
       mem[o] = "private" /\ ~Protected(o) /\ About("protectNew", o) = {t}

(* An object is retired as long as one thread is to flag or to erase it,   *)
(* or it is flagged; if it is flagged and unreferenced, some thread is     *)
(* about to reset it.  No other object is flagged.                         *)
Deleting(o) == About("markDeletion", o) \cup About("erase", o)

DeletionPending == \A o \in Objects :
  /\ mem[o] = "retired" <=> count[o].del \/ Deleting(o) # {}
  /\ \A t \in Deleting(o) : ~count[o].del /\ Deleting(o) = {t}
  /\ count[o].del /\ count[o].refs = 0 => About("reset", o) # {}

(* Freed memory is handed out again once: the freelist has no address      *)
(* twice, none whose object still exists, and none that is on its way in.  *)
OnFreelist(o) == \E i \in 1 .. Len(freelist) : freelist[i] = o

FreelistSound ==
  /\ \A i, j \in 1 .. Len(freelist) : freelist[i] = freelist[j] => i = j
  /\ \A o \in Objects :
       /\ OnFreelist(o) => mem[o] = "free" /\ About("recycle", o) = {}
       /\ \A t \in About("recycle", o) :
            mem[o] = "free" /\ About("recycle", o) = {t}
       /\ OnFreelist(o) \/ About("recycle", o) # {} \/ mem[o] # "free" =>
            o \in allocated

(* The types, the freelist, and who is to delete what is retired.          *)
StateInv ==
  /\ TypeOK
  /\ CellsAreLive
  /\ LocalsSet
  /\ ProtectedExists
  /\ DeletionPending
  /\ FreelistSound

(* The inductive invariant.                                                *)
IndInv == StateInv /\ CountsReferences

(* A retired object that nobody protects any more does not stay around.    *)
NoLeak == \A o \in Objects :
  []<>(mem[o] # "retired" \/ \E t \in Threads : held[t][o] > 0)
==============================================================================
