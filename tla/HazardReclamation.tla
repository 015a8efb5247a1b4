-------------------------- MODULE HazardReclamation ---------------------------
(***************************************************************************)
(* memory_reclamation/hazard_reclamation.hpp, with reclamation_guard.hpp   *)
(* and default_destructor.hpp.                                             *)
(*                                                                         *)
(* A thread announces the pointers it uses in the slots of its handle.     *)
(* safe_delete walks over all handles and slots, from the highest to the   *)
(* lowest.  If it finds the pointer it marks that slot, which hands the    *)
(* deletion over to the thread that owns the slot: when this thread clears *)
(* the slot it finds the mark and continues the walk from there downwards. *)
(* Whoever reaches the end of the walk destroys the object.                *)
(*                                                                         *)
(* Each action is one access to shared memory, with these exceptions.      *)
(* mark's load of a slot and its compare_exchange are one step, since a    *)
(* failed exchange means that the slot no longer holds the pointer.  The   *)
(* load of a handle and that of its _counter are one step, since a marked  *)
(* handle has counter 0.  A thread's reads of its own slots are part of    *)
(* its next step: others only set marks there, which find ignores.         *)
(*                                                                         *)
(* Memory is sequentially consistent here; HazardStoreBuffer looks at what *)
(* the release store of insert really gives.                               *)
(***************************************************************************)
EXTENDS HandleTable

CONSTANTS
  Objects,      \* the addresses at which objects are created
  Cells,        \* the shared atomic pointers that are read and exchanged
  NoPtr,        \* nullptr
  MaxProtections  \* maxProtections, the slots of a handle

(* _ptr is an array, which has at least one element.                       *)
ASSUME MaxProtectionsAssumption ==
  MaxProtections \in Nat \ {0} /\ NoPtr \notin Objects \cup Cells

VARIABLES
  cell,         \* per shared pointer: what it points to
  mem,          \* per address: "free", "private", "live" or "retired"
  held,         \* per thread and object: protections handed to the caller
  counter,      \* per handle: _counter
  slot,         \* per handle: _ptr, each a pointer and its mark
  pc,           \* per thread: the next step of the operation it is in
  loc           \* per thread: the local variables of that operation

slotVars == <<counter, slot>>
clientVars == <<cell, mem, held>>
vars == <<tableVars, clientVars, slotVars, pc, loc>>

Positions == 0 .. (MaxProtections - 1)
Pointers == Objects \cup {NoPtr}
Slot(p, m) == [ptr |-> p, mark |-> m]
NoSlot == Slot(NoPtr, FALSE)

(* ptr, pos: the pointer and slot position of the operation; new: what     *)
(* protect reloaded; last: last_ptr of remove; marked: was_marked; h, i:   *)
(* handle and position the walk has reached; cell: protect's argument;     *)
(* then: the step after continue_deletion.                                 *)
NoLoc == [ptr |-> NoPtr, pos |-> 0, new |-> NoPtr, last |-> NoSlot,
          marked |-> FALSE, h |-> 0, i |-> 0, cell |-> NoPtr, then |-> "idle"]

Me(t) == at[t]
Idle(t) == hpc[t] = "has" /\ pc[t] = "idle"

Goto(t, next, l) == pc' = [pc EXCEPT ![t] = next] /\ loc' = [loc EXCEPT ![t] = l]
Return(t) == Goto(t, "idle", NoLoc)

GoOn(t, l) == IF l.then = "idle" THEN Return(t) ELSE Goto(t, l.then, l)

(* continue_deletion if the cleared slot was marked: the walk goes on at   *)
(* position i of the thread's own handle.  Afterwards, go on at l.then.    *)
ContinueIf(marked, t, l, i) ==
  IF marked THEN Goto(t, "markSlot", [l EXCEPT !.h = Me(t), !.i = i])
  ELSE GoOn(t, l)

------------------------------------------------------------------------------
(* Plausible bugs, each substituted for the definition it varies.          *)

StillThereUnchecked(t) == TRUE
InsertPositionReused(t) == IF counter[Me(t)] > 0 THEN counter[Me(t)] - 1 ELSE 0
TakenOverForgotten(s) == FALSE
MovedBackUnmarked(t) == Slot(loc[t].last.ptr, FALSE)

------------------------------------------------------------------------------
Init ==
  /\ TableInit
  /\ cell = [c \in Cells |-> NoPtr]
  /\ mem = [o \in Objects |-> "free"]
  /\ held = [t \in Threads |-> [o \in Objects |-> 0]]
  /\ counter = [h \in Ids |-> 0]
  /\ slot = [h \in Ids |-> [i \in Positions |-> NoSlot]]
  /\ pc = [t \in Threads |-> "idle"]
  /\ loc = [t \in Threads |-> NoLoc]

Hold(t, o) == held' = [held EXCEPT ![t][o] = @ + 1]
SetSlot(h, i, s) == slot' = [slot EXCEPT ![h][i] = s]
HasRoom(t) == counter[Me(t)] < MaxProtections

(* get_handle *)
HandleStep(t) ==
  /\ GetHandle(t) \/ Take(t) \/ PassOver(t) \/ Raise(t)
  /\ UNCHANGED <<clientVars, slotVars, pc, loc>>

(* protect: load the pointer; nullptr is returned at once.  The program    *)
(* keeps within maxProtections, which insert only checks in debug builds.  *)
ProtectLoad(t, c) ==
  /\ Idle(t) /\ HasRoom(t)
  /\ cell[c] # NoPtr
  /\ Goto(t, "insertCount", [NoLoc EXCEPT !.ptr = cell[c], !.cell = c])
  /\ UNCHANGED <<tableVars, clientVars, slotVars>>

(* guard(ptr), protect_raw: of a pointer that the thread already protects, *)
ProtectRaw(t, o) ==
  /\ Idle(t) /\ HasRoom(t)
  /\ held[t][o] > 0
  /\ Goto(t, "insertCount", [NoLoc EXCEPT !.ptr = o])
  /\ UNCHANGED <<tableVars, clientVars, slotVars>>

(* or of an object it has just created with create_pointer.                *)
ProtectNew(t, o) ==
  /\ Idle(t) /\ HasRoom(t)
  /\ mem[o] = "free"
  /\ mem' = [mem EXCEPT ![o] = "private"]
  /\ Goto(t, "insertCount", [NoLoc EXCEPT !.ptr = o])
  /\ UNCHANGED <<tableVars, cell, held, slotVars>>

(* internal_handle::insert *)
InsertPosition(t) == counter[Me(t)]

InsertCount(t) ==
  /\ pc[t] = "insertCount"
  /\ counter' = [counter EXCEPT ![Me(t)] = @ + 1]
  /\ Goto(t, "insertStore", [loc[t] EXCEPT !.pos = InsertPosition(t)])
  /\ UNCHANGED <<tableVars, clientVars, slot>>

IsRaw(t) == loc[t].cell = NoPtr

InsertStore(t) ==
  /\ pc[t] = "insertStore"
  /\ SetSlot(Me(t), loc[t].pos, Slot(loc[t].ptr, FALSE))
  /\ \/ IsRaw(t) /\ Hold(t, loc[t].ptr) /\ Return(t)
     \/ ~IsRaw(t) /\ Goto(t, "reload", loc[t]) /\ UNCHANGED held
  /\ UNCHANGED <<tableVars, cell, mem, counter>>

StillThere(t) == cell[loc[t].cell] = loc[t].ptr

(* protect: the pointer is protected if it is still in the cell once it    *)
(* has been announced.                                                     *)
Reload(t) ==
  /\ pc[t] = "reload"
  /\ \/ StillThere(t) /\ Hold(t, loc[t].ptr) /\ Return(t)
     \/ /\ ~StillThere(t)
        /\ Goto(t, "replace", [loc[t] EXCEPT !.new = cell[loc[t].cell]])
        /\ UNCHANGED held
  /\ UNCHANGED <<tableVars, cell, mem, slotVars>>

TakenOver(s) == s.mark

(* Otherwise the new pointer is announced in its place.                    *)
Replace(t) ==
  /\ pc[t] = "replace"
  /\ SetSlot(Me(t), loc[t].pos, Slot(loc[t].new, FALSE))
  /\ ContinueIf(TakenOver(slot[Me(t)][loc[t].pos]), t,
                [loc[t] EXCEPT !.then = "replaced"], loc[t].pos)
  /\ UNCHANGED <<tableVars, clientVars, counter>>

Replaced(t) ==
  /\ pc[t] = "replaced"
  /\ \/ /\ loc[t].new = NoPtr
        /\ counter' = [counter EXCEPT ![Me(t)] = @ - 1]
        /\ Return(t)
        /\ UNCHANGED held
     \/ /\ loc[t].new # NoPtr
        /\ \/ /\ cell[loc[t].cell] = loc[t].new
              /\ Hold(t, loc[t].new) /\ Return(t)
           \/ /\ cell[loc[t].cell] # loc[t].new
              /\ Goto(t, "replace", [loc[t] EXCEPT !.ptr = loc[t].new,
                                                   !.new = cell[loc[t].cell]])
              /\ UNCHANGED held
        /\ UNCHANGED counter
  /\ UNCHANGED <<tableVars, cell, mem, slot>>

(* internal_handle::find *)
Find(h, o) == CHOOSE i \in Positions :
  /\ i < counter[h] /\ slot[h][i].ptr = o
  /\ \A j \in Positions : i < j /\ j < counter[h] => slot[h][j].ptr # o

(* unprotect, remove: the caller's last use of the pointer is over.  The   *)
(* last slot is simply dropped,                                            *)
Unprotect(t, o) ==
  LET p == Find(Me(t), o)
      top == counter[Me(t)] - 1
      l == [NoLoc EXCEPT !.ptr = o, !.pos = p, !.last = slot[Me(t)][top]]
  IN /\ Idle(t)
     /\ held[t][o] > 0 /\ mem[o] # "private"
     /\ held' = [held EXCEPT ![t][o] = @ - 1]
     /\ \/ /\ p = top
           /\ counter' = [counter EXCEPT ![Me(t)] = top]
           /\ Goto(t, "removeTop", l)
        \/ /\ p # top
           /\ Goto(t, "moveDown", l)
           /\ UNCHANGED counter
     /\ UNCHANGED <<tableVars, cell, mem, slot>>

RemoveTop(t) ==
  /\ pc[t] = "removeTop"
  /\ SetSlot(Me(t), loc[t].pos, NoSlot)
  /\ ContinueIf(TakenOver(slot[Me(t)][loc[t].pos]), t, loc[t], loc[t].pos)
  /\ UNCHANGED <<tableVars, clientVars, counter>>

(* any other is overwritten with the last one, which is then dropped.      *)
MoveDown(t) ==
  /\ pc[t] = "moveDown"
  /\ SetSlot(Me(t), loc[t].pos, loc[t].last)
  /\ Goto(t, "dropTop", [loc[t] EXCEPT !.marked = slot[Me(t)][loc[t].pos].mark])
  /\ UNCHANGED <<tableVars, clientVars, counter>>

DropTop(t) ==
  /\ pc[t] = "dropTop"
  /\ counter' = [counter EXCEPT ![Me(t)] = @ - 1]
  /\ Goto(t, "clearTop", loc[t])
  /\ UNCHANGED <<tableVars, clientVars, slot>>

(* A mark that the last slot got in the meantime is found by the exchange  *)
(* and stored in the new place.                                            *)
ClearTop(t) ==
  LET top == counter[Me(t)]
      s == slot[Me(t)][top]
  IN /\ pc[t] = "clearTop"
     /\ SetSlot(Me(t), top, NoSlot)
     /\ \/ s = loc[t].last /\ ContinueIf(loc[t].marked, t, loc[t], loc[t].pos)
        \/ s # loc[t].last /\ Goto(t, "moveMark", [loc[t] EXCEPT !.last = s])
     /\ UNCHANGED <<tableVars, clientVars, counter>>

MovedBack(t) == loc[t].last

MoveMark(t) ==
  /\ pc[t] = "moveMark"
  /\ SetSlot(Me(t), loc[t].pos, MovedBack(t))
  /\ ContinueIf(loc[t].marked, t, loc[t], loc[t].pos)
  /\ UNCHANGED <<tableVars, clientVars, counter>>

(* The program exchanges a shared pointer for a new object or nullptr, as  *)
(* tests/src/test_reclamation_strategies.cpp does, and retires the old.    *)
Exchange(t, c, p) ==
  /\ Idle(t)
  /\ cell[c] # p
  /\ p # NoPtr => mem[p] = "free" \/ (mem[p] = "private" /\ held[t][p] > 0)
  /\ cell' = [cell EXCEPT ![c] = p]
  /\ mem' = [o \in Objects |->
               IF o = p THEN "live" ELSE IF o = cell[c] THEN "retired" ELSE mem[o]]
  /\ IF cell[c] = NoPtr THEN UNCHANGED <<pc, loc>>
     ELSE Goto(t, "safeDelete", [NoLoc EXCEPT !.ptr = cell[c]])
  /\ UNCHANGED <<tableVars, held, slotVars>>

TopPosition(h) == counter[h] - 1

(* safe_delete: the walk over all handles, and over the slots of each.     *)
SafeDelete(t) ==
  /\ pc[t] = "safeDelete"
  /\ Goto(t, "markHandle", [loc[t] EXCEPT !.h = handleCounter])
  /\ UNCHANGED <<tableVars, clientVars, slotVars>>

NextHandle(t, h) == Goto(t, "markHandle", [loc[t] EXCEPT !.h = h - 1, !.i = 0])

MarkHandle(t) ==
  LET h == loc[t].h IN
  /\ pc[t] = "markHandle" /\ h >= 0
  /\ IF handles[h] = "marked" \/ TopPosition(h) < 0 THEN NextHandle(t, h)
     ELSE Goto(t, "markSlot", [loc[t] EXCEPT !.i = TopPosition(h)])
  /\ UNCHANGED <<tableVars, clientVars, slotVars>>

MarkSlot(t) ==
  LET h == loc[t].h
      i == loc[t].i
  IN /\ pc[t] = "markSlot"
     /\ \/ /\ slot[h][i].ptr = loc[t].ptr
           /\ SetSlot(h, i, Slot(loc[t].ptr, TRUE))
           /\ GoOn(t, loc[t])
        \/ /\ slot[h][i].ptr # loc[t].ptr
           /\ IF i = 0 THEN NextHandle(t, h)
              ELSE Goto(t, "markSlot", [loc[t] EXCEPT !.i = i - 1])
           /\ UNCHANGED slot
     /\ UNCHANGED <<tableVars, clientVars, counter>>

(* The end of the walk: default_destructor::destroy, delete_raw.           *)
Destroy(t) ==
  /\ pc[t] = "markHandle" /\ loc[t].h < 0
  /\ mem' = [mem EXCEPT ![loc[t].ptr] = "free"]
  /\ GoOn(t, loc[t])
  /\ UNCHANGED <<tableVars, cell, held, slotVars>>

(* ~handle_type: the slots are cleared from the top; protections that were *)
(* not given back end here.                                                *)
DropHandle(t) ==
  /\ Idle(t)
  /\ \A o \in Objects : held[t][o] > 0 => mem[o] # "private"
  /\ held' = [held EXCEPT ![t] = [o \in Objects |-> 0]]
  /\ Goto(t, "dropSlots", [NoLoc EXCEPT !.pos = TopPosition(Me(t))])
  /\ UNCHANGED <<tableVars, cell, mem, slotVars>>

DropSlot(t) ==
  LET i == loc[t].pos
      s == slot[Me(t)][i]
  IN /\ pc[t] = "dropSlots" /\ i >= 0
     /\ SetSlot(Me(t), i, NoSlot)
     /\ ContinueIf(TakenOver(s), t,
                   [NoLoc EXCEPT !.ptr = s.ptr, !.pos = i - 1,
                                 !.then = "dropSlots"], i)
     /\ UNCHANGED <<tableVars, clientVars, counter>>

DropDone(t) ==
  /\ pc[t] = "dropSlots" /\ loc[t].pos < 0
  /\ counter' = [counter EXCEPT ![Me(t)] = 0]
  /\ GiveBack(t)
  /\ Return(t)
  /\ UNCHANGED <<clientVars, slot>>

(* The steps of an operation that has begun, and those that begin one.     *)
Step(t) ==
  \/ InsertCount(t) \/ InsertStore(t) \/ Reload(t) \/ Replace(t) \/ Replaced(t)
  \/ RemoveTop(t) \/ MoveDown(t) \/ DropTop(t) \/ ClearTop(t) \/ MoveMark(t)
  \/ SafeDelete(t) \/ MarkHandle(t) \/ MarkSlot(t) \/ Destroy(t)
  \/ DropSlot(t) \/ DropDone(t)

Begin(t) ==
  \/ \E c \in Cells : ProtectLoad(t, c) \/ \E p \in Pointers : Exchange(t, c, p)
  \/ \E o \in Objects : ProtectRaw(t, o) \/ ProtectNew(t, o) \/ Unprotect(t, o)
  \/ DropHandle(t)

Next == \E t \in Threads : HandleStep(t) \/ Begin(t) \/ Step(t)

Spec == Init /\ [][Next]_vars

(* Threads are scheduled again and again and finish what they have begun.  *)
FairSpec == Spec /\ \A t \in Threads : WF_vars(Step(t))

------------------------------------------------------------------------------
(* Properties.                                                             *)

SlotType == [ptr : Pointers, mark : BOOLEAN]

TypeOK ==
  /\ TableTypeOK
  /\ cell \in [Cells -> Pointers]
  /\ mem \in [Objects -> {"free", "private", "live", "retired"}]
  /\ held \in [Threads -> [Objects -> Nat]]
  /\ counter \in [Ids -> 0 .. MaxProtections]
  /\ slot \in [Ids -> [Positions -> SlotType]]
  /\ pc \in [Threads -> {"idle", "insertCount", "insertStore", "reload",
        "replace", "replaced", "removeTop", "moveDown", "dropTop", "clearTop",
        "moveMark", "safeDelete", "markHandle", "markSlot", "dropSlots"}]
  /\ loc \in [Threads -> [ptr : Pointers, pos : Positions \cup {-1},
        new : Pointers, last : SlotType, marked : BOOLEAN, h : Ids \cup {-1},
        i : Positions, cell : Cells \cup {NoPtr},
        then : {"idle", "replaced", "dropSlots"}]]

(* The manager keeps its promise: what protect and protect_raw return is   *)
(* not destroyed before it is given back, and nothing is destroyed that is *)
(* not retired.                                                            *)
Contract == INSTANCE SafeReclamation
ImplementsContract == Contract!Spec

(* The shared pointers point to objects that are not retired, and no two   *)
(* of them to the same one.                                                *)
CellsAreLive == \A c, d \in Cells :
  cell[c] # NoPtr =>
    mem[cell[c]] = "live" /\ (cell[d] = cell[c] => c = d)

(* The locals that an operation relies on.                                 *)
LocalsFit(t) ==
  /\ pc[t] = "idle" => loc[t] = NoLoc
  /\ pc[t] # "idle" => hpc[t] = "has"
  /\ pc[t] \notin {"idle", "dropSlots"} => loc[t].ptr \in Objects
  /\ pc[t] \in {"reload", "replace"} \/ loc[t].then = "replaced" =>
       loc[t].cell \in Cells
  /\ pc[t] = "replaced" => loc[t].then = "replaced"
  /\ loc[t].then = "replaced" =>
       pc[t] \in {"replace", "replaced", "markHandle", "markSlot"}
  /\ loc[t].then = "dropSlots" => pc[t] \in {"dropSlots", "markHandle", "markSlot"}
  /\ loc[t].marked =>
       /\ pc[t] \in {"dropTop", "clearTop", "moveMark", "markHandle", "markSlot"}
       /\ loc[t].then = "idle"
  /\ loc[t].last.mark => loc[t].last.ptr \in Objects
  /\ pc[t] = "markSlot" => loc[t].h \in Ids

(* The slots of a handle: an operation finds its slot as it left it, but   *)
(* for marks, and what is not in use is empty.                             *)
Tentative(t) ==
  pc[t] \in {"insertStore", "reload", "replace"} \/ loc[t].then = "replaced"
Dropping(t) == pc[t] = "dropSlots" \/ loc[t].then = "dropSlots"
Moving(t) == pc[t] \in {"moveDown", "dropTop", "clearTop", "moveMark"}
TopCopy(t) == IF pc[t] = "clearTop" THEN counter[Me(t)] ELSE TopPosition(Me(t))

Emptied(t, i) ==
  IF Dropping(t) THEN i > loc[t].pos
  ELSE \/ i >= counter[Me(t)] /\ ~(pc[t] \in {"removeTop", "clearTop"} /\ i = counter[Me(t)])
       \/ pc[t] = "insertStore" /\ i = loc[t].pos

SlotsInOrder(t) ==
  LET mine == slot[Me(t)]
      pos == loc[t].pos
      last == loc[t].last
  IN /\ pc[t] = "insertCount" => HasRoom(t)
     /\ Tentative(t) => pos \in Positions /\ pos = TopPosition(Me(t))
     /\ pc[t] \in {"reload", "replace", "moveDown"} => mine[pos].ptr = loc[t].ptr
     /\ loc[t].then = "replaced" /\ pc[t] # "replace" => mine[pos].ptr = loc[t].new
     /\ pc[t] = "removeTop" =>
          pos \in Positions /\ pos = counter[Me(t)] /\ mine[pos].ptr = loc[t].ptr
     /\ Moving(t) => pos \in Positions /\ pos < counter[Me(t)]
     /\ pc[t] \in {"moveDown", "dropTop", "clearTop"} =>
          /\ pos < TopCopy(t) /\ TopCopy(t) \in Positions
          /\ mine[TopCopy(t)] \in {last, Slot(last.ptr, TRUE)}
     /\ pc[t] \in {"dropTop", "clearTop"} =>
          /\ mine[pos] \in {last, Slot(last.ptr, TRUE)}
          /\ mine[pos].mark /\ mine[TopCopy(t)].mark => last.mark
     /\ pc[t] = "moveMark" => mine[pos].ptr = last.ptr /\ last.mark
     /\ \A i \in Positions : Emptied(t, i) => mine[i] = NoSlot

HandlesInOrder ==
  /\ \A t \in Threads : LocalsFit(t) /\ (hpc[t] = "has" => SlotsInOrder(t))
  /\ \A h \in Ids :
       \/ \E t \in Threads : hpc[t] = "has" /\ Me(t) = h
       \/ counter[h] = 0 /\ slot[h] = [i \in Positions |-> NoSlot]
  /\ \A h \in Ids, i \in Positions : slot[h][i].mark => slot[h][i].ptr \in Objects

(* Every protection handed out is announced in a slot of its own, also     *)
(* while remove moves slots about.                                         *)
Given(t) == {i \in Positions :
  /\ ~Dropping(t) /\ i < counter[Me(t)]
  /\ Tentative(t) \/ pc[t] = "moveDown" => i # loc[t].pos
  /\ pc[t] = "dropTop" => i # TopCopy(t)}
Copies(t, o) == {i \in Given(t) : slot[Me(t)][i].ptr = o}

ProtectionsAnnounced == \A t \in Threads, o \in Objects :
  held[t][o] > 0 => hpc[t] = "has" /\ held[t][o] <= Cardinality(Copies(t, o))

(* What is protected exists, and a new object is its creator's own until   *)
(* it is protected.                                                        *)
Protected(o) == \E t \in Threads : held[t][o] > 0
Inserting(t, o) ==
  pc[t] \in {"insertCount", "insertStore"} /\ IsRaw(t) /\ loc[t].ptr = o

ProtectedExists == \A o \in Objects :
  /\ Protected(o) => mem[o] # "free"
  /\ \A t \in Threads : Inserting(t, o) =>
       \/ held[t][o] > 0
       \/ /\ mem[o] = "private" /\ ~Protected(o)
          /\ \A u \in Threads : Inserting(u, o) => u = t

(* The places from which the deletion of o can go on: threads on their way *)
(* with it, and marked slots.  While remove moves the last slot down there *)
(* are two copies of it; the upper one does not count.                     *)
Walking(t, o) ==
  /\ loc[t].ptr = o
  /\ \/ pc[t] \in {"safeDelete", "markHandle", "markSlot"}
     \/ loc[t].marked
MarkInHand(t, o) == pc[t] = "moveMark" /\ loc[t].last = Slot(o, TRUE)
IsUpperCopy(h, i) == \E t \in Threads :
  /\ Me(t) = h /\ hpc[t] = "has"
  /\ pc[t] \in {"dropTop", "clearTop"} /\ slot[h][loc[t].pos] = slot[h][i]
  /\ i = TopCopy(t)
Marked(h, i, o) == slot[h][i] = Slot(o, TRUE) /\ ~IsUpperCopy(h, i)

HasDeleter(o) ==
  \/ \E t \in Threads : Walking(t, o) \/ MarkInHand(t, o)
  \/ \E h \in Ids, i \in Positions : Marked(h, i, o)

(* The deletion of a retired object is neither lost nor done twice: at all *)
(* times exactly one thread or one marked slot is responsible for it, and  *)
(* no mark is left over from an object that is gone.                       *)
OneDeleter == \A o \in Objects :
  /\ mem[o] = "retired" <=> HasDeleter(o)
  /\ \A t, u \in Threads :
       /\ Walking(t, o) => ~MarkInHand(u, o) /\ (Walking(u, o) => t = u)
       /\ MarkInHand(t, o) /\ MarkInHand(u, o) => t = u
  /\ \A h, g \in Ids, i, j \in Positions : Marked(h, i, o) =>
       /\ \A t \in Threads : ~Walking(t, o) /\ ~MarkInHand(t, o)
       /\ Marked(g, j, o) => h = g /\ i = j

(* The walk has not yet been at position i of handle h, from its deleter's *)
(* place on; so it comes by all the threads that protect the object.       *)
UpTo(h, i, g, j) == h < g \/ (h = g /\ i <= j)

Ahead(o, h, i) ==
  /\ \A t \in Threads : Walking(t, o) =>
       /\ pc[t] = "markHandle" => h <= loc[t].h
       /\ pc[t] = "markSlot" => UpTo(h, i, loc[t].h, loc[t].i)
       /\ Moving(t) => UpTo(h, i, Me(t), loc[t].pos)
  /\ \A t \in Threads : MarkInHand(t, o) => UpTo(h, i, Me(t), loc[t].pos)
  /\ \A g \in Ids, j \in Positions : Marked(g, j, o) => UpTo(h, i, g, j)

ProtectionsAhead == \A t \in Threads, o \in Objects :
  held[t][o] > 0 => \E i \in Copies(t, o) : Ahead(o, Me(t), i)

(* The types, the slots, and what they mean for the objects.               *)
StateInv ==
  /\ TypeOK
  /\ HandlesInOrder
  /\ CellsAreLive
  /\ ProtectionsAnnounced
  /\ ProtectedExists
  /\ ProtectionsAhead

(* The inductive invariant.                                                *)
IndInv == TableInv /\ StateInv /\ OneDeleter

(* A retired object that nobody protects any more does not stay around.    *)
NoLeak == \A o \in Objects :
  []<>(mem[o] # "retired" \/ \E t \in Threads : held[t][o] > 0)
==============================================================================
