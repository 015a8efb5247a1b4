-------------------------- MODULE HazardStoreBuffer ---------------------------
(***************************************************************************)
(* HazardReclamation without the assumption that a store is visible before *)
(* the next load of the same thread.  internal_handle::insert stores the   *)
(* announced pointer with memo::release and protect then loads the shared  *)
(* pointer with memo::acquire; nothing orders the two, and on a machine    *)
(* with store buffers (x86 included) the store may become visible after    *)
(* the load.  hazard_manager takes its orders from                         *)
(* standard_memory_order_policy, which no compile time switch changes.     *)
(*                                                                         *)
(* One store per thread may be buffered.  Only loads overtake it: all      *)
(* other accesses of the thread are read-modify-writes or later stores.    *)
(***************************************************************************)
EXTENDS HazardReclamation

VARIABLE buffer   \* per thread: the store still to become visible, or none

bufferedVars == <<vars, buffer>>

Empty == [pos |-> -1, ptr |-> NoPtr]

BufferedInit == Init /\ buffer = [t \in Threads |-> Empty]

BufferStore(t) ==
  /\ pc[t] = "insertStore" /\ buffer[t] = Empty
  /\ buffer' = [buffer EXCEPT ![t] = [pos |-> loc[t].pos, ptr |-> loc[t].ptr]]
  /\ \/ IsRaw(t) /\ Hold(t, loc[t].ptr) /\ Return(t)
     \/ ~IsRaw(t) /\ Goto(t, "reload", loc[t]) /\ UNCHANGED held
  /\ UNCHANGED <<tableVars, cell, mem, slotVars>>

Flush(t) ==
  /\ buffer[t] # Empty
  /\ SetSlot(Me(t), buffer[t].pos, Slot(buffer[t].ptr, FALSE))
  /\ buffer' = [buffer EXCEPT ![t] = Empty]
  /\ UNCHANGED <<tableVars, clientVars, counter, pc, loc>>

Overtake(t) ==
  /\ Reload(t) \/ \E c \in Cells : ProtectLoad(t, c)
  /\ UNCHANGED buffer

Ordered(t) ==
  /\ buffer[t] = Empty /\ pc[t] # "insertStore"
  /\ HandleStep(t) \/ Begin(t) \/ Step(t)
  /\ UNCHANGED buffer

BufferedNext ==
  \E t \in Threads : BufferStore(t) \/ Flush(t) \/ Overtake(t) \/ Ordered(t)

BufferedSpec == BufferedInit /\ [][BufferedNext]_bufferedVars

------------------------------------------------------------------------------
(* A pointer that protect has returned points to an object until it is     *)
(* given back: the sub threads of the test increment its counter meanwhile.*)
ProtectedIsAlive == \A t \in Threads, o \in Objects :
  held[t][o] > 0 => mem[o] # "free"
==============================================================================
