-------------------------- MODULE ManagerDestructor ---------------------------
(***************************************************************************)
(* memory_reclamation/hazard_reclamation.hpp: ~hazard_manager, run by one  *)
(* thread while others still have handles.  For every entry it waits until *)
(* the handle is destroyed, and then deletes all internal handles.         *)
(*                                                                         *)
(* The entry is loaded once, before the waiting loop, which looks at this  *)
(* copy only.                                                              *)
(***************************************************************************)
EXTENDS HandleTable

VARIABLES
  dpc,      \* "off", "load", "wait", "delete" or "done"
  entry,    \* i of the loop
  temp,     \* temp, the loaded entry
  deleted   \* the internal handles that have been deleted

destructorVars == <<dpc, entry, temp, deleted>>
allVars == <<tableVars, destructorVars>>

DInit ==
  /\ TableInit
  /\ dpc = "off" /\ entry = -1 /\ temp = "null" /\ deleted = {}

------------------------------------------------------------------------------
(* The threads ask for no new handles once the manager is going down.      *)
Threaded ==
  /\ \E t \in Threads :
       \/ dpc = "off" /\ (GetHandle(t) \/ Take(t) \/ PassOver(t) \/ Raise(t))
       \/ GiveBack(t)
  /\ UNCHANGED destructorVars

Start ==
  /\ dpc = "off"
  /\ \A t \in Threads : hpc[t] \in {"none", "has"}
  /\ entry' = handleCounter
  /\ dpc' = "load"
  /\ UNCHANGED <<tableVars, temp, deleted>>

Load ==
  /\ dpc = "load" /\ entry >= 0
  /\ temp' = handles[entry]
  /\ dpc' = "wait"
  /\ UNCHANGED <<tableVars, entry, deleted>>

SeenDestroyed == temp = "marked"

(* The waiting loop; if temp is not marked it turns around without a step. *)
Wait ==
  /\ dpc = "wait"
  /\ SeenDestroyed
  /\ entry' = entry - 1
  /\ dpc' = "load"
  /\ UNCHANGED <<tableVars, temp, deleted>>

BeginDelete ==
  /\ dpc = "load" /\ entry < 0
  /\ entry' = handleCounter
  /\ dpc' = "delete"
  /\ UNCHANGED <<tableVars, temp, deleted>>

Delete ==
  /\ dpc = "delete" /\ entry >= 0
  /\ deleted' = deleted \cup {entry}
  /\ entry' = entry - 1
  /\ UNCHANGED <<tableVars, dpc, temp>>

Finish ==
  /\ dpc = "delete" /\ entry < 0
  /\ dpc' = "done"
  /\ UNCHANGED <<tableVars, entry, temp, deleted>>

Destructor == Start \/ Load \/ Wait \/ BeginDelete \/ Delete \/ Finish

DNext == Threaded \/ Destructor

DSpec == DInit /\ [][DNext]_allVars

(* Threads give their handles back, and the destructing thread runs.       *)
FairDSpec == DSpec /\ WF_allVars(Destructor) /\ \A t \in Threads :
  WF_allVars(GiveBack(t) /\ UNCHANGED destructorVars)

------------------------------------------------------------------------------
(* Properties.                                                             *)

(* The destructor waits for the handles to be destroyed, and goes on then. *)
DestructorReturns == (dpc = "load") ~> (dpc = "done")
==============================================================================
