----------------------------- MODULE ParallelFor ------------------------------
(***************************************************************************)
(* The stages of thread_coordination.hpp with a parallel loop in each: all *)
(* threads run execute_parallel, or execute_blockwise_parallel, on one     *)
(* counter inside synchronized, and the main thread resets the counter     *)
(* when it has returned, as test_allocators.cpp does.                      *)
(***************************************************************************)
EXTENDS ThreadCoordination

CONSTANTS
  Items,      \* e: the loop runs over 0 .. Items - 1
  BlockSize,  \* block_size, 4096
  NoClaim     \* a thread that is not in a loop

ASSUME LoopAssumption ==
  Items \in Nat /\ BlockSize \in Nat \ {0} /\ NoClaim \notin Nat

VARIABLES
  counter,    \* global_counter
  claim,      \* per thread: c_s; the main thread's is kept until the reset
  executed    \* history: how often f was called for an index since the reset

loopVars == <<counter, claim, executed>>
loopAllVars == <<vars, loopVars>>

Indices == 0 .. (Items - 1)
MinOf(m, n) == IF m < n THEN m ELSE n

LoopInit ==
  /\ Init
  /\ counter = 0
  /\ claim = [t \in Threads |-> NoClaim]
  /\ executed = [i \in Indices |-> 0]

------------------------------------------------------------------------------
(* Plausible bugs, each substituted for the definition it varies.          *)

BlockOverlaps(t) == {i \in Indices : claim[t] <= i /\ i <= claim[t] + BlockSize}

------------------------------------------------------------------------------
FetchAdd(t) ==
  /\ claim' = [claim EXCEPT ![t] = counter]
  /\ counter' = counter + BlockSize

BeginLoop(t) ==
  /\ pc[t] = "inside" /\ claim[t] = NoClaim
  /\ FetchAdd(t)
  /\ UNCHANGED <<vars, executed>>

Block(t) == claim[t] .. (MinOf(claim[t] + BlockSize, Items) - 1)

(* The calls of f for one block, and the next fetch_add.                   *)
ExecuteBlock(t) ==
  /\ pc[t] = "inside" /\ claim[t] # NoClaim /\ claim[t] < Items
  /\ executed' = [i \in Indices |-> executed[i] + IF i \in Block(t) THEN 1 ELSE 0]
  /\ FetchAdd(t)
  /\ UNCHANGED vars

LoopDone(t) == claim[t] # NoClaim /\ claim[t] >= Items

SubLeaveLoop(t) ==
  /\ LoopDone(t) /\ SubFinish(t)
  /\ claim' = [claim EXCEPT ![t] = NoClaim]
  /\ UNCHANGED <<counter, executed>>

MainLeaveLoop == LoopDone(Main) /\ MainFinish /\ UNCHANGED loopVars

MayReset == claim[Main] # NoClaim /\ pc[Main] = "outside"

(* The main thread, between synchronized and its next step.                *)
ResetCounter ==
  /\ MayReset
  /\ counter' = 0
  /\ claim' = [claim EXCEPT ![Main] = NoClaim]
  /\ executed' = [i \in Indices |-> 0]
  /\ UNCHANGED vars

SubBarrier(t) == SubCall(t) \/ SubEnter(t) \/ SubReturn(t)
MainBarrier ==
  \/ claim[Main] = NoClaim /\ MainCall
  \/ MainSeeStart \/ MainResetStart \/ MainPublishStart
  \/ MainSeeEnd \/ MainResetEnd \/ MainPublishEnd
NextCall == claim[Main] = NoClaim /\ (StartThreads \/ Terminated)

InLoop(t) == BeginLoop(t) \/ ExecuteBlock(t)
SubInLoop(t) ==
  InLoop(t) \/ SubLeaveLoop(t) \/ (SubBarrier(t) /\ UNCHANGED loopVars)
MainInLoop ==
  \/ InLoop(Main) \/ MainLeaveLoop \/ ResetCounter
  \/ MainBarrier /\ UNCHANGED loopVars

LoopNext ==
  \/ \E t \in Subs : SubInLoop(t)
  \/ MainInLoop
  \/ NextCall /\ UNCHANGED loopVars

(* As in ThreadCoordination; f returns.                                    *)
LoopSpec ==
  /\ LoopInit /\ [][LoopNext]_loopAllVars
  /\ WF_loopAllVars(MainInLoop)
  /\ WF_loopAllVars(NextCall /\ UNCHANGED loopVars)
  /\ \A t \in Subs : WF_loopAllVars(SubInLoop(t))

------------------------------------------------------------------------------
(* Properties.                                                             *)

LoopTypeOK ==
  /\ counter \in Nat
  /\ claim \in [Threads -> Nat \cup {NoClaim}]
  /\ executed \in [Indices -> Nat]

(* f is called at most once for an index, and when the main thread returns *)
(* from synchronized it has been called once for each, whichever thread    *)
(* had claimed it.  This needs the barriers at both ends of the stage, and *)
(* the reset of the counter to come when nobody is in the loop.            *)
EachIndexOnce ==
  /\ LoopTypeOK
  /\ \A i \in Indices : executed[i] <= 1
  /\ MayReset => \A i \in Indices : executed[i] = 1

(* Why: the blocks that threads have claimed do not overlap, and the       *)
(* indices below the counter have been executed but for those in a block   *)
(* that is still claimed.                                                  *)
BlocksApart ==
  /\ \A t \in Threads : claim[t] # NoClaim => claim[t] + BlockSize <= counter
  /\ \A t, u \in Threads :
       t # u /\ claim[t] # NoClaim /\ claim[u] # NoClaim =>
         claim[t] + BlockSize <= claim[u] \/ claim[u] + BlockSize <= claim[t]

Claimed(i) == \E t \in Threads : claim[t] # NoClaim /\ i \in Block(t)

ExecutedBelow ==
  \A i \in Indices : executed[i] = IF i < counter /\ ~Claimed(i) THEN 1 ELSE 0

(* The sub threads are in the loop inside a stage only.  The main thread   *)
(* leaves it with nothing to do, and resets the counter before it goes on. *)
LoopsInStages ==
  /\ \A t \in Subs : claim[t] # NoClaim => pc[t] = "inside"
  /\ claim[Main] # NoClaim =>
       /\ pc[Main] \in {"inside", "end", "resetEnd", "publishEnd", "outside"}
       /\ pc[Main] # "inside" => claim[Main] >= Items
       /\ run > 1 => stage[Main] > 0

(* The inductive invariant, on top of that of the barrier.                 *)
LoopInv == LoopTypeOK /\ BlocksApart /\ ExecutedBelow /\ LoopsInStages
==============================================================================
