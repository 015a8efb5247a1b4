---------------------------- MODULE MCCoordination ----------------------------
(***************************************************************************)
(* Threads that wait for each other: the stages with their loops, and the  *)
(* initialization of the memory pool.  A behaviour is one of either, in    *)
(* which the other stays in its initial state.                             *)
(***************************************************************************)
EXTENDS ParallelFor

CONSTANTS PoolThreads, Sizes, SmallSize, NoSize

VARIABLES part, state, defaultSize, pool, failed, place, size, answer

Pool == INSTANCE MempoolInit WITH Threads <- PoolThreads, pc <- place

poolVars == <<state, defaultSize, pool, failed, place, size, answer>>
allVars == <<part, loopAllVars, poolVars>>

(* A call with three stages, then calls with one.                          *)
LaterCallsHaveOneStage == <<3, 1, 1>>

PartInit ==
  /\ part \in {"stages", "pool"}
  /\ LoopInit /\ Pool!Init
  /\ part = "pool" \/ defaultSize = CHOOSE s \in Sizes : TRUE

StagesNext == part = "stages" /\ LoopNext /\ UNCHANGED <<part, poolVars>>
PoolNext == part = "pool" /\ Pool!Next /\ UNCHANGED <<part, loopAllVars>>
PartNext == StagesNext \/ PoolNext

(* The fairness of the two.                                                *)
StagesFairness ==
  /\ WF_loopAllVars(part = "stages" /\ MainInLoop)
  /\ WF_loopAllVars(part = "stages" /\ NextCall /\ UNCHANGED loopVars)
  /\ \A t \in Subs : WF_loopAllVars(part = "stages" /\ SubInLoop(t))
PoolFairness ==
  \A t \in PoolThreads : WF_poolVars(part = "pool" /\ Pool!Working(t))

PartSpec ==
  PartInit /\ [][PartNext]_allVars /\ StagesFairness /\ PoolFairness

------------------------------------------------------------------------------
(* The properties that are not those of the modules themselves.            *)

(* All threads get through all their stages.                               *)
StagesFinish == part = "stages" => AllFinish

(* The memory pool is initialized by one thread, and there for the others. *)
PoolIsReady == Pool!PoolIsReady

(* No call on the memory pool is left waiting.                             *)
PoolCallsReturn == Pool!CallsReturn
==============================================================================
