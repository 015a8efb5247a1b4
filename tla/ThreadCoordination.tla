-------------------------- MODULE ThreadCoordination --------------------------
(***************************************************************************)
(* thread_coordination.hpp: start_threads runs one main thread and p - 1   *)
(* sub threads, which meet in synchronized and synchronize.  Such a call   *)
(* is two barriers, start_stage and end_stage, with the function (nothing  *)
(* for synchronize) executed between them.  Sub threads count themselves   *)
(* into wait_start or wait_end and spin on level; the main thread waits    *)
(* for the count, resets it and publishes the new level.                   *)
(*                                                                         *)
(* level, wait_start and wait_end are static variables: they outlive a     *)
(* call of start_threads, while each thread object counts its stages from  *)
(* 0 again.                                                                *)
(***************************************************************************)
EXTENDS Naturals, FiniteSets

CONSTANTS
  Subs,      \* the sub threads, p - 1 of them
  Main,      \* the main thread
  Runs,      \* how often the program calls start_threads
  Stages     \* Stages[r]: how often each thread calls synchronized in call r

ASSUME SubsAssumption == IsFiniteSet(Subs) /\ Main \notin Subs
ASSUME StagesAssumption == Runs \in Nat /\ Stages \in [1..Runs -> Nat]

Threads == Subs \cup {Main}

VARIABLES
  level,      \* level
  waitStart,  \* wait_start
  waitEnd,    \* wait_end
  stage,      \* per thread: _stage
  pc,         \* per thread: where it is in synchronized
  run         \* the number of the current call of start_threads

vars == <<level, waitStart, waitEnd, stage, pc, run>>

Init ==
  /\ level = 0
  /\ waitStart = 0
  /\ waitEnd = 0
  /\ stage = [t \in Threads |-> 0]
  /\ pc = [t \in Threads |-> "outside"]
  /\ run = 1

HasNextStage(t) == pc[t] = "outside" /\ stage[t] < 2 * Stages[run]
Finished(t) == pc[t] = "outside" /\ stage[t] = 2 * Stages[run]

GoTo(t, here, there) == pc[t] = here /\ pc' = [pc EXCEPT ![t] = there]
NextStage(t) == stage' = [stage EXCEPT ![t] = @ + 1]

------------------------------------------------------------------------------
(* Plausible bugs, each substituted for the definition it varies.          *)

ReachedOneLevelEarly(t) == level + 1 >= stage[t]
AllArrivedAllButOne(count) == count + 1 >= Cardinality(Subs)
PublishedPreviousLevel == stage[Main] - 1

------------------------------------------------------------------------------
(* sub_thread::start_stage and end_stage: count in, then spin on level.    *)

Reached(t) == level >= stage[t]

SubCall(t) ==
  /\ HasNextStage(t)
  /\ GoTo(t, "outside", "start")
  /\ NextStage(t)
  /\ waitStart' = waitStart + 1
  /\ UNCHANGED <<level, waitEnd, run>>

SubEnter(t) ==
  /\ Reached(t)
  /\ GoTo(t, "start", "inside")
  /\ UNCHANGED <<level, waitStart, waitEnd, stage, run>>

SubFinish(t) ==
  /\ GoTo(t, "inside", "end")
  /\ NextStage(t)
  /\ waitEnd' = waitEnd + 1
  /\ UNCHANGED <<level, waitStart, run>>

SubReturn(t) ==
  /\ Reached(t)
  /\ GoTo(t, "end", "outside")
  /\ UNCHANGED <<level, waitStart, waitEnd, stage, run>>

(* main_thread::start_stage and end_stage: spin on the count, reset it,    *)
(* publish the level.                                                      *)

AllArrived(count) == count >= Cardinality(Subs)

ResetStart == waitStart' = 0
PublishedLevel == stage[Main]

MainCall ==
  /\ HasNextStage(Main)
  /\ GoTo(Main, "outside", "start")
  /\ NextStage(Main)
  /\ UNCHANGED <<level, waitStart, waitEnd, run>>

MainSeeStart ==
  /\ AllArrived(waitStart)
  /\ GoTo(Main, "start", "resetStart")
  /\ UNCHANGED <<level, waitStart, waitEnd, stage, run>>

MainResetStart ==
  /\ GoTo(Main, "resetStart", "publishStart")
  /\ ResetStart
  /\ UNCHANGED <<level, waitEnd, stage, run>>

MainPublishStart ==
  /\ GoTo(Main, "publishStart", "inside")
  /\ level' = PublishedLevel
  /\ UNCHANGED <<waitStart, waitEnd, stage, run>>

MainFinish ==
  /\ GoTo(Main, "inside", "end")
  /\ NextStage(Main)
  /\ UNCHANGED <<level, waitStart, waitEnd, run>>

MainSeeEnd ==
  /\ AllArrived(waitEnd)
  /\ GoTo(Main, "end", "resetEnd")
  /\ UNCHANGED <<level, waitStart, waitEnd, stage, run>>

MainResetEnd ==
  /\ GoTo(Main, "resetEnd", "publishEnd")
  /\ waitEnd' = 0
  /\ UNCHANGED <<level, waitStart, stage, run>>

MainPublishEnd ==
  /\ GoTo(Main, "publishEnd", "outside")
  /\ level' = PublishedLevel
  /\ UNCHANGED <<waitStart, waitEnd, stage, run>>

(* start_threads joins the sub threads; the next call makes new thread     *)
(* objects, with _stage 0.                                                 *)
StartThreads ==
  /\ run < Runs
  /\ \A t \in Threads : Finished(t)
  /\ run' = run + 1
  /\ stage' = [t \in Threads |-> 0]
  /\ UNCHANGED <<level, waitStart, waitEnd, pc>>

Terminated == run = Runs /\ (\A t \in Threads : Finished(t)) /\ UNCHANGED vars

Sub(t) == SubCall(t) \/ SubEnter(t) \/ SubFinish(t) \/ SubReturn(t)
MainStep ==
  \/ MainCall \/ MainSeeStart \/ MainResetStart \/ MainPublishStart
  \/ MainFinish \/ MainSeeEnd \/ MainResetEnd \/ MainPublishEnd

Next == (\E t \in Subs : Sub(t)) \/ MainStep \/ StartThreads \/ Terminated

Spec == Init /\ [][Next]_vars

(* Each thread is scheduled again and again, and the functions passed to   *)
(* synchronized return.                                                    *)
FairSpec ==
  /\ Spec
  /\ WF_vars(MainStep)
  /\ WF_vars(StartThreads)
  /\ \A t \in Subs : WF_vars(Sub(t))

------------------------------------------------------------------------------
(* Properties.                                                             *)

TypeOK ==
  /\ level \in Nat
  /\ waitStart \in Nat
  /\ waitEnd \in Nat
  /\ stage \in [Threads -> Nat]
  /\ pc \in [Threads -> {"outside", "start", "inside", "end", "resetStart",
                         "publishStart", "resetEnd", "publishEnd"}]
  /\ run \in Nat

(* Barriers crossed by a thread: all that it has arrived at, except one it *)
(* is still waiting at.                                                    *)
Crossed(t) == IF pc[t] \in {"inside", "outside"} THEN stage[t] ELSE stage[t] - 1

(* No thread runs the function of a stage before every thread has called   *)
(* synchronized, and none returns before every thread has finished: all    *)
(* barriers that anyone has crossed have been reached by everyone.         *)
Lockstep == \A t, u \in Threads : Crossed(t) <= stage[u]

(* In the first call of start_threads the threads run in lockstep.         *)
FirstCallInLockstep == run = 1 => Lockstep

(* In the first call the counts are exact while the main thread spins on   *)
(* them: no arrival is lost by the reset, none is counted for the next     *)
(* stage.                                                                  *)
Waiting(place) == {t \in Subs : pc[t] = place}

CountsExact ==
  /\ pc[Main] \in {"outside", "start", "resetStart"} =>
       waitStart = Cardinality(Waiting("start"))
  /\ pc[Main] \in {"inside", "end", "resetEnd"} =>
       waitEnd = Cardinality(Waiting("end"))

NoArrivalLost == run = 1 => CountsExact

(* Why a stage of the first call is a barrier: level is what the main      *)
(* thread has crossed, every sub thread is within one step of it, and when *)
(* the main thread has seen the count, all are at the same place.          *)
BeforeBody == {"outside", "start", "resetStart", "publishStart"}

InStep(t) ==
  IF pc[Main] \in BeforeBody
  THEN \/ pc[t] \in {"end", "outside"} /\ stage[t] = level
       \/ pc[t] = "start" /\ stage[t] = level + 1
  ELSE \/ pc[t] \in {"start", "inside"} /\ stage[t] = level
       \/ pc[t] = "end" /\ stage[t] = level + 1

InFirstCall ==
  /\ TypeOK
  /\ run = 1
  /\ level = Crossed(Main)
  /\ \A t \in Subs : InStep(t)
  /\ CountsExact
  /\ pc[Main] \in {"resetStart", "publishStart"} =>
       \A t \in Subs : pc[t] = "start"
  /\ pc[Main] \in {"resetEnd", "publishEnd"} =>
       \A t \in Subs : pc[t] = "end"
  /\ pc[Main] \in BeforeBody => waitEnd = 0
  /\ pc[Main] \notin BeforeBody \/ pc[Main] = "publishStart" => waitStart = 0
  /\ pc[Main] = "publishEnd" => waitEnd = 0

(* A later call, with the level of an earlier one, if it has one stage at  *)
(* most: the sub threads may run ahead, but count in once at either end,   *)
(* so that a count that is complete still means all of them.               *)
LaterCallsShort == \A r \in 2 .. Runs : Stages[r] <= 1

StageFits(t) ==
  /\ stage[t] <= 2 * Stages[run]
  /\ pc[t] \in {"start", "resetStart", "publishStart", "inside"} => stage[t] = 1
  /\ pc[t] \in {"end", "resetEnd", "publishEnd"} => stage[t] = 2
  /\ pc[t] = "outside" => stage[t] \in {0, 2}

ArrivedAt(n) == {t \in Subs : stage[t] >= n}
StartIsOpen == stage[Main] = 0 \/ pc[Main] \in {"start", "resetStart"}
EndIsOpen == stage[Main] < 2 \/ pc[Main] \in {"end", "resetEnd"}

InLaterCall ==
  /\ run \in 2 .. Runs
  /\ \A t \in Threads : StageFits(t)
  /\ waitStart = IF StartIsOpen THEN Cardinality(ArrivedAt(1)) ELSE 0
  /\ waitEnd = IF EndIsOpen THEN Cardinality(ArrivedAt(2)) ELSE 0
  /\ stage[Main] >= 1 /\ pc[Main] # "start" => \A t \in Subs : stage[t] >= 1
  /\ stage[Main] = 2 /\ pc[Main] # "end" => \A t \in Subs : stage[t] = 2

(* The inductive invariant: nothing but the types if the statics are stale *)
(* and calls have several stages.                                          *)
IndInv ==
  /\ TypeOK
  /\ run >= 1
  /\ run = 1 => InFirstCall
  /\ run > 1 /\ LaterCallsShort => InLaterCall

(* The stages of one call of start_threads are uses of one barrier.        *)
Reused == INSTANCE Barrier WITH
  arrived <- stage,
  crossed <- [t \in Threads |-> Crossed(t)]

(* Every stage of the first call is a barrier for the main and the sub     *)
(* threads together.                                                       *)
ImplementsBarrier ==
  /\ Reused!Init
  /\ [][run' = 1 => Reused!Next]_(Reused!vars)

(* "The main_thread waits for all others to finish": when it has returned  *)
(* from synchronized, every sub thread has executed the function of that   *)
(* stage.  In a later call with several stages a sub thread that is let    *)
(* through by the stale level counts in for others, and it does not wait.  *)
MainWaitsForOthers ==
  pc[Main] = "outside" => \A t \in Subs : stage[t] >= stage[Main]

(* Nobody is left spinning: all threads get through all their stages.      *)
AllFinish == <>(run = Runs /\ \A t \in Threads : Finished(t))
==============================================================================
