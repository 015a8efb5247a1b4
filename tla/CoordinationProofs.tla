-------------------------- MODULE CoordinationProofs --------------------------
(***************************************************************************)
(* The safety of what threads share that wait for each other, for any      *)
(* number of them.  In the first call of start_threads every stage is a    *)
(* barrier, for any number of stages and calls.  The invariant ties the    *)
(* three shared words to the places of the threads; the main thread's      *)
(* count is the cardinality of a set of sub threads, and once it equals    *)
(* p - 1 the set is all of them.  In later calls the level is stale, but   *)
(* as long as they have one stage the counts still are such cardinalities. *)
(* The counter of a parallel loop builds on this, and then comes the       *)
(* memory pool.                                                            *)
(***************************************************************************)
EXTENDS MCCoordination, FiniteSetTheorems, TLAPS

USE SubsAssumption, StagesAssumption

LEMMA WaitingCount ==
  ASSUME NEW where
  PROVE  /\ IsFiniteSet(Waiting(where)) /\ Cardinality(Waiting(where)) \in Nat
         /\ Cardinality(Subs) \in Nat
         /\ Cardinality(Waiting(where)) >= Cardinality(Subs)
              => \A t \in Subs : pc[t] = where
<1>1. Waiting(where) \in SUBSET Subs
  BY DEF Waiting
<1>2. /\ IsFiniteSet(Waiting(where))
      /\ Cardinality(Waiting(where)) <= Cardinality(Subs)
      /\ Cardinality(Subs) = Cardinality(Waiting(where)) => Subs = Waiting(where)
  BY <1>1, FS_Subset
<1>3. Cardinality(Waiting(where)) \in Nat /\ Cardinality(Subs) \in Nat
  BY <1>2, FS_CardinalityType
<1>4. Cardinality(Waiting(where)) >= Cardinality(Subs) => Subs = Waiting(where)
  BY <1>2, <1>3
<1> QED
  BY <1>2, <1>3, <1>4 DEF Waiting

LEMMA InitInFirstCall == Init => InFirstCall
<1> SUFFICES ASSUME Init PROVE InFirstCall
  OBVIOUS
<1>1. Waiting("start") = {}
  BY DEF Init, Waiting, Threads
<1>2. Cardinality(Waiting("start")) = 0
  BY <1>1, FS_EmptySet
<1> QED
  BY <1>2 DEF Init, InFirstCall, TypeOK, Crossed, InStep, BeforeBody, CountsExact,
       Threads

LEMMA NextTypeOK ==
  ASSUME TypeOK, [Next]_vars
  PROVE  TypeOK'
<1>1. Main \in Threads /\ Subs \subseteq Threads
  BY DEF Threads
<1>2. CASE \E t \in Subs : Sub(t)
  <2> PICK t \in Subs : Sub(t)
    BY <1>2
  <2>0. t \in Threads /\ stage[t] \in Nat
    BY <1>1 DEF TypeOK
  <2>1. CASE SubCall(t)
    BY <2>0, <2>1 DEF SubCall, GoTo, NextStage, TypeOK
  <2>2. CASE SubEnter(t)
    BY <2>0, <2>2 DEF SubEnter, GoTo, TypeOK
  <2>3. CASE SubFinish(t)
    BY <2>0, <2>3 DEF SubFinish, GoTo, NextStage, TypeOK
  <2>4. CASE SubReturn(t)
    BY <2>0, <2>4 DEF SubReturn, GoTo, TypeOK
  <2> QED
    BY <2>1, <2>2, <2>3, <2>4 DEF Sub
<1>3. CASE MainStep
  <2>0. Main \in Threads /\ stage[Main] \in Nat
    BY <1>1 DEF TypeOK
  <2>1. CASE MainCall \/ MainFinish
    <3>1. CASE MainCall
      BY <2>0, <3>1 DEF MainCall, GoTo, NextStage, TypeOK
    <3>2. CASE MainFinish
      BY <2>0, <3>2 DEF MainFinish, GoTo, NextStage, TypeOK
    <3> QED
      BY <2>1, <3>1, <3>2
  <2>2. CASE MainSeeStart \/ MainSeeEnd
    BY <1>1, <2>2 DEF MainSeeStart, MainSeeEnd, GoTo, TypeOK
  <2>3. CASE MainResetStart \/ MainResetEnd
    BY <1>1, <2>3 DEF MainResetStart, MainResetEnd, ResetStart, GoTo, TypeOK
  <2>4. CASE MainPublishStart \/ MainPublishEnd
    BY <1>1, <2>4 DEF MainPublishStart, MainPublishEnd, PublishedLevel, GoTo,
       TypeOK
  <2> QED
    BY <1>3, <2>1, <2>2, <2>3, <2>4 DEF MainStep
<1>4. CASE StartThreads
  BY <1>4 DEF StartThreads, TypeOK
<1>5. CASE UNCHANGED vars
  BY <1>5 DEF vars, TypeOK
<1> QED
  BY <1>2, <1>3, <1>4, <1>5 DEF Next, Terminated

(* A step of one sub thread leaves the main thread where it is and adds    *)
(* one thread to the set that is counted, or takes none away from it.      *)
LEMMA SubInFirstCall ==
  ASSUME InFirstCall, NEW t \in Subs, Sub(t)
  PROVE  InFirstCall'
<1> USE DEF InFirstCall
<1>1. /\ t # Main /\ t \in Threads /\ Main \in Threads
      /\ pc'[Main] = pc[Main] /\ stage'[Main] = stage[Main]
      /\ level' = level /\ run' = run
  BY DEF Sub, SubCall, SubEnter, SubFinish, SubReturn, GoTo, NextStage, TypeOK,
         Threads
<1>2. \A u \in Subs \ {t} : pc'[u] = pc[u] /\ stage'[u] = stage[u]
  BY DEF Sub, SubCall, SubEnter, SubFinish, SubReturn, GoTo, NextStage, TypeOK,
         Threads
<1>3. TypeOK'
  BY NextTypeOK DEF Next
<1>4. level \in Nat /\ stage[t] \in Nat
  BY <1>1 DEF TypeOK
<1>5. level' = Crossed(Main)'
  BY <1>1 DEF Crossed
<1>6. InStep(t)
  OBVIOUS
<1>7. \A u \in Subs \ {t} : InStep(u)'
  BY <1>1, <1>2 DEF InStep
<1>8. CASE SubCall(t)
  <2>1. /\ pc[t] = "outside" /\ pc'[t] = "start" /\ stage'[t] = stage[t] + 1
        /\ waitStart' = waitStart + 1 /\ waitEnd' = waitEnd
    BY <1>1, <1>8 DEF SubCall, GoTo, NextStage, TypeOK
  <2>2. pc[Main] \in {"outside", "start"}
    BY <1>6, <2>1 DEF InStep, BeforeBody, TypeOK
  <2>3. Waiting("start")' = Waiting("start") \cup {t} /\ t \notin Waiting("start")
    BY <1>2, <2>1 DEF Waiting
  <2>4. Cardinality(Waiting("start"))' = Cardinality(Waiting("start")) + 1
    BY <2>3, WaitingCount, FS_AddElement
  <2>5. InStep(t)'
    BY <1>1, <1>4, <1>6, <2>1, <2>2 DEF InStep, BeforeBody
  <2>6. CountsExact'
    BY <1>1, <2>1, <2>2, <2>4 DEF CountsExact
  <2> QED
    BY <1>1, <1>3, <1>5, <1>7, <2>1, <2>2, <2>5, <2>6 DEF BeforeBody
<1>9. CASE SubEnter(t)
  <2>1. /\ pc[t] = "start" /\ pc'[t] = "inside" /\ stage'[t] = stage[t]
        /\ level >= stage[t] /\ waitStart' = waitStart /\ waitEnd' = waitEnd
    BY <1>1, <1>9 DEF SubEnter, Reached, GoTo, TypeOK
  <2>2. pc[Main] \notin BeforeBody
    BY <1>4, <1>6, <2>1 DEF InStep
  <2>3. pc[Main] \in {"inside", "end"}
    BY <1>1, <2>1, <2>2 DEF BeforeBody, TypeOK
  <2>4. Waiting("end")' = Waiting("end")
    BY <1>2, <2>1 DEF Waiting
  <2>5. InStep(t)'
    BY <1>1, <1>6, <2>1, <2>2 DEF InStep
  <2>6. CountsExact'
    BY <1>1, <2>1, <2>3, <2>4 DEF CountsExact
  <2> QED
    BY <1>1, <1>3, <1>5, <1>7, <2>1, <2>3, <2>5, <2>6 DEF BeforeBody
<1>10. CASE SubFinish(t)
  <2>1. /\ pc[t] = "inside" /\ pc'[t] = "end" /\ stage'[t] = stage[t] + 1
        /\ waitStart' = waitStart /\ waitEnd' = waitEnd + 1
    BY <1>1, <1>10 DEF SubFinish, GoTo, NextStage, TypeOK
  <2>2. pc[Main] \in {"inside", "end"}
    BY <1>1, <1>6, <2>1 DEF InStep, BeforeBody, TypeOK
  <2>3. Waiting("end")' = Waiting("end") \cup {t} /\ t \notin Waiting("end")
    BY <1>2, <2>1 DEF Waiting
  <2>4. Cardinality(Waiting("end"))' = Cardinality(Waiting("end")) + 1
    BY <2>3, WaitingCount, FS_AddElement
  <2>5. InStep(t)'
    BY <1>1, <1>4, <1>6, <2>1, <2>2 DEF InStep, BeforeBody
  <2>6. CountsExact'
    BY <1>1, <2>1, <2>2, <2>4 DEF CountsExact
  <2> QED
    BY <1>1, <1>3, <1>5, <1>7, <2>1, <2>2, <2>5, <2>6 DEF BeforeBody
<1>11. CASE SubReturn(t)
  <2>1. /\ pc[t] = "end" /\ pc'[t] = "outside" /\ stage'[t] = stage[t]
        /\ level >= stage[t] /\ waitStart' = waitStart /\ waitEnd' = waitEnd
    BY <1>1, <1>11 DEF SubReturn, Reached, GoTo, TypeOK
  <2>2. pc[Main] \in BeforeBody
    BY <1>4, <1>6, <2>1 DEF InStep
  <2>3. pc[Main] \in {"outside", "start"}
    BY <1>1, <2>1, <2>2 DEF BeforeBody, TypeOK
  <2>4. Waiting("start")' = Waiting("start")
    BY <1>2, <2>1 DEF Waiting
  <2>5. InStep(t)'
    BY <1>1, <1>6, <2>1, <2>2 DEF InStep
  <2>6. CountsExact'
    BY <1>1, <2>1, <2>3, <2>4 DEF CountsExact
  <2> QED
    BY <1>1, <1>3, <1>5, <1>7, <2>1, <2>3, <2>5, <2>6 DEF BeforeBody
<1> QED
  BY <1>8, <1>9, <1>10, <1>11 DEF Sub

(* A step of the main thread moves no sub thread.                          *)
LEMMA MainInFirstCall ==
  ASSUME InFirstCall, MainStep
  PROVE  InFirstCall'
<1> USE DEF InFirstCall
<1>1. /\ Main \in Threads /\ run' = run
      /\ \A t \in Subs : t \in Threads /\ pc'[t] = pc[t] /\ stage'[t] = stage[t]
  BY DEF MainStep, MainCall, MainSeeStart, MainResetStart, MainPublishStart,
         MainFinish, MainSeeEnd, MainResetEnd, MainPublishEnd, GoTo, NextStage,
         TypeOK, Threads
<1>2. \A where : Waiting(where)' = Waiting(where)
  BY <1>1 DEF Waiting
<1>3. /\ level \in Nat /\ stage[Main] \in Nat /\ level = Crossed(Main)
      /\ \A t \in Subs : stage[t] \in Nat
  BY <1>1 DEF TypeOK
<1>4. TypeOK'
  BY NextTypeOK DEF Next
<1>5. CASE MainCall
  <2>1. /\ pc[Main] = "outside" /\ pc'[Main] = "start"
        /\ stage'[Main] = stage[Main] + 1
        /\ UNCHANGED <<level, waitStart, waitEnd>>
    BY <1>1, <1>5 DEF MainCall, GoTo, NextStage, TypeOK
  <2> QED
    BY <1>1, <1>2, <1>3, <1>4, <2>1 DEF Crossed, InStep, BeforeBody, CountsExact
<1>6. CASE MainSeeStart
  <2>1. /\ pc[Main] = "start" /\ pc'[Main] = "resetStart"
        /\ waitStart >= Cardinality(Subs)
        /\ UNCHANGED <<stage, level, waitStart, waitEnd>>
    BY <1>1, <1>6 DEF MainSeeStart, GoTo, AllArrived, TypeOK
  <2>2. \A t \in Subs : pc[t] = "start"
    BY <2>1, WaitingCount DEF CountsExact
  <2> QED
    BY <1>1, <1>2, <1>3, <1>4, <2>1, <2>2
       DEF Crossed, InStep, BeforeBody, CountsExact
<1>7. CASE MainResetStart
  <2>1. /\ pc[Main] = "resetStart" /\ pc'[Main] = "publishStart"
        /\ waitStart' = 0 /\ UNCHANGED <<stage, level, waitEnd>>
    BY <1>1, <1>7 DEF MainResetStart, ResetStart, GoTo, TypeOK
  <2> QED
    BY <1>1, <1>2, <1>3, <1>4, <2>1 DEF Crossed, InStep, BeforeBody, CountsExact
<1>8. CASE MainPublishStart
  <2>1. /\ pc[Main] = "publishStart" /\ pc'[Main] = "inside"
        /\ level' = stage[Main] /\ UNCHANGED <<stage, waitStart, waitEnd>>
    BY <1>1, <1>8 DEF MainPublishStart, PublishedLevel, GoTo, TypeOK
  <2>2. level' = level + 1 /\ level' = Crossed(Main)'
    BY <1>3, <2>1 DEF Crossed
  <2>3. \A t \in Subs : InStep(t)'
    BY <1>1, <1>3, <2>1, <2>2 DEF InStep, BeforeBody
  <2>4. Waiting("end") = {}
    BY <2>1 DEF Waiting
  <2>5. CountsExact'
    BY <1>2, <2>1, <2>4, FS_EmptySet DEF CountsExact, BeforeBody
  <2> QED
    BY <1>1, <1>4, <2>1, <2>2, <2>3, <2>5 DEF BeforeBody
<1>9. CASE MainFinish
  <2>1. /\ pc[Main] = "inside" /\ pc'[Main] = "end"
        /\ stage'[Main] = stage[Main] + 1
        /\ UNCHANGED <<level, waitStart, waitEnd>>
    BY <1>1, <1>9 DEF MainFinish, GoTo, NextStage, TypeOK
  <2> QED
    BY <1>1, <1>2, <1>3, <1>4, <2>1 DEF Crossed, InStep, BeforeBody, CountsExact
<1>10. CASE MainSeeEnd
  <2>1. /\ pc[Main] = "end" /\ pc'[Main] = "resetEnd"
        /\ waitEnd >= Cardinality(Subs)
        /\ UNCHANGED <<stage, level, waitStart, waitEnd>>
    BY <1>1, <1>10 DEF MainSeeEnd, GoTo, AllArrived, TypeOK
  <2>2. \A t \in Subs : pc[t] = "end"
    BY <2>1, WaitingCount DEF CountsExact
  <2> QED
    BY <1>1, <1>2, <1>3, <1>4, <2>1, <2>2
       DEF Crossed, InStep, BeforeBody, CountsExact
<1>11. CASE MainResetEnd
  <2>1. /\ pc[Main] = "resetEnd" /\ pc'[Main] = "publishEnd"
        /\ waitEnd' = 0 /\ UNCHANGED <<stage, level, waitStart>>
    BY <1>1, <1>11 DEF MainResetEnd, GoTo, TypeOK
  <2> QED
    BY <1>1, <1>2, <1>3, <1>4, <2>1 DEF Crossed, InStep, BeforeBody, CountsExact
<1>12. CASE MainPublishEnd
  <2>1. /\ pc[Main] = "publishEnd" /\ pc'[Main] = "outside"
        /\ level' = stage[Main] /\ UNCHANGED <<stage, waitStart, waitEnd>>
    BY <1>1, <1>12 DEF MainPublishEnd, PublishedLevel, GoTo, TypeOK
  <2>2. level' = level + 1 /\ level' = Crossed(Main)'
    BY <1>3, <2>1 DEF Crossed
  <2>3. \A t \in Subs : InStep(t)'
    BY <1>1, <1>3, <2>1, <2>2 DEF InStep, BeforeBody
  <2>4. Waiting("start") = {}
    BY <2>1 DEF Waiting
  <2>5. CountsExact'
    BY <1>2, <2>1, <2>4, FS_EmptySet DEF CountsExact, BeforeBody
  <2> QED
    BY <1>1, <1>4, <2>1, <2>2, <2>3, <2>5 DEF BeforeBody
<1> QED
  BY <1>5, <1>6, <1>7, <1>8, <1>9, <1>10, <1>11, <1>12 DEF MainStep

LEMMA InitIndInv == Init => IndInv
BY InitInFirstCall DEF InFirstCall, IndInv, Init

(* The number of sub threads that have arrived.                            *)
LEMMA ArrivedCount ==
  ASSUME NEW n
  PROVE  /\ IsFiniteSet(ArrivedAt(n)) /\ Cardinality(ArrivedAt(n)) \in Nat
         /\ Cardinality(ArrivedAt(n)) >= Cardinality(Subs)
              => \A t \in Subs : stage[t] >= n
<1>1. ArrivedAt(n) \in SUBSET Subs
  BY DEF ArrivedAt
<1>2. /\ IsFiniteSet(ArrivedAt(n))
      /\ Cardinality(ArrivedAt(n)) <= Cardinality(Subs)
      /\ Cardinality(Subs) = Cardinality(ArrivedAt(n)) => Subs = ArrivedAt(n)
  BY <1>1, FS_Subset
<1>3. Cardinality(ArrivedAt(n)) \in Nat /\ Cardinality(Subs) \in Nat
  BY <1>2, FS_CardinalityType
<1>4. Cardinality(ArrivedAt(n)) >= Cardinality(Subs) => Subs = ArrivedAt(n)
  BY <1>2, <1>3
<1> QED
  BY <1>2, <1>3, <1>4 DEF ArrivedAt

LEMMA NobodyArrived ==
  ASSUME NEW n \in Nat, \A t \in Subs : stage[t] \in Nat /\ stage[t] < n
  PROVE  Cardinality(ArrivedAt(n)) = 0
<1>1. ArrivedAt(n) = {}
  BY DEF ArrivedAt
<1> QED
  BY <1>1, FS_EmptySet

(* A sub thread whose stage goes up arrives once.                          *)
LEMMA OneMoreArrived ==
  ASSUME NEW t \in Subs, NEW n \in Nat, \A u \in Subs : stage[u] \in Nat,
         stage'[t] = stage[t] + 1, \A u \in Subs \ {t} : stage'[u] = stage[u]
  PROVE  Cardinality(ArrivedAt(n))' =
           Cardinality(ArrivedAt(n)) + (IF stage[t] + 1 = n THEN 1 ELSE 0)
<1>1. CASE stage[t] + 1 = n
  <2>1. ArrivedAt(n)' = ArrivedAt(n) \cup {t} /\ t \notin ArrivedAt(n)
    BY <1>1 DEF ArrivedAt
  <2> QED
    BY <1>1, <2>1, ArrivedCount, FS_AddElement
<1>2. CASE stage[t] + 1 # n
  <2>1. ArrivedAt(n)' = ArrivedAt(n)
    BY <1>2 DEF ArrivedAt
  <2> QED
    BY <1>2, <2>1, ArrivedCount
<1> QED
  BY <1>1, <1>2

(* A later call begins with both counters at 0, for all threads have       *)
(* finished the one before.                                                *)
LEMMA LaterCallBegins ==
  ASSUME TypeOK, run >= 1, LaterCallsShort, StartThreads,
         run = 1 => InFirstCall, run > 1 => InLaterCall
  PROVE  InLaterCall'
<1>1. /\ run \in Nat /\ Main \in Threads /\ Subs \subseteq Threads
      /\ \A t \in Threads : stage[t] \in Nat /\ pc[t] = "outside"
      /\ \A t \in Threads : stage[t] = 2 * Stages[run]
      /\ run < Runs /\ run' = run + 1 /\ stage' = [t \in Threads |-> 0]
      /\ UNCHANGED <<level, waitStart, waitEnd, pc>>
  BY DEF TypeOK, Threads, StartThreads, Finished
<1>2. run' \in 2 .. Runs /\ Stages[run'] \in Nat
  BY <1>1
<1>3. waitStart = 0 /\ waitEnd = 0
  <2>1. CASE run = 1
    <3>1. InFirstCall
      BY <2>1
    <3>2. waitEnd = 0 /\ waitStart = Cardinality(Waiting("start"))
      BY <1>1, <3>1 DEF InFirstCall, BeforeBody, CountsExact
    <3>3. Waiting("start") = {}
      BY <1>1 DEF Waiting
    <3> QED
      BY <3>2, <3>3, FS_EmptySet
  <2>2. CASE run > 1
    <3>1. InLaterCall
      BY <2>2
    <3>2. StageFits(Main) /\ (stage[Main] = 0 \/ stage[Main] = 2)
      BY <1>1, <3>1 DEF InLaterCall, StageFits
    <3>3. CASE stage[Main] = 2
      BY <1>1, <3>1, <3>3 DEF InLaterCall, StartIsOpen, EndIsOpen
    <3>4. CASE stage[Main] = 0
      <4>1. \A t \in Subs : stage[t] = 0
        BY <1>1, <3>4
      <4>2. Cardinality(ArrivedAt(1)) = 0 /\ Cardinality(ArrivedAt(2)) = 0
        BY <4>1, NobodyArrived
      <4>3. StartIsOpen /\ EndIsOpen
        BY <3>4 DEF StartIsOpen, EndIsOpen
      <4> QED
        BY <3>1, <4>2, <4>3 DEF InLaterCall
    <3> QED
      BY <3>2, <3>3, <3>4
  <2> QED
    BY <1>1, <2>1, <2>2
<1>4. \A n \in {1, 2} : Cardinality(ArrivedAt(n))' = 0
  <2> SUFFICES ASSUME NEW n \in {1, 2} PROVE Cardinality(ArrivedAt(n))' = 0
    OBVIOUS
  <2>1. ArrivedAt(n)' = {}
    BY <1>1 DEF ArrivedAt
  <2> QED
    BY <2>1, FS_EmptySet
<1>5. StartIsOpen' /\ EndIsOpen'
  BY <1>1 DEF StartIsOpen, EndIsOpen
<1>6. ASSUME NEW t \in Threads
      PROVE  StageFits(t)'
  <2>1. pc'[t] = "outside" /\ stage'[t] = 0 /\ 0 <= 2 * Stages[run']
    BY <1>1, <1>2
  <2> QED
    BY <2>1 DEF StageFits
<1>7. stage'[Main] = 0
  BY <1>1
<1> QED
  BY <1>1, <1>2, <1>3, <1>4, <1>5, <1>6, <1>7 DEF InLaterCall

LEMMA SubInLaterCall ==
  ASSUME TypeOK, LaterCallsShort, InLaterCall, NEW t \in Subs, Sub(t)
  PROVE  InLaterCall'
<1> USE DEF InLaterCall
<1>1. /\ t # Main /\ t \in Threads /\ Main \in Threads
      /\ pc'[Main] = pc[Main] /\ stage'[Main] = stage[Main] /\ run' = run
      /\ \A u \in Threads \ {t} : pc'[u] = pc[u] /\ stage'[u] = stage[u]
      /\ \A u \in Threads : stage[u] \in Nat
      /\ waitStart \in Nat /\ waitEnd \in Nat
  BY DEF Sub, SubCall, SubEnter, SubFinish, SubReturn, GoTo, NextStage, TypeOK,
         Threads
<1>2. /\ run \in 1 .. Runs /\ Stages[run] \in Nat /\ Stages[run] <= 1
      /\ 2 * Stages[run] \in Nat /\ 2 * Stages[run] <= 2
  BY DEF LaterCallsShort
<1>3. \A u \in Threads \ {t} : StageFits(u)'
  BY <1>1 DEF StageFits
<1>4. StageFits(t)
  BY <1>1
<1>5. StartIsOpen' = StartIsOpen /\ EndIsOpen' = EndIsOpen
  BY <1>1 DEF StartIsOpen, EndIsOpen
<1>6. CASE SubCall(t)
  <2>1. /\ pc[t] = "outside" /\ pc'[t] = "start" /\ stage'[t] = stage[t] + 1
        /\ waitStart' = waitStart + 1 /\ waitEnd' = waitEnd
        /\ stage[t] < 2 * Stages[run]
    BY <1>1, <1>6 DEF SubCall, HasNextStage, GoTo, NextStage, TypeOK
  <2>2. stage[t] = 0 /\ stage'[t] = 1
    BY <1>2, <1>4, <2>1 DEF StageFits
  <2>3. StageFits(t)'
    BY <1>1, <1>2, <2>1, <2>2 DEF StageFits
  <2>4. /\ Cardinality(ArrivedAt(1))' = Cardinality(ArrivedAt(1)) + 1
        /\ Cardinality(ArrivedAt(2))' = Cardinality(ArrivedAt(2))
    <3>1. \A u \in Subs : stage[u] \in Nat
      BY <1>1 DEF Threads
    <3>2. \A u \in Subs \ {t} : stage'[u] = stage[u]
      BY <1>1 DEF Threads
    <3>3. ASSUME NEW n \in {1, 2}
          PROVE  Cardinality(ArrivedAt(n))' =
                   Cardinality(ArrivedAt(n)) + (IF stage[t] + 1 = n THEN 1 ELSE 0)
      BY <2>1, <3>1, <3>2, OneMoreArrived
    <3>4. \A n \in {1, 2} : Cardinality(ArrivedAt(n)) \in Nat
      BY ArrivedCount
    <3> QED
      BY <2>2, <3>3, <3>4
  <2>5. StartIsOpen /\ stage[Main] # 2
    BY <1>1, <2>2 DEF StartIsOpen, StageFits
  <2> QED
    BY <1>1, <1>3, <1>5, <2>1, <2>2, <2>3, <2>4, <2>5
<1>7. CASE SubFinish(t)
  <2>1. /\ pc[t] = "inside" /\ pc'[t] = "end" /\ stage'[t] = stage[t] + 1
        /\ waitEnd' = waitEnd + 1 /\ waitStart' = waitStart
    BY <1>1, <1>7 DEF SubFinish, GoTo, NextStage, TypeOK
  <2>2. stage[t] = 1 /\ stage'[t] = 2
    BY <1>4, <2>1 DEF StageFits
  <2>3. StageFits(t)'
    BY <1>1, <1>2, <1>4, <2>1, <2>2 DEF StageFits
  <2>4. /\ Cardinality(ArrivedAt(1))' = Cardinality(ArrivedAt(1))
        /\ Cardinality(ArrivedAt(2))' = Cardinality(ArrivedAt(2)) + 1
    <3>1. \A u \in Subs : stage[u] \in Nat
      BY <1>1 DEF Threads
    <3>2. \A u \in Subs \ {t} : stage'[u] = stage[u]
      BY <1>1 DEF Threads
    <3>3. ASSUME NEW n \in {1, 2}
          PROVE  Cardinality(ArrivedAt(n))' =
                   Cardinality(ArrivedAt(n)) + (IF stage[t] + 1 = n THEN 1 ELSE 0)
      BY <2>1, <3>1, <3>2, OneMoreArrived
    <3>4. \A n \in {1, 2} : Cardinality(ArrivedAt(n)) \in Nat
      BY ArrivedCount
    <3> QED
      BY <2>2, <3>3, <3>4
  <2>5. EndIsOpen /\ (stage[Main] # 2 \/ pc[Main] = "end")
    BY <1>1, <1>2, <2>2 DEF EndIsOpen, StageFits
  <2>6. \A u \in Threads : StageFits(u)'
    BY <1>3, <2>3
  <2>7. waitStart' = (IF StartIsOpen THEN Cardinality(ArrivedAt(1)) ELSE 0)'
    BY <1>5, <2>1, <2>4
  <2>8. waitEnd' = (IF EndIsOpen THEN Cardinality(ArrivedAt(2)) ELSE 0)'
    BY <1>5, <2>1, <2>4, <2>5
  <2>9. stage'[Main] >= 1 /\ pc'[Main] # "start" => \A u \in Subs : stage'[u] >= 1
    BY <1>1, <2>2 DEF Threads
  <2> QED
    BY <1>1, <2>5, <2>6, <2>7, <2>8, <2>9
<1>8. CASE SubEnter(t) \/ SubReturn(t)
  <2>1. /\ \/ pc[t] = "start" /\ pc'[t] = "inside"
           \/ pc[t] = "end" /\ pc'[t] = "outside"
        /\ stage' = stage /\ waitStart' = waitStart /\ waitEnd' = waitEnd
    BY <1>1, <1>8 DEF SubEnter, SubReturn, GoTo, TypeOK
  <2>2. StageFits(t)'
    BY <1>1, <1>4, <2>1 DEF StageFits
  <2>3. \A n \in {1, 2} : ArrivedAt(n)' = ArrivedAt(n)
    BY <2>1 DEF ArrivedAt
  <2> QED
    BY <1>1, <1>3, <1>5, <2>1, <2>2, <2>3
<1> QED
  BY <1>6, <1>7, <1>8 DEF Sub

LEMMA MainInLaterCall ==
  ASSUME TypeOK, LaterCallsShort, InLaterCall, MainStep
  PROVE  InLaterCall'
<1> USE DEF InLaterCall
<1>1. /\ Main \in Threads /\ Main \notin Subs /\ run' = run
      /\ \A u \in Subs : u \in Threads /\ pc'[u] = pc[u] /\ stage'[u] = stage[u]
      /\ \A u \in Threads : stage[u] \in Nat
      /\ waitStart \in Nat /\ waitEnd \in Nat
  BY DEF MainStep, MainCall, MainSeeStart, MainResetStart, MainPublishStart,
         MainFinish, MainSeeEnd, MainResetEnd, MainPublishEnd, GoTo, NextStage,
         TypeOK, Threads
<1>2. /\ run \in 1 .. Runs /\ Stages[run] \in Nat /\ Stages[run] <= 1
      /\ 2 * Stages[run] \in Nat /\ 2 * Stages[run] <= 2
  BY DEF LaterCallsShort
<1>3. \A u \in Subs : StageFits(u)'
  BY <1>1 DEF StageFits
<1>4. \A n \in {1, 2} : ArrivedAt(n)' = ArrivedAt(n)
  BY <1>1 DEF ArrivedAt
<1>5. StageFits(Main) /\ Threads = Subs \cup {Main}
  BY <1>1 DEF Threads
<1>6. CASE MainCall
  <2>1. /\ pc[Main] = "outside" /\ pc'[Main] = "start"
        /\ stage'[Main] = stage[Main] + 1 /\ stage[Main] < 2 * Stages[run]
        /\ UNCHANGED <<waitStart, waitEnd>>
    BY <1>1, <1>6 DEF MainCall, HasNextStage, GoTo, NextStage, TypeOK
  <2>2. stage[Main] = 0 /\ stage'[Main] = 1
    BY <1>2, <1>5, <2>1 DEF StageFits
  <2>3. StageFits(Main)'
    BY <1>1, <1>2, <2>1, <2>2 DEF StageFits
  <2> QED
    BY <1>1, <1>3, <1>4, <1>5, <2>1, <2>2, <2>3 DEF StartIsOpen, EndIsOpen
<1>7. CASE MainSeeStart
  <2>1. /\ pc[Main] = "start" /\ pc'[Main] = "resetStart"
        /\ waitStart >= Cardinality(Subs)
        /\ UNCHANGED <<stage, waitStart, waitEnd>>
    BY <1>1, <1>7 DEF MainSeeStart, AllArrived, GoTo, TypeOK
  <2>2. stage[Main] = 1 /\ StageFits(Main)'
    BY <1>1, <1>5, <2>1 DEF StageFits
  <2>3. \A u \in Subs : stage[u] >= 1
    BY <2>1, ArrivedCount DEF StartIsOpen
  <2> QED
    BY <1>1, <1>3, <1>4, <1>5, <2>1, <2>2, <2>3 DEF StartIsOpen, EndIsOpen
<1>8. CASE MainResetStart
  <2>1. /\ pc[Main] = "resetStart" /\ pc'[Main] = "publishStart"
        /\ waitStart' = 0 /\ UNCHANGED <<stage, waitEnd>>
    BY <1>1, <1>8 DEF MainResetStart, ResetStart, GoTo, TypeOK
  <2>2. stage[Main] = 1 /\ StageFits(Main)'
    BY <1>1, <1>5, <2>1 DEF StageFits
  <2> QED
    BY <1>1, <1>3, <1>4, <1>5, <2>1, <2>2 DEF StartIsOpen, EndIsOpen
<1>9. CASE MainPublishStart
  <2>1. /\ pc[Main] = "publishStart" /\ pc'[Main] = "inside"
        /\ UNCHANGED <<stage, waitStart, waitEnd>>
    BY <1>1, <1>9 DEF MainPublishStart, GoTo, TypeOK
  <2>2. stage[Main] = 1 /\ StageFits(Main)'
    BY <1>1, <1>5, <2>1 DEF StageFits
  <2> QED
    BY <1>1, <1>3, <1>4, <1>5, <2>1, <2>2 DEF StartIsOpen, EndIsOpen
<1>10. CASE MainFinish
  <2>1. /\ pc[Main] = "inside" /\ pc'[Main] = "end"
        /\ stage'[Main] = stage[Main] + 1
        /\ UNCHANGED <<waitStart, waitEnd>>
    BY <1>1, <1>10 DEF MainFinish, GoTo, NextStage, TypeOK
  <2>2. stage[Main] = 1 /\ stage'[Main] = 2
    BY <1>5, <2>1 DEF StageFits
  <2>3. StageFits(Main)'
    BY <1>1, <1>2, <1>5, <2>1, <2>2 DEF StageFits
  <2> QED
    BY <1>1, <1>3, <1>4, <1>5, <2>1, <2>2, <2>3 DEF StartIsOpen, EndIsOpen
<1>11. CASE MainSeeEnd
  <2>1. /\ pc[Main] = "end" /\ pc'[Main] = "resetEnd"
        /\ waitEnd >= Cardinality(Subs)
        /\ UNCHANGED <<stage, waitStart, waitEnd>>
    BY <1>1, <1>11 DEF MainSeeEnd, AllArrived, GoTo, TypeOK
  <2>2. stage[Main] = 2 /\ StageFits(Main)'
    BY <1>1, <1>5, <2>1 DEF StageFits
  <2>3. \A u \in Subs : stage[u] >= 2
    BY <2>1, ArrivedCount DEF EndIsOpen
  <2>4. \A u \in Subs : stage[u] = 2
    BY <1>1, <1>2, <2>3 DEF StageFits
  <2> QED
    BY <1>1, <1>3, <1>4, <1>5, <2>1, <2>2, <2>4 DEF StartIsOpen, EndIsOpen
<1>12. CASE MainResetEnd
  <2>1. /\ pc[Main] = "resetEnd" /\ pc'[Main] = "publishEnd"
        /\ waitEnd' = 0 /\ UNCHANGED <<stage, waitStart>>
    BY <1>1, <1>12 DEF MainResetEnd, GoTo, TypeOK
  <2>2. stage[Main] = 2 /\ StageFits(Main)'
    BY <1>1, <1>5, <2>1 DEF StageFits
  <2> QED
    BY <1>1, <1>3, <1>4, <1>5, <2>1, <2>2 DEF StartIsOpen, EndIsOpen
<1>13. CASE MainPublishEnd
  <2>1. /\ pc[Main] = "publishEnd" /\ pc'[Main] = "outside"
        /\ UNCHANGED <<stage, waitStart, waitEnd>>
    BY <1>1, <1>13 DEF MainPublishEnd, GoTo, TypeOK
  <2>2. stage[Main] = 2 /\ StageFits(Main)'
    BY <1>1, <1>5, <2>1 DEF StageFits
  <2> QED
    BY <1>1, <1>3, <1>4, <1>5, <2>1, <2>2 DEF StartIsOpen, EndIsOpen
<1> QED
  BY <1>6, <1>7, <1>8, <1>9, <1>10, <1>11, <1>12, <1>13 DEF MainStep

(* The calls after the first one never become the first one again.         *)
LEMMA NextRun ==
  ASSUME run \in Nat, run >= 1, [Next]_vars
  PROVE  run' = run \/ (run' = run + 1 /\ StartThreads)
BY DEF Next, Sub, SubCall, SubEnter, SubFinish, SubReturn, MainStep, MainCall,
   MainSeeStart, MainResetStart, MainPublishStart, MainFinish, MainSeeEnd,
   MainResetEnd, MainPublishEnd, StartThreads, Terminated, vars

LEMMA NextIndInv == IndInv /\ [Next]_vars => IndInv'
<1> SUFFICES ASSUME IndInv, [Next]_vars PROVE IndInv'
  OBVIOUS
<1>1. TypeOK /\ TypeOK'
  BY NextTypeOK DEF IndInv
<1>2. run \in Nat /\ run >= 1
  BY DEF IndInv, TypeOK
<1>3. run' >= 1
  BY <1>2, NextRun
<1>4. ASSUME run' = 1
      PROVE  InFirstCall'
  <2>1. run = 1 /\ ~StartThreads
    BY <1>2, <1>4, NextRun DEF StartThreads
  <2>2. InFirstCall
    BY <2>1 DEF IndInv
  <2>3. CASE \E t \in Subs : Sub(t)
    BY <2>2, <2>3, SubInFirstCall
  <2>4. CASE MainStep
    BY <2>2, <2>4, MainInFirstCall
  <2>5. CASE UNCHANGED vars
    BY <2>2, <2>5 DEF vars, InFirstCall, TypeOK, Crossed, InStep, CountsExact,
       Waiting
  <2> QED
    BY <2>1, <2>3, <2>4, <2>5 DEF Next, Terminated
<1>5. ASSUME run' > 1, LaterCallsShort
      PROVE  InLaterCall'
  <2>1. CASE StartThreads
    BY <1>1, <1>2, <1>5, <2>1, LaterCallBegins DEF IndInv
  <2>2. CASE ~StartThreads
    <3>1. run' = run
      BY <1>2, <2>2, NextRun
    <3>2. InLaterCall
      BY <1>5, <3>1 DEF IndInv
    <3>3. CASE \E t \in Subs : Sub(t)
      BY <1>1, <1>5, <3>2, <3>3, SubInLaterCall
    <3>4. CASE MainStep
      BY <1>1, <1>5, <3>2, <3>4, MainInLaterCall
    <3>5. CASE UNCHANGED vars
      BY <3>2, <3>5 DEF vars, InLaterCall, StageFits, ArrivedAt, StartIsOpen,
         EndIsOpen
    <3> QED
      BY <2>2, <3>3, <3>4, <3>5 DEF Next, Terminated
  <2> QED
    BY <2>1, <2>2
<1> QED
  BY <1>1, <1>3, <1>4, <1>5 DEF IndInv

(* The types, in every call of start_threads, and what makes a barrier of  *)
(* the stages of the first one.                                            *)
THEOREM InductiveInvariant == Spec => []IndInv
<1>1. IndInv /\ [Next]_vars => IndInv'
  BY NextIndInv
<1> QED
  BY InitIndInv, <1>1, PTL DEF Spec

LEMMA FirstCallLockstep == InFirstCall => Lockstep
<1> SUFFICES ASSUME InFirstCall, NEW t \in Threads, NEW u \in Threads
             PROVE  Crossed(t) <= stage[u]
  BY DEF Lockstep
<1>1. /\ level \in Nat /\ stage[t] \in Nat /\ stage[u] \in Nat
      /\ stage[Main] \in Nat /\ level = Crossed(Main)
  BY DEF InFirstCall, TypeOK, Threads
<1>2. Crossed(t) <= level
  <2>1. CASE t = Main
    BY <1>1, <2>1
  <2>2. CASE t \in Subs
    BY <1>1, <2>2 DEF InFirstCall, InStep, Crossed
  <2> QED
    BY <2>1, <2>2 DEF Threads
<1>3. level <= stage[u]
  <2>1. CASE u = Main
    BY <1>1, <2>1 DEF Crossed
  <2>2. CASE u \in Subs
    BY <1>1, <2>2 DEF InFirstCall, InStep
  <2> QED
    BY <2>1, <2>2 DEF Threads
<1>4. Crossed(t) \in Int
  BY <1>1 DEF Crossed
<1> QED
  BY <1>1, <1>2, <1>3, <1>4

LEMMA FirstCallLockstepNext == InFirstCall' => Lockstep'
BY FirstCallLockstep, PTL

(* In the first call, synchronized and synchronize are barriers for all    *)
(* threads, whatever their number: nobody gets ahead of anybody by more    *)
(* than one of them.                                                       *)
THEOREM StagesAreBarriers == Spec => []FirstCallInLockstep
<1>1. IndInv => FirstCallInLockstep
  BY FirstCallLockstep DEF IndInv, FirstCallInLockstep
<1> QED
  BY InductiveInvariant, <1>1, PTL

(* In the first call no arrival is lost between the main thread's last     *)
(* look at a counter and its reset, and none is counted twice.             *)
THEOREM ArrivalsCount == Spec => []NoArrivalLost
<1>1. IndInv => NoArrivalLost
  BY DEF IndInv, InFirstCall, NoArrivalLost
<1> QED
  BY InductiveInvariant, <1>1, PTL

(* A thread that counts in arrives, one that leaves a spin loop crosses.   *)
Arriving(t, there) ==
  /\ pc[t] \in {"outside", "inside"} /\ there \in {"start", "end"}
  /\ NextStage(t)
Crossing(t, there) ==
  /\ pc[t] \notin {"outside", "inside"} /\ there \in {"outside", "inside"}
  /\ UNCHANGED stage
Waits(t, there) ==
  /\ pc[t] \notin {"outside", "inside"} /\ there \notin {"outside", "inside"}
  /\ UNCHANGED stage

LEMMA ThreadStepIsBarrierStep ==
  ASSUME TypeOK, Lockstep', NEW t \in Threads, NEW there,
         pc' = [pc EXCEPT ![t] = there],
         Arriving(t, there) \/ Crossing(t, there) \/ Waits(t, there)
  PROVE  [Reused!Next]_(Reused!vars)
<1> DEFINE crossed == [u \in Threads |-> Crossed(u)]
<1>1. \A u \in Threads : stage[u] \in Nat
  BY DEF TypeOK
<1>2. \A u \in Threads \ {t} :
        pc'[u] = pc[u] /\ stage'[u] = stage[u] /\ Crossed(u)' = Crossed(u)
  BY DEF TypeOK, Arriving, Crossing, Waits, NextStage, Crossed
<1>3. pc'[t] = there
  BY DEF TypeOK
<1>4. CASE Arriving(t, there)
  <2>1. stage'[t] = stage[t] + 1 /\ Crossed(t) = stage[t]
    BY <1>4 DEF Arriving, NextStage, TypeOK, Crossed
  <2>2. Crossed(t)' = Crossed(t)
    BY <1>1, <1>3, <1>4, <2>1 DEF Arriving, Crossed
  <2>3. crossed' = crossed
    BY <1>2, <2>2
  <2>4. Reused!Arrive(t)
    BY <1>4, <2>1, <2>3 DEF Reused!Arrive, Arriving, NextStage
  <2> QED
    BY <2>4 DEF Reused!Next
<1>5. CASE Crossing(t, there)
  <2>1. Crossed(t) = stage[t] - 1 /\ Crossed(t)' = stage[t] /\ stage' = stage
    BY <1>3, <1>5 DEF Crossing, Crossed
  <2>2. Crossed(t)' = Crossed(t) + 1 /\ Crossed(t) < stage[t]
    BY <1>1, <2>1, SMTT(40)
  <2>3. crossed' = [crossed EXCEPT ![t] = @ + 1]
    BY <1>2, <2>2
  <2>4. \A u \in Threads : stage[t] <= stage[u]
    BY <2>1 DEF Lockstep
  <2>5. Reused!Cross(t)
    BY <2>1, <2>2, <2>3, <2>4 DEF Reused!Cross
  <2> QED
    BY <2>5 DEF Reused!Next
<1>6. CASE Waits(t, there)
  <2>1. Crossed(t)' = Crossed(t) /\ stage' = stage
    BY <1>3, <1>6 DEF Waits, Crossed
  <2>2. crossed' = crossed
    BY <1>2, <2>1
  <2> QED
    BY <2>1, <2>2 DEF Reused!vars
<1> QED
  BY <1>4, <1>5, <1>6

(* The stages of the first call implement one barrier that is used again   *)
(* and again.                                                              *)
THEOREM ImplementsReusableBarrier == Spec => ImplementsBarrier
<1>1. Init => Reused!Init
  BY DEF Init, Reused!Init, Crossed
<1>2. ASSUME IndInv, IndInv', [Next]_vars
      PROVE  [run' = 1 => Reused!Next]_(Reused!vars)
  <2> SUFFICES ASSUME run' = 1
               PROVE  [Reused!Next]_(Reused!vars)
    OBVIOUS
  <2> USE <1>2
  <2>1. TypeOK /\ Lockstep'
    BY FirstCallLockstepNext DEF IndInv
  <2>2. Main \in Threads /\ Subs \subseteq Threads
    BY DEF Threads
  <2>3. CASE \E t \in Subs : Sub(t)
    <3> PICK t \in Subs : Sub(t)
      BY <2>3
    <3>1. CASE SubCall(t)
      BY <2>1, <2>2, <3>1, ThreadStepIsBarrierStep DEF SubCall, GoTo, Arriving
    <3>2. CASE SubEnter(t)
      BY <2>1, <2>2, <3>2, ThreadStepIsBarrierStep DEF SubEnter, GoTo, Crossing
    <3>3. CASE SubFinish(t)
      BY <2>1, <2>2, <3>3, ThreadStepIsBarrierStep DEF SubFinish, GoTo, Arriving
    <3>4. CASE SubReturn(t)
      BY <2>1, <2>2, <3>4, ThreadStepIsBarrierStep DEF SubReturn, GoTo, Crossing
    <3> QED
      BY <3>1, <3>2, <3>3, <3>4 DEF Sub
  <2>4. CASE MainStep
    <3>1. CASE MainCall
      BY <2>1, <2>2, <3>1, ThreadStepIsBarrierStep DEF MainCall, GoTo, Arriving
    <3>2. CASE MainSeeStart
      BY <2>1, <2>2, <3>2, ThreadStepIsBarrierStep DEF MainSeeStart, GoTo, Waits
    <3>3. CASE MainResetStart
      BY <2>1, <2>2, <3>3, ThreadStepIsBarrierStep
         DEF MainResetStart, GoTo, Waits
    <3>4. CASE MainPublishStart
      BY <2>1, <2>2, <3>4, ThreadStepIsBarrierStep
         DEF MainPublishStart, GoTo, Crossing
    <3>5. CASE MainFinish
      BY <2>1, <2>2, <3>5, ThreadStepIsBarrierStep DEF MainFinish, GoTo, Arriving
    <3>6. CASE MainSeeEnd
      BY <2>1, <2>2, <3>6, ThreadStepIsBarrierStep DEF MainSeeEnd, GoTo, Waits
    <3>7. CASE MainResetEnd
      BY <2>1, <2>2, <3>7, ThreadStepIsBarrierStep DEF MainResetEnd, GoTo, Waits
    <3>8. CASE MainPublishEnd
      BY <2>1, <2>2, <3>8, ThreadStepIsBarrierStep
         DEF MainPublishEnd, GoTo, Crossing
    <3> QED
      BY <2>4, <3>1, <3>2, <3>3, <3>4, <3>5, <3>6, <3>7, <3>8 DEF MainStep
  <2>5. CASE StartThreads
    BY <2>5 DEF StartThreads, IndInv, TypeOK
  <2>6. CASE UNCHANGED vars
    BY <2>6 DEF vars, Reused!vars, Crossed
  <2> QED
    BY <1>2, <2>3, <2>4, <2>5, <2>6 DEF Next, Terminated
<1> QED
  BY <1>1, <1>2, InductiveInvariant, PTL DEF Spec, ImplementsBarrier

------------------------------------------------------------------------------
USE LoopAssumption, SubsAssumption

------------------------------------------------------------------------------
(* The parallel loop.                                                      *)

(* The loop lives inside the stages: its steps are steps of the threads in *)
(* synchronized, or leave these where they are.                            *)
LEMMA LoopKeepsStages == [LoopNext]_loopAllVars => [Next]_vars
<1> SUFFICES ASSUME LoopNext PROVE [Next]_vars
  BY DEF loopAllVars
<1>1. ASSUME NEW t \in Subs, SubInLoop(t)
      PROVE  [Next]_vars
  BY <1>1 DEF SubInLoop, InLoop, BeginLoop, ExecuteBlock, SubLeaveLoop,
     SubBarrier, Next, Sub
<1>2. ASSUME MainInLoop
      PROVE  [Next]_vars
  BY <1>2 DEF MainInLoop, InLoop, BeginLoop, ExecuteBlock, MainLeaveLoop,
     ResetCounter, MainBarrier, Next, MainStep
<1>3. ASSUME NextCall
      PROVE  [Next]_vars
  BY <1>3 DEF NextCall, Next
<1> QED
  BY <1>1, <1>2, <1>3 DEF LoopNext

LEMMA LoopKeepsBarrier == LoopSpec => []IndInv
<1>1. LoopInit => IndInv
  BY InitIndInv DEF LoopInit
<1>2. IndInv /\ [LoopNext]_loopAllVars => IndInv'
  BY LoopKeepsStages, NextIndInv
<1> QED
  BY <1>1, <1>2, PTL DEF LoopSpec

LEMMA BlockIs ==
  ASSUME NEW t \in Threads, claim[t] \in Nat, NEW i \in Indices
  PROVE  i \in Block(t) <=> claim[t] <= i /\ i < claim[t] + BlockSize
BY DEF Block, MinOf, Indices

(* A claim of a thread takes the next block of indices; the one it had     *)
(* before, if any, has been executed or is empty.                          *)
LEMMA FetchAddKeeps ==
  ASSUME LoopInv, NEW t \in Threads, FetchAdd(t),
         \A i \in Indices : executed'[i] =
           executed[i] + IF claim[t] # NoClaim /\ i \in Block(t) THEN 1 ELSE 0
  PROVE  BlocksApart' /\ ExecutedBelow'
<1>1. /\ counter \in Nat /\ counter' = counter + BlockSize /\ BlockSize \in Nat \ {0}
      /\ claim'[t] = counter /\ claim'[t] # NoClaim
      /\ \A u \in Threads \ {t} : claim'[u] = claim[u]
      /\ \A u \in Threads : claim[u] # NoClaim => claim[u] \in Nat
  BY DEF LoopInv, LoopTypeOK, FetchAdd
<1>2. /\ \A u \in Threads : claim[u] # NoClaim => claim[u] + BlockSize <= counter
      /\ \A u, v \in Threads :
           u # v /\ claim[u] # NoClaim /\ claim[v] # NoClaim =>
             claim[u] + BlockSize <= claim[v] \/ claim[v] + BlockSize <= claim[u]
  BY DEF LoopInv, BlocksApart
<1>3. ASSUME NEW u \in Threads, claim'[u] # NoClaim
      PROVE  claim'[u] + BlockSize <= counter'
  <2>1. CASE u = t
    BY <1>1, <2>1
  <2>2. CASE u # t
    BY <1>1, <1>2, <1>3, <2>2
  <2> QED
    BY <2>1, <2>2
<1>4. ASSUME NEW u \in Threads, NEW v \in Threads,
             u # v, claim'[u] # NoClaim, claim'[v] # NoClaim
      PROVE  claim'[u] + BlockSize <= claim'[v] \/ claim'[v] + BlockSize <= claim'[u]
  <2>1. CASE u = t
    BY <1>1, <1>2, <1>4, <2>1
  <2>2. CASE v = t
    BY <1>1, <1>2, <1>4, <2>2
  <2>3. CASE u # t /\ v # t
    BY <1>1, <1>2, <1>4, <2>3
  <2> QED
    BY <2>1, <2>2, <2>3
<1>5. BlocksApart'
  BY <1>3, <1>4 DEF BlocksApart
<1>6. ASSUME NEW i \in Indices
      PROVE  executed'[i] = IF i < counter' /\ ~Claimed(i)' THEN 1 ELSE 0
  <2> DEFINE Has(u) == claim[u] <= i /\ i < claim[u] + BlockSize
  <2>0. i \in Nat /\ i \in Indices'
    BY DEF Indices
  <2>1. Claimed(i) <=> \E u \in Threads : claim[u] # NoClaim /\ Has(u)
    BY <1>1, BlockIs DEF Claimed
  <2>2. \A u \in Threads : (claim[u] # NoClaim /\ i \in Block(u))' <=>
                           claim'[u] # NoClaim /\ Has(u)'
    <3> TAKE u \in Threads
    <3>1. CASE claim'[u] # NoClaim
      <4>1. claim'[u] \in Nat
        BY <1>1, <3>1
      <4> QED
        BY <2>0, <3>1, <4>1 DEF Block, MinOf, Indices
    <3> QED
      BY <3>1
  <2>3. Claimed(i)' <=> \E u \in Threads : claim'[u] # NoClaim /\ Has(u)'
    BY <2>2 DEF Claimed, Threads
  <2>4. executed[i] = IF i < counter /\ ~Claimed(i) THEN 1 ELSE 0
    BY DEF LoopInv, ExecutedBelow
  <2>5. (claim[t] # NoClaim /\ i \in Block(t)) <=> (claim[t] # NoClaim /\ Has(t))
    BY <1>1, BlockIs
  <2>6. executed'[i] = executed[i] + IF claim[t] # NoClaim /\ Has(t) THEN 1 ELSE 0
    BY <2>5
  <2>7. CASE i >= counter
    <3>1. ~Claimed(i) /\ ~(claim[t] # NoClaim /\ Has(t)) /\ executed[i] = 0
      BY <1>1, <1>2, <2>0, <2>1, <2>4, <2>7
    <3>2. i < counter' => Claimed(i)'
      BY <1>1, <2>0, <2>3, <2>7
    <3> QED
      BY <2>6, <3>1, <3>2
  <2>8. CASE i < counter /\ claim[t] # NoClaim /\ Has(t)
    <3>1. ~Claimed(i)'
      <4> SUFFICES ASSUME NEW u \in Threads, claim'[u] # NoClaim, Has(u)'
                   PROVE  FALSE
        BY <2>3
      <4>1. u # t
        BY <1>1, <2>0, <2>8
      <4> QED
        BY <1>1, <1>2, <2>0, <2>8, <4>1, SMTT(40)
    <3>2. executed[i] = 0
      BY <2>1, <2>4, <2>8
    <3> QED
      BY <1>1, <2>0, <2>6, <2>8, <3>1, <3>2
  <2>9. CASE i < counter /\ ~(claim[t] # NoClaim /\ Has(t))
    <3>1. ~Has(t)'
      BY <1>1, <2>0, <2>9
    <3>2. Claimed(i)' <=> Claimed(i)
      BY <1>1, <2>1, <2>3, <2>9, <3>1
    <3> QED
      BY <1>1, <2>0, <2>4, <2>6, <2>9, <3>2
  <2> QED
    BY <1>1, <2>0, <2>7, <2>8, <2>9
<1> QED
  BY <1>5, <1>6 DEF ExecutedBelow, Indices

(* Who gives up a claim beyond the end gives up nothing.                   *)
LEMMA LeavingKeeps ==
  ASSUME LoopInv, NEW t \in Threads, LoopDone(t),
         claim' = [claim EXCEPT ![t] = NoClaim], UNCHANGED <<counter, executed>>
  PROVE  BlocksApart' /\ ExecutedBelow'
<1>1. /\ claim'[t] = NoClaim /\ claim[t] \in Nat /\ claim[t] >= Items
      /\ \A u \in Threads \ {t} : claim'[u] = claim[u]
      /\ \A u \in Threads : claim[u] # NoClaim => claim[u] \in Nat
  BY DEF LoopInv, LoopTypeOK, LoopDone
<1>2. BlocksApart'
  BY <1>1 DEF LoopInv, BlocksApart, Threads
<1>3. \A i \in Indices : i \notin Block(t)
  BY <1>1, BlockIs DEF Indices
<1>4. \A i \in Indices : Claimed(i)' <=> Claimed(i)
  <2> TAKE i \in Indices
  <2>1. \A u \in Threads \ {t} : Block(u)' = Block(u)
    BY <1>1 DEF Block
  <2> QED
    BY <1>1, <1>3, <2>1 DEF Claimed, Threads
<1> QED
  BY <1>2, <1>4 DEF LoopInv, ExecutedBelow, Indices

(* A step that leaves the loop alone.                                      *)
LEMMA StagesKeepLoop ==
  ASSUME LoopInv, UNCHANGED loopVars
  PROVE  LoopTypeOK' /\ BlocksApart' /\ ExecutedBelow'
BY DEF LoopInv, LoopTypeOK, loopVars, BlocksApart, ExecutedBelow, Claimed, Block,
   Indices, Threads

(* The barrier at the end of a stage: when the main thread has seen all    *)
(* sub threads arrive, and until it goes on to its next stage or call, no  *)
(* sub thread is inside.                                                   *)
LEMMA NobodyInside ==
  ASSUME IndInv, LoopInv, LaterCallsShort, MayReset, NEW t \in Subs
  PROVE  pc[t] # "inside"
<1>1. run \in Nat /\ run >= 1 /\ Main \in Threads /\ t \in Threads
  BY DEF IndInv, TypeOK, Threads
<1>2. CASE run = 1
  BY <1>2 DEF IndInv, InFirstCall, InStep, MayReset, BeforeBody
<1>3. CASE run > 1
  <2>1. InLaterCall
    BY <1>3 DEF IndInv
  <2>2. stage[Main] = 2
    BY <1>1, <1>3, <2>1 DEF InLaterCall, StageFits, LoopInv, LoopsInStages, MayReset,
       IndInv, TypeOK
  <2> QED
    BY <1>1, <2>1, <2>2 DEF InLaterCall, StageFits, MayReset
<1> QED
  BY <1>1, <1>2, <1>3

LEMMA InitLoopInv == LoopInit => LoopInv
BY DEF LoopInit, Init, LoopInv, LoopTypeOK, BlocksApart, ExecutedBelow, Claimed,
   LoopsInStages, Indices, Threads

LEMMA InLoopKeeps ==
  ASSUME IndInv, LoopInv, LaterCallsShort, NEW t \in Threads, InLoop(t)
  PROVE  LoopInv'
<1>1. /\ pc[t] = "inside" /\ FetchAdd(t) /\ UNCHANGED vars
      /\ counter \in Nat /\ BlockSize \in Nat \ {0} /\ Main \in Threads
      /\ run \in Nat /\ run >= 1
  BY DEF InLoop, BeginLoop, ExecuteBlock, LoopInv, LoopTypeOK, Threads, IndInv,
     TypeOK
<1>2. \A i \in Indices : executed'[i] =
        executed[i] + IF claim[t] # NoClaim /\ i \in Block(t) THEN 1 ELSE 0
  BY DEF InLoop, BeginLoop, ExecuteBlock, LoopInv, LoopTypeOK
<1>3. BlocksApart' /\ ExecutedBelow'
  BY <1>2, <1>1, FetchAddKeeps
<1>4. LoopTypeOK'
  <2>1. executed' \in [Indices -> Nat]
    BY DEF InLoop, BeginLoop, ExecuteBlock, LoopInv, LoopTypeOK
  <2> QED
    BY <1>1, <2>1 DEF LoopInv, LoopTypeOK, FetchAdd, Indices, Threads
<1>5. LoopsInStages'
  <2>1. \A u \in Threads \ {t} : claim'[u] = claim[u]
    BY <1>1 DEF FetchAdd, LoopInv, LoopTypeOK
  <2>2. t = Main /\ run > 1 => stage[Main] > 0
    BY <1>1 DEF IndInv, InLaterCall, StageFits
  <2> QED
    BY <1>1, <2>1, <2>2 DEF LoopInv, LoopsInStages, vars, Threads
<1> QED
  BY <1>3, <1>4, <1>5 DEF LoopInv

LEMMA SubLeaveLoopKeeps ==
  ASSUME IndInv, LoopInv, NEW t \in Subs, SubLeaveLoop(t)
  PROVE  LoopInv'
<1>1. /\ t \in Threads /\ t # Main /\ Main \in Threads
      /\ pc'[Main] = pc[Main] /\ stage'[Main] = stage[Main] /\ run' = run
      /\ \A u \in Threads \ {t} : pc'[u] = pc[u] /\ claim'[u] = claim[u]
      /\ claim'[t] = NoClaim
  BY DEF SubLeaveLoop, SubFinish, GoTo, NextStage, LoopInv, LoopTypeOK, IndInv,
     TypeOK, Threads
<1>2. BlocksApart' /\ ExecutedBelow'
  BY <1>1, LeavingKeeps DEF SubLeaveLoop
<1>3. LoopTypeOK'
  BY DEF LoopInv, LoopTypeOK, SubLeaveLoop, Indices, Threads
<1>4. LoopsInStages'
  BY <1>1 DEF LoopInv, LoopsInStages, Threads
<1> QED
  BY <1>2, <1>3, <1>4 DEF LoopInv

LEMMA MainLeaveLoopKeeps ==
  ASSUME IndInv, LoopInv, MainLeaveLoop
  PROVE  LoopInv'
<1>1. /\ Main \in Threads /\ pc[Main] = "inside" /\ pc'[Main] = "end" /\ run' = run
      /\ stage'[Main] = stage[Main] + 1 /\ stage[Main] \in Nat
      /\ \A u \in Subs : pc'[u] = pc[u]
      /\ claim[Main] # NoClaim /\ claim[Main] >= Items /\ UNCHANGED loopVars
  BY DEF MainLeaveLoop, LoopDone, MainFinish, GoTo, NextStage, IndInv, TypeOK,
     Threads
<1>2. LoopTypeOK' /\ BlocksApart' /\ ExecutedBelow'
  BY <1>1, StagesKeepLoop
<1>3. LoopsInStages'
  BY <1>1 DEF LoopInv, LoopsInStages, loopVars
<1> QED
  BY <1>2, <1>3 DEF LoopInv

LEMMA ResetCounterKeeps ==
  ASSUME IndInv, LoopInv, LaterCallsShort, ResetCounter
  PROVE  LoopInv'
<1>1. \A t \in Subs : claim[t] = NoClaim
  BY NobodyInside DEF ResetCounter, LoopInv, LoopsInStages
<1>2. claim' = [t \in Threads |-> NoClaim]
  BY <1>1 DEF ResetCounter, LoopInv, LoopTypeOK, Threads
<1>3. /\ counter' = 0 /\ executed' = [i \in Indices |-> 0] /\ UNCHANGED vars
      /\ pc[Main] = "outside" /\ Main \in Threads
  BY DEF ResetCounter, MayReset, Threads
<1>4. LoopTypeOK' /\ BlocksApart' /\ ExecutedBelow'
  BY <1>2, <1>3 DEF LoopTypeOK, BlocksApart, ExecutedBelow, Claimed, Indices,
     Threads
<1>5. LoopsInStages'
  BY <1>2, <1>3 DEF LoopsInStages, vars, Threads
<1> QED
  BY <1>4, <1>5 DEF LoopInv

(* The barriers around the loop: who is at one has no claim, except for    *)
(* the main thread at the end.                                             *)
LEMMA BarriersKeepLoop ==
  ASSUME IndInv, LoopInv, UNCHANGED loopVars,
         \/ \E t \in Subs : SubBarrier(t)
         \/ MainBarrier
         \/ NextCall
         \/ UNCHANGED vars
  PROVE  LoopInv'
<1> USE DEF LoopInv, LoopsInStages, loopVars
<1>1. Main \in Threads /\ Main \notin Subs /\ Subs \subseteq Threads
  BY DEF Threads
<1>2. LoopTypeOK' /\ BlocksApart' /\ ExecutedBelow'
  BY StagesKeepLoop
<1>3. ASSUME NEW t \in Subs, SubBarrier(t)
      PROVE  LoopsInStages'
  <2>1. /\ pc[t] # "inside" /\ pc'[Main] = pc[Main] /\ stage'[Main] = stage[Main]
        /\ run' = run /\ \A u \in Subs \ {t} : pc'[u] = pc[u]
    BY <1>1, <1>3 DEF SubBarrier, SubCall, SubEnter, SubReturn, GoTo, NextStage,
       IndInv, TypeOK
  <2> QED
    BY <1>1, <2>1
<1>4. ASSUME MainBarrier
      PROVE  LoopsInStages'
  <2>1. run' = run /\ \A u \in Subs : pc'[u] = pc[u]
    BY <1>1, <1>4 DEF MainBarrier, MainCall, MainSeeStart, MainResetStart,
       MainPublishStart, MainSeeEnd, MainResetEnd, MainPublishEnd, GoTo, NextStage,
       IndInv, TypeOK
  <2>2. \/ pc[Main] = "outside" /\ pc'[Main] = "start" /\ claim[Main] = NoClaim
        \/ pc[Main] = "start" /\ pc'[Main] = "resetStart"
        \/ pc[Main] = "resetStart" /\ pc'[Main] = "publishStart"
        \/ pc[Main] = "publishStart" /\ pc'[Main] = "inside"
        \/ /\ pc[Main] \in {"end", "resetEnd", "publishEnd"} /\ stage' = stage
           /\ pc'[Main] \in {"resetEnd", "publishEnd", "outside"}
    <3>1. pc \in [Threads -> {"outside", "start", "inside", "end", "resetStart",
                              "publishStart", "resetEnd", "publishEnd"}]
      BY DEF IndInv, TypeOK
    <3> QED
      BY <1>1, <1>4, <3>1 DEF MainBarrier, MainCall, MainSeeStart, MainResetStart,
         MainPublishStart, MainSeeEnd, MainResetEnd, MainPublishEnd, GoTo
  <2> QED
    BY <1>1, <2>1, <2>2
<1>5. ASSUME NextCall
      PROVE  LoopsInStages'
  BY <1>5 DEF NextCall, StartThreads, Terminated, vars
<1>6. ASSUME UNCHANGED vars
      PROVE  LoopsInStages'
  BY <1>6 DEF vars
<1> QED
  BY <1>2, <1>3, <1>4, <1>5, <1>6

LEMMA NextLoopInv ==
  ASSUME LaterCallsShort, IndInv, LoopInv, [LoopNext]_loopAllVars
  PROVE  LoopInv'
<1>1. Main \in Threads /\ Subs \subseteq Threads
  BY DEF Threads
<1>2. ASSUME NEW t \in Subs, SubInLoop(t)
      PROVE  LoopInv'
  BY <1>1, <1>2, InLoopKeeps, SubLeaveLoopKeeps, BarriersKeepLoop DEF SubInLoop
<1>3. ASSUME MainInLoop
      PROVE  LoopInv'
  BY <1>1, <1>3, InLoopKeeps, MainLeaveLoopKeeps, ResetCounterKeeps,
     BarriersKeepLoop DEF MainInLoop
<1>4. ASSUME NextCall /\ UNCHANGED loopVars
      PROVE  LoopInv'
  BY <1>4, BarriersKeepLoop
<1>5. ASSUME UNCHANGED loopAllVars
      PROVE  LoopInv'
  BY <1>5, BarriersKeepLoop DEF loopAllVars
<1> QED
  BY <1>2, <1>3, <1>4, <1>5 DEF LoopNext

(* The inductive invariant of the loop, on top of that of the stages.      *)
THEOREM LoopInvariant ==
  ASSUME LaterCallsShort
  PROVE  LoopSpec => [](IndInv /\ LoopInv)
<1>1. LoopInit => LoopInv
  BY InitLoopInv
<1>2. IndInv /\ LoopInv /\ [LoopNext]_loopAllVars => LoopInv'
  BY NextLoopInv, LaterCallsShort
<1> QED
  BY <1>1, <1>2, LoopKeepsBarrier, PTL DEF LoopSpec

(* A parallel loop calls its function at most once for an index, and has   *)
(* called it for every index when the main thread returns from             *)
(* synchronized: for any number of threads and indices, any block size,    *)
(* and any number of stages in the first and at most one in later calls.   *)
THEOREM LoopExecutesEachIndexOnce ==
  ASSUME LaterCallsShort
  PROVE  LoopSpec => []EachIndexOnce
<1>1. IndInv /\ LoopInv => EachIndexOnce
  <2> SUFFICES ASSUME IndInv, LoopInv PROVE EachIndexOnce
    OBVIOUS
  <2>1. LoopTypeOK /\ \A i \in Indices : executed[i] <= 1
    BY DEF LoopInv, ExecutedBelow
  <2>2. ASSUME MayReset, NEW i \in Indices
        PROVE  executed[i] = 1
    <3>1. \A t \in Subs : claim[t] = NoClaim
      BY <2>2, LaterCallsShort, NobodyInside DEF LoopInv, LoopsInStages
    <3>2. /\ Main \in Threads /\ claim[Main] # NoClaim /\ claim[Main] \in Nat
          /\ claim[Main] >= Items /\ claim[Main] + BlockSize <= counter
          /\ counter \in Nat
      BY <2>2 DEF MayReset, LoopInv, LoopTypeOK, LoopsInStages, BlocksApart, Threads
    <3>3. ~Claimed(i)
      BY <3>1, <3>2, BlockIs DEF Claimed, Threads, Indices
    <3> QED
      BY <3>2, <3>3 DEF LoopInv, ExecutedBelow, Indices
  <2> QED
    BY <2>1, <2>2 DEF EachIndexOnce
<1> QED
  BY <1>1, LoopInvariant, LaterCallsShort, PTL

------------------------------------------------------------------------------
(* The memory pool.                                                        *)

LEMMA InitPool == Pool!Init => Pool!IndInv
BY DEF Pool!Init, Pool!IndInv, Pool!TypeOK, Pool!OneInitializes, Pool!Initializing

LEMMA NextPool ==
  ASSUME Pool!IndInv, [Pool!Next]_(Pool!vars)
  PROVE  Pool!IndInv'
<1> USE DEF Pool!IndInv, Pool!TypeOK, Pool!OneInitializes, Pool!Initializing,
            Pool!Goto, Pool!Return, Pool!MayInitialize
<1>1. ASSUME NEW s \in Sizes, Pool!SetMempoolSize(s)
      PROVE  Pool!IndInv'
  BY <1>1 DEF Pool!SetMempoolSize
<1>2. ASSUME NEW t \in PoolThreads, NEW s \in Sizes, Pool!InitializeMempool(t, s)
      PROVE  Pool!IndInv'
  <2>1. CASE state = "uninitialized"
    BY <1>2, <2>1 DEF Pool!InitializeMempool
  <2>2. CASE state # "uninitialized"
    BY <1>2, <2>2 DEF Pool!InitializeMempool
  <2> QED
    BY <2>1, <2>2
<1>3. ASSUME NEW t \in PoolThreads, Pool!CheckMempool(t)
      PROVE  Pool!IndInv'
  <2>1. CASE state = "uninitialized"
    BY <1>3, <2>1 DEF Pool!CheckMempool
  <2>2. CASE state = "initializing"
    BY <1>3, <2>2 DEF Pool!CheckMempool
  <2>3. CASE state = "initialized"
    BY <1>3, <2>3 DEF Pool!CheckMempool
  <2>4. CASE state = "bad_state"
    BY <1>3, <2>4 DEF Pool!CheckMempool
  <2> QED
    BY <2>1, <2>2, <2>3, <2>4
<1>4. ASSUME NEW t \in PoolThreads, Pool!CheckCas(t)
      PROVE  Pool!IndInv'
  BY <1>4 DEF Pool!CheckCas
<1>5. ASSUME NEW t \in PoolThreads, Pool!LoadSize(t)
      PROVE  Pool!IndInv'
  BY <1>5 DEF Pool!LoadSize
<1>6. ASSUME NEW t \in PoolThreads, Pool!DestroyPool(t)
      PROVE  Pool!IndInv'
  BY <1>6 DEF Pool!DestroyPool
<1>7. ASSUME NEW t \in PoolThreads, Pool!Malloc(t)
      PROVE  Pool!IndInv'
  BY <1>7 DEF Pool!Malloc
<1>8. ASSUME NEW t \in PoolThreads, Pool!MallocFails(t)
      PROVE  Pool!IndInv'
  BY <1>8 DEF Pool!MallocFails
<1>9. ASSUME NEW t \in PoolThreads, Pool!BuildPool(t)
      PROVE  Pool!IndInv'
  BY <1>9 DEF Pool!BuildPool
<1>10. ASSUME NEW t \in PoolThreads, Pool!PublishPool(t)
      PROVE  Pool!IndInv'
  BY <1>10 DEF Pool!PublishPool, Pool!StateBuilt
<1>11. ASSUME NEW t \in PoolThreads, Pool!WaitEnds(t)
      PROVE  Pool!IndInv'
  BY <1>11 DEF Pool!WaitEnds
<1>12. ASSUME UNCHANGED Pool!vars
      PROVE  Pool!IndInv'
  BY <1>12 DEF Pool!vars
<1> QED
  BY <1>1, <1>2, <1>3, <1>4, <1>5, <1>6, <1>7, <1>8, <1>9, <1>10, <1>11, <1>12
     DEF Pool!Next, Pool!Working

(* However many threads initialize the pool or construct allocators, one   *)
(* of them builds it, and whoever has been told that it is there, unless   *)
(* malloc has failed, finds it, and finds nobody at work on it.            *)
THEOREM PoolIsReadyOnceTold == Pool!Spec => []PoolIsReady
<1>1. Pool!IndInv => PoolIsReady
  BY DEF PoolIsReady, Pool!PoolIsReady, Pool!IndInv
<1> QED
  BY InitPool, NextPool, <1>1, PTL DEF Pool!Spec
==============================================================================
