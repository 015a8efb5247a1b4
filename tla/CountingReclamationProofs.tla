----------------------- MODULE CountingReclamationProofs -----------------------
(***************************************************************************)
(* The promise of counting_manager, for every number of threads, objects   *)
(* and shared pointers.  The count of an address is a cardinality: of its  *)
(* protections, as pairs of a thread and a number, and of the threads that *)
(* have counted themselves in and may have to leave again.  A counter that *)
(* can be reset therefore belongs to an object that nobody protects; and   *)
(* as it is retired, no shared pointer leads to it any more.               *)
(***************************************************************************)
EXTENDS CountingReclamation, FiniteSetTheorems, SequenceTheorems, TLAPS

USE ThreadsAssumption, MaxHeldAssumption

(* What a step of one thread does to its place and its locals.             *)
OthersStay(t) ==
  \A u \in Threads \ {t} : pc'[u] = pc[u] /\ loc'[u] = loc[u]

LEMMA GotoMoves ==
  ASSUME TypeOK, NEW t \in Threads, NEW next, NEW l, Goto(t, next, l)
  PROVE  pc'[t] = next /\ loc'[t] = l /\ OthersStay(t)
BY DEF Goto, TypeOK, OthersStay

LEMMA ReturnMoves ==
  ASSUME TypeOK, NEW t \in Threads, Return(t)
  PROVE  pc'[t] = "idle" /\ loc'[t] = NoLoc /\ OthersStay(t)
BY GotoMoves DEF Return

(* The step after an operation's inner part: back in the program, or on in *)
(* protect.                                                                *)
LEMMA GoOnMoves ==
  ASSUME TypeOK, NEW t \in Threads, NEW l, l.then \in {"idle", "again"}, GoOn(t, l)
  PROVE  /\ OthersStay(t)
         /\ \/ pc'[t] = "idle" /\ loc'[t] = NoLoc
            \/ pc'[t] = "again" /\ loc'[t] = l /\ l.then = "again"
BY ReturnMoves, GotoMoves DEF GoOn

LEMMA DeleteIfMoves ==
  ASSUME TypeOK, NEW t \in Threads, NEW last, NEW l, l.then \in {"idle", "again"},
         DeleteIf(last, t, l)
  PROVE  /\ OthersStay(t)
         /\ last => pc'[t] = "reset" /\ loc'[t] = l
         /\ ~last => \/ pc'[t] = "idle" /\ loc'[t] = NoLoc
                     \/ pc'[t] = "again" /\ loc'[t] = l /\ l.then = "again"
BY GoOnMoves, GotoMoves DEF DeleteIf

LEMMA AboutAfter ==
  ASSUME NEW t \in Threads, OthersStay(t), NEW step, NEW o
  PROVE  About(step, o)' = IF pc'[t] = step /\ loc'[t].ptr = o
                           THEN About(step, o) \cup {t} ELSE About(step, o) \ {t}
BY DEF About, OthersStay

PcType == {"idle", "increment", "reload", "decrement", "again", "protectNew",
           "markDeletion", "reset", "erase", "recycle"}
LocType == [ptr : Pointers, new : Pointers, cell : Cells \cup {NoPtr},
            then : {"idle", "again"}]

LEMMA InitIndInv == Init => IndInv
<1> SUFFICES ASSUME Init PROVE IndInv
  OBVIOUS
<1>1. TypeOK /\ CellsAreLive /\ LocalsSet
  BY DEF Init, TypeOK, CellsAreLive, LocalsSet, NoLoc, Pointers
<1>2. \A step, o : step # "idle" => About(step, o) = {}
  BY DEF Init, About
<1>3. ProtectedExists /\ DeletionPending
  BY <1>2, SMTT(40) DEF Init, ProtectedExists, Protected, DeletionPending, Deleting
<1>4. FreelistSound
  BY <1>2 DEF Init, FreelistSound, OnFreelist
<1>5. CountsReferences
  <2> SUFFICES ASSUME NEW o \in Objects
               PROVE  /\ IsFiniteSet(Protections(o))
                      /\ count[o].refs =
                           Cardinality(Protections(o)) + Cardinality(PassingBy(o))
    BY DEF CountsReferences
  <2>1. Protections(o) = {} /\ PassingBy(o) = {}
    BY DEF Init, Protections, PassingBy
  <2> QED
    BY <2>1, FS_EmptySet DEF Init
<1> QED
  BY <1>1, <1>3, <1>4, <1>5 DEF IndInv, StateInv

(* Types.                                                                  *)
LEMMA GotoTyped ==
  ASSUME TypeOK, NEW t \in Threads, NEW next \in PcType, NEW l \in LocType,
         Goto(t, next, l)
  PROVE  pc' \in [Threads -> PcType] /\ loc' \in [Threads -> LocType]
BY DEF TypeOK, PcType, LocType, Goto

LEMMA NoLocTyped ==
  /\ NoLoc \in LocType
  /\ \A p \in Pointers : [NoLoc EXCEPT !.ptr = p] \in LocType
  /\ \A p \in Pointers, c \in Cells : [NoLoc EXCEPT !.ptr = p, !.cell = c] \in LocType
BY DEF NoLoc, LocType, Pointers

LEMMA GoOnTyped ==
  ASSUME TypeOK, NEW t \in Threads, NEW l \in LocType, GoOn(t, l)
  PROVE  pc' \in [Threads -> PcType] /\ loc' \in [Threads -> LocType]
<1>1. l.then \in {"idle", "again"} /\ "idle" \in PcType /\ "again" \in PcType
  BY DEF LocType, PcType
<1> QED
  BY <1>1, NoLocTyped, GotoTyped DEF GoOn, Return

LEMMA DeleteIfTyped ==
  ASSUME TypeOK, NEW t \in Threads, NEW last, NEW l \in LocType,
         DeleteIf(last, t, l)
  PROVE  pc' \in [Threads -> PcType] /\ loc' \in [Threads -> LocType]
BY GotoTyped, GoOnTyped DEF DeleteIf, PcType

LEMMA CreateTyped ==
  ASSUME TypeOK, NEW p \in Objects, Create(p)
  PROVE  freelist' \in Seq(Objects) /\ allocated' \subseteq Objects /\ count' = count
<1>1. freelist' \in Seq(Objects)
  <2>1. CASE freelist # << >> /\ freelist' = Tail(freelist)
    BY <2>1, HeadTailProperties DEF TypeOK
  <2>2. CASE UNCHANGED freelist
    BY <2>2 DEF TypeOK
  <2> QED
    BY <2>1, <2>2 DEF Create
<1> QED
  BY <1>1 DEF TypeOK, Create, Constructed

LEMMA AddRefTyped ==
  ASSUME TypeOK, NEW o \in Objects, NEW n \in Int, AddRef(o, n),
         count[o].refs + n \in Nat
  PROVE  /\ count' \in [Objects -> [del : BOOLEAN, refs : Nat]]
         /\ count'[o] = [del |-> count[o].del, refs |-> count[o].refs + n]
         /\ \A p \in Objects \ {o} : count'[p] = count[p]
BY DEF TypeOK, AddRef

LEMMA AddOneTyped ==
  ASSUME TypeOK, NEW o \in Objects, AddRef(o, 1)
  PROVE  count' \in [Objects -> [del : BOOLEAN, refs : Nat]]
<1>1. 1 \in Int /\ count[o].refs + 1 \in Nat
  BY DEF TypeOK
<1> QED
  BY <1>1, AddRefTyped

LEMMA TakeOneCounts ==
  ASSUME TypeOK, NEW p \in Objects, AddRef(p, -1), count[p].refs >= 1
  PROVE  \A o \in Objects :
           /\ count[o].refs \in Nat
           /\ count'[o].del = count[o].del
           /\ count'[o].refs = count[o].refs - (IF o = p THEN 1 ELSE 0)
<1>1. -1 \in Int /\ count[p].refs + (-1) \in Nat
        /\ count[p].refs + (-1) = count[p].refs - 1
  BY DEF TypeOK
<1>2. /\ count'[p] = [del |-> count[p].del, refs |-> count[p].refs - 1]
      /\ \A o \in Objects \ {p} : count'[o] = count[o]
  BY <1>1, AddRefTyped
<1>3. \A o \in Objects : count[o].refs \in Nat
  BY DEF TypeOK
<1>4. count'[p].del = count[p].del /\ count'[p].refs = count[p].refs - 1
  BY <1>2
<1> QED
  BY <1>2, <1>3, <1>4

LEMMA HoldTyped ==
  ASSUME TypeOK, NEW t \in Threads, NEW o \in Objects, Hold(t, o)
  PROVE  held' \in [Threads -> [Objects -> Nat]]
BY DEF TypeOK, Hold

(* The sets that are counted.                                              *)
LEMMA ProtectionsAre ==
  ASSUME NEW o
  PROVE  /\ \A x : x \in Protections(o) <=>
              \E t \in Threads : \E i \in 1 .. held[t][o] : x = <<t, i>>
         /\ \A x : x \in Protections(o)' <=>
              \E t \in Threads : \E i \in 1 .. held'[t][o] : x = <<t, i>>
<1>1. ASSUME NEW x
      PROVE  x \in Protections(o) <=>
               \E t \in Threads : \E i \in 1 .. held[t][o] : x = <<t, i>>
  <2>1. x \in Protections(o) <=> \E t \in Threads : x \in {t} \X (1 .. held[t][o])
    BY Zenon DEF Protections
  <2>2. \A t : x \in {t} \X (1 .. held[t][o]) <=>
               \E i \in 1 .. held[t][o] : x = <<t, i>>
    OBVIOUS
  <2> QED
    BY <2>1, <2>2, Zenon
<1>2. ASSUME NEW x
      PROVE  x \in Protections(o)' <=>
               \E t \in Threads : \E i \in 1 .. held'[t][o] : x = <<t, i>>
  <2>1. x \in Protections(o)' <=> \E t \in Threads : x \in {t} \X (1 .. held'[t][o])
    BY Zenon DEF Protections
  <2>2. \A t : x \in {t} \X (1 .. held'[t][o]) <=>
               \E i \in 1 .. held'[t][o] : x = <<t, i>>
    OBVIOUS
  <2> QED
    BY <2>1, <2>2, Zenon
<1> QED
  BY <1>1, <1>2

LEMMA PassingByCount ==
  ASSUME NEW o
  PROVE  IsFiniteSet(PassingBy(o)) /\ Cardinality(PassingBy(o)) \in Nat
<1>1. PassingBy(o) \in SUBSET Threads
  BY DEF PassingBy
<1> QED
  BY <1>1, FS_Subset, FS_CardinalityType

LEMMA NotEmptyCount ==
  ASSUME NEW S, IsFiniteSet(S), NEW x \in S
  PROVE  Cardinality(S) \in Nat /\ Cardinality(S) >= 1
<1>1. Cardinality(S) \in Nat /\ Cardinality(S) # 0
  BY FS_CardinalityType, FS_EmptySet
<1> QED
  BY <1>1

(* Who is counted keeps the count above 0.                                 *)
LEMMA CountedKeeps ==
  ASSUME TypeOK, CountsReferences, NEW o \in Objects
  PROVE  /\ \A t \in PassingBy(o) : count[o].refs >= 1
         /\ Protected(o) => count[o].refs >= 1
<1>1. /\ IsFiniteSet(Protections(o)) /\ Cardinality(Protections(o)) \in Nat
      /\ count[o].refs = Cardinality(Protections(o)) + Cardinality(PassingBy(o))
      /\ Cardinality(PassingBy(o)) \in Nat
  BY PassingByCount, FS_CardinalityType DEF CountsReferences
<1>2. ASSUME NEW t \in PassingBy(o)
      PROVE  count[o].refs >= 1
  BY <1>1, NotEmptyCount, PassingByCount
<1>3. ASSUME NEW t \in Threads, held[t][o] > 0
      PROVE  count[o].refs >= 1
  <2>1. 1 \in 1 .. held[t][o]
    BY <1>3 DEF TypeOK
  <2>2. <<t, 1>> \in Protections(o)
    BY <2>1, ProtectionsAre
  <2> QED
    BY <1>1, <2>2, NotEmptyCount
<1> QED
  BY <1>2, <1>3 DEF Protected

LEMMA BeginTypeOK ==
  ASSUME IndInv, NEW t \in Threads, Begin(t)
  PROVE  TypeOK'
<1> USE DEF IndInv, StateInv, Idle
<1>1. "idle" \in PcType /\ NoLoc \in LocType
  BY NoLocTyped DEF PcType
<1>2. ASSUME NEW c \in Cells, ProtectLoad(t, c)
      PROVE  TypeOK'
  <2>1. CASE UNCHANGED <<pc, loc>>
    BY <1>2, <2>1 DEF ProtectLoad, TypeOK, clientVars, memoryVars
  <2>2. CASE Goto(t, "increment", [NoLoc EXCEPT !.ptr = cell[c], !.cell = c])
    <3>1. [NoLoc EXCEPT !.ptr = cell[c], !.cell = c] \in LocType
      BY NoLocTyped DEF TypeOK
    <3> QED
      BY <1>2, <2>2, <3>1, GotoTyped
         DEF ProtectLoad, TypeOK, clientVars, memoryVars, PcType, LocType
  <2> QED
    BY <1>2, <2>1, <2>2 DEF ProtectLoad
<1>3. ASSUME NEW c \in Cells, NEW p \in Pointers, Exchange(t, c, p)
      PROVE  TypeOK'
  <2>1. /\ freelist' \in Seq(Objects) /\ allocated' \subseteq Objects
        /\ count' = count
    BY <1>3, CreateTyped DEF Exchange, memoryVars, TypeOK, Pointers
  <2>2. pc' \in [Threads -> PcType] /\ loc' \in [Threads -> LocType]
    <3>1. CASE UNCHANGED <<pc, loc>>
      BY <3>1 DEF TypeOK, PcType, LocType
    <3>2. CASE Goto(t, "markDeletion", [NoLoc EXCEPT !.ptr = cell[c]])
      <4>1. [NoLoc EXCEPT !.ptr = cell[c]] \in LocType
        BY NoLocTyped DEF TypeOK
      <4> QED
        BY <3>2, <4>1, GotoTyped DEF PcType
    <3> QED
      BY <1>3, <3>1, <3>2 DEF Exchange
  <2> QED
    BY <1>3, <2>1, <2>2 DEF Exchange, TypeOK, PcType, LocType
<1>4. ASSUME NEW o \in Objects, ProtectRaw(t, o)
      PROVE  TypeOK'
  <2>1. count' \in [Objects -> [del : BOOLEAN, refs : Nat]]
    BY <1>4, AddOneTyped DEF ProtectRaw
  <2> QED
    BY <1>4, <2>1, HoldTyped DEF ProtectRaw, memoryVars, TypeOK
<1>5. ASSUME NEW o \in Objects, CreateGuarded(t, o)
      PROVE  TypeOK'
  <2>1. pc' \in [Threads -> PcType] /\ loc' \in [Threads -> LocType]
    BY <1>5, NoLocTyped, GotoTyped DEF CreateGuarded, PcType, Pointers
  <2> QED
    BY <1>5, <2>1, CreateTyped DEF CreateGuarded, TypeOK, PcType, LocType
<1>6. ASSUME NEW o \in Objects, Unprotect(t, o)
      PROVE  TypeOK'
  <2>1. count[o].refs >= 1
    BY <1>6, CountedKeeps DEF Unprotect, Protected
  <2>2. count[o].refs - 1 \in Nat
    BY <2>1 DEF TypeOK
  <2>3. pc' \in [Threads -> PcType] /\ loc' \in [Threads -> LocType]
    BY <1>6, NoLocTyped, DeleteIfTyped DEF Unprotect, Pointers
  <2>4. count' \in [Objects -> [del : BOOLEAN, refs : Nat]]
    BY <1>6, <2>2 DEF Unprotect, AddRef, TypeOK
  <2>5. held' \in [Threads -> [Objects -> Nat]]
    BY <1>6 DEF Unprotect, TypeOK
  <2> QED
    BY <1>6, <2>3, <2>4, <2>5 DEF Unprotect, TypeOK, memoryVars, PcType, LocType
<1> QED
  BY <1>2, <1>3, <1>4, <1>5, <1>6 DEF Begin

LEMMA StepTypeOK ==
  ASSUME IndInv, NEW t \in Threads, Step(t)
  PROVE  TypeOK'
<1> USE DEF IndInv, StateInv
<1> DEFINE o == loc[t].ptr
<1>1. loc[t] \in LocType /\ (pc[t] # "idle" => o \in Objects)
  BY DEF TypeOK, LocType, LocalsSet
<1>2. CASE Increment(t) \/ ProtectNew(t)
  <2>1. count' \in [Objects -> [del : BOOLEAN, refs : Nat]]
    BY <1>1, <1>2, AddOneTyped DEF Increment, ProtectNew
  <2>2. pc' \in [Threads -> PcType] /\ loc' \in [Threads -> LocType]
    BY <1>1, <1>2, GotoTyped, NoLocTyped DEF Increment, ProtectNew, Return, PcType
  <2>3. held' \in [Threads -> [Objects -> Nat]]
    BY <1>1, <1>2, HoldTyped DEF Increment, ProtectNew, clientVars, TypeOK
  <2> QED
    BY <1>2, <2>1, <2>2, <2>3
       DEF Increment, ProtectNew, clientVars, memoryVars, TypeOK, PcType, LocType
<1>3. CASE Reload(t)
  <2>1. /\ pc' \in [Threads -> PcType] /\ loc' \in [Threads -> LocType]
        /\ held' \in [Threads -> [Objects -> Nat]]
    <3>1. CASE Hold(t, o) /\ Return(t)
      BY <1>1, <1>3, <3>1, GotoTyped, NoLocTyped, HoldTyped
         DEF Reload, Return, PcType
    <3>2. CASE /\ Goto(t, "decrement", [loc[t] EXCEPT !.new = cell[loc[t].cell]])
               /\ UNCHANGED held
      <4>1. cell[loc[t].cell] \in Pointers
        BY <1>3 DEF Reload, LocalsSet, TypeOK
      <4>2. [loc[t] EXCEPT !.new = cell[loc[t].cell]] \in LocType
        BY <1>1, <4>1 DEF LocType
      <4> QED
        BY <3>2, <4>2, GotoTyped DEF TypeOK, PcType
    <3> QED
      BY <1>3, <3>1, <3>2 DEF Reload
  <2> QED
    BY <1>3, <2>1 DEF Reload, memoryVars, TypeOK, PcType, LocType
<1>4. CASE Decrement(t)
  <2>1. t \in PassingBy(o) /\ o \in Objects
    BY <1>1, <1>4 DEF Decrement, PassingBy
  <2>2. count[o].refs - 1 \in Nat
    BY <2>1, CountedKeeps DEF TypeOK
  <2>3. count' \in [Objects -> [del : BOOLEAN, refs : Nat]]
    BY <1>4, <2>1, <2>2, ZenonT(60) DEF Decrement, AddRef, TypeOK
  <2>4. [loc[t] EXCEPT !.then = "again"] \in LocType
    BY <1>1 DEF LocType
  <2>5. pc' \in [Threads -> PcType] /\ loc' \in [Threads -> LocType]
    BY <1>4, <2>4, DeleteIfTyped DEF Decrement
  <2> QED
    BY <1>4, <2>3, <2>5
       DEF Decrement, clientVars, memoryVars, TypeOK, PcType, LocType
<1>5. CASE Again(t)
  <2>1. CASE Return(t) /\ UNCHANGED count
    BY <1>5, <2>1, GotoTyped, NoLocTyped
       DEF Again, Return, clientVars, memoryVars, TypeOK, PcType, LocType
  <2>2. CASE /\ loc[t].new # NoPtr
             /\ AddRef(loc[t].new, 1)
             /\ Goto(t, "reload",
                     [NoLoc EXCEPT !.ptr = loc[t].new, !.cell = loc[t].cell])
    <3>1. loc[t].new \in Objects /\ loc[t].cell \in Cells
      BY <1>1, <1>5, <2>2 DEF Again, LocalsSet, LocType, Pointers
    <3>2. count' \in [Objects -> [del : BOOLEAN, refs : Nat]]
      BY <2>2, <3>1, AddOneTyped
    <3>3. [NoLoc EXCEPT !.ptr = loc[t].new, !.cell = loc[t].cell] \in LocType
      BY <3>1, NoLocTyped DEF Pointers
    <3>4. pc' \in [Threads -> PcType] /\ loc' \in [Threads -> LocType]
      BY <2>2, <3>3, GotoTyped DEF PcType
    <3> QED
      BY <1>5, <3>2, <3>4
         DEF Again, clientVars, memoryVars, TypeOK, PcType, LocType
  <2> QED
    BY <1>5, <2>1, <2>2 DEF Again
<1>6. CASE MarkDeletion(t)
  <2>1. pc' \in [Threads -> PcType] /\ loc' \in [Threads -> LocType]
    BY <1>1, <1>6, DeleteIfTyped DEF MarkDeletion
  <2>2. count' \in [Objects -> [del : BOOLEAN, refs : Nat]]
    BY <1>1, <1>6, ZenonT(60) DEF MarkDeletion, TypeOK
  <2> QED
    BY <1>6, <2>1, <2>2
       DEF MarkDeletion, clientVars, memoryVars, TypeOK, PcType, LocType
<1>7. CASE Reset(t)
  <2>1. pc' \in [Threads -> PcType] /\ loc' \in [Threads -> LocType]
    BY <1>1, <1>7, GotoTyped, GoOnTyped DEF Reset, PcType
  <2>2. count' \in [Objects -> [del : BOOLEAN, refs : Nat]]
    <3>1. AfterReset(count[o]) \in [del : BOOLEAN, refs : Nat]
      BY DEF AfterReset
    <3>2. CASE count' = [count EXCEPT ![o] = AfterReset(count[o])]
      BY <1>1, <1>7, <3>1, <3>2 DEF Reset, TypeOK
    <3>3. CASE UNCHANGED count
      BY <3>3 DEF TypeOK
    <3> QED
      BY <1>7, <3>2, <3>3 DEF Reset
  <2> QED
    BY <1>7, <2>1, <2>2 DEF Reset, clientVars, memoryVars, TypeOK, PcType, LocType
<1>8. CASE Erase(t)
  <2>1. pc' \in [Threads -> PcType] /\ loc' \in [Threads -> LocType]
    BY <1>1, <1>8, GotoTyped DEF Erase, PcType
  <2> QED
    BY <1>8, <2>1 DEF Erase, memoryVars, TypeOK, PcType, LocType
<1>9. CASE Recycle(t)
  <2>1. pc' \in [Threads -> PcType] /\ loc' \in [Threads -> LocType]
    BY <1>1, <1>9, GoOnTyped DEF Recycle
  <2>2. freelist' \in Seq(Objects)
    BY <1>1, <1>9 DEF Recycle, TypeOK
  <2> QED
    BY <1>9, <2>1, <2>2 DEF Recycle, clientVars, TypeOK, PcType, LocType
<1> QED
  BY <1>2, <1>3, <1>4, <1>5, <1>6, <1>7, <1>8, <1>9 DEF Step

(* Parts of the invariant that a step does not disturb.                    *)
LEMMA LocalsAfter ==
  ASSUME LocalsSet, NEW t \in Threads, OthersStay(t),
         pc'[t] # "idle" => loc'[t].ptr \in Objects,
         pc'[t] \in {"increment", "reload", "decrement", "again"} =>
           loc'[t].cell \in Cells,
         loc'[t].then = "again" => loc'[t].cell \in Cells
  PROVE  LocalsSet'
BY DEF LocalsSet, OthersStay

LEMMA FreelistStays ==
  ASSUME FreelistSound, NEW t \in Threads, OthersStay(t),
         UNCHANGED <<mem, freelist, allocated>>,
         pc[t] # "recycle", pc'[t] # "recycle"
  PROVE  FreelistSound'
<1>1. \A o : About("recycle", o)' = About("recycle", o)
  BY DEF About, OthersStay
<1> QED
  BY <1>1 DEF FreelistSound, OnFreelist

LEMMA ProtectedStays ==
  ASSUME ProtectedExists, NEW t \in Threads, OthersStay(t), UNCHANGED mem,
         \A o \in Objects : Protected(o)' => Protected(o),
         pc[t] \notin {"erase", "protectNew"}, pc'[t] \notin {"erase", "protectNew"}
  PROVE  ProtectedExists'
<1>1. \A o : /\ About("erase", o)' = About("erase", o)
             /\ About("protectNew", o)' = About("protectNew", o)
  BY DEF About, OthersStay
<1> QED
  BY <1>1 DEF ProtectedExists

(* A count may become 0, or its resetter go away, only where t takes over. *)
LEMMA PendingStays ==
  ASSUME DeletionPending, NEW t \in Threads, OthersStay(t), UNCHANGED mem,
         pc[t] \notin {"markDeletion", "erase"},
         pc'[t] \notin {"markDeletion", "erase"},
         \A o \in Objects :
           /\ count'[o].del = count[o].del
           /\ count[o].del /\ count'[o].refs = 0 =>
                \/ count[o].refs = 0 /\ ~(pc[t] = "reset" /\ loc[t].ptr = o)
                \/ pc'[t] = "reset" /\ loc'[t].ptr = o
  PROVE  DeletionPending'
<1>1. \A o : Deleting(o)' = Deleting(o)
  BY DEF Deleting, About, OthersStay
<1>2. ASSUME NEW o \in Objects, count'[o].del, count'[o].refs = 0
      PROVE  About("reset", o)' # {}
  <2>1. CASE pc'[t] = "reset" /\ loc'[t].ptr = o
    BY <2>1 DEF About
  <2>2. CASE count[o].refs = 0 /\ ~(pc[t] = "reset" /\ loc[t].ptr = o)
    <3>1. PICK u \in About("reset", o) : TRUE
      BY <1>2, <2>2 DEF DeletionPending
    <3>2. u \in About("reset", o)'
      BY <2>2, <3>1 DEF About, OthersStay
    <3> QED
      BY <3>2
  <2> QED
    BY <1>2, <2>1, <2>2
<1> QED
  BY <1>1, <1>2 DEF DeletionPending

LEMMA CellsStay ==
  ASSUME CellsAreLive, UNCHANGED <<cell, mem>>
  PROVE  CellsAreLive'
BY DEF CellsAreLive

(* How the sets that are counted change.                                   *)
Passing(t, o) ==
  IF pc[t] \in {"reload", "decrement"} /\ loc[t].ptr = o THEN 1 ELSE 0

LEMMA PassingCount ==
  ASSUME NEW t \in Threads, OthersStay(t), NEW o
  PROVE  Cardinality(PassingBy(o)') + Passing(t, o)
           = Cardinality(PassingBy(o)) + Passing(t, o)'
<1>1. IsFiniteSet(PassingBy(o)) /\ Cardinality(PassingBy(o)) \in Nat
  BY PassingByCount
<1>2. t \in PassingBy(o) <=> Passing(t, o) = 1
  BY DEF PassingBy, Passing
<1>3. CASE Passing(t, o)' = 1
  <2>1. PassingBy(o)' = PassingBy(o) \cup {t}
    BY <1>3 DEF PassingBy, Passing, OthersStay
  <2>2. Cardinality(PassingBy(o) \cup {t})
          = IF t \in PassingBy(o) THEN Cardinality(PassingBy(o))
            ELSE Cardinality(PassingBy(o)) + 1
    BY <1>1, FS_AddElement
  <2> QED
    BY <1>1, <1>2, <1>3, <2>1, <2>2 DEF Passing
<1>4. CASE Passing(t, o)' = 0
  <2>1. PassingBy(o)' = PassingBy(o) \ {t}
    BY <1>4 DEF PassingBy, Passing, OthersStay
  <2>2. Cardinality(PassingBy(o) \ {t})
          = IF t \in PassingBy(o) THEN Cardinality(PassingBy(o)) - 1
            ELSE Cardinality(PassingBy(o))
    BY <1>1, FS_RemoveElement
  <2> QED
    BY <1>1, <1>2, <1>4, <2>1, <2>2 DEF Passing
<1> QED
  BY <1>3, <1>4 DEF Passing

LEMMA ProtectionsStay ==
  ASSUME UNCHANGED held, NEW o
  PROVE  Protections(o)' = Protections(o)
BY DEF Protections

LEMMA HoldCounts ==
  ASSUME TypeOK, NEW t \in Threads, NEW p \in Objects, Hold(t, p),
         NEW o \in Objects, IsFiniteSet(Protections(o))
  PROVE  /\ IsFiniteSet(Protections(o)')
         /\ Cardinality(Protections(o)')
              = Cardinality(Protections(o)) + (IF o = p THEN 1 ELSE 0)
<1>1. /\ held[t][p] \in Nat
      /\ held'[t][p] = held[t][p] + 1
      /\ \A u \in Threads, q \in Objects :
           u # t \/ q # p => held'[u][q] = held[u][q]
  BY DEF Hold, TypeOK
<1>2. CASE o # p
  <2>1. Protections(o)' = Protections(o)
    <3>1. \A u \in Threads : held'[u][o] = held[u][o]
      BY <1>1, <1>2
    <3>2. \A x : x \in Protections(o)' <=> x \in Protections(o)
      BY <3>1, ProtectionsAre
    <3> QED
      BY <3>2, Zenon
  <2>2. Cardinality(Protections(o)) \in Nat
    BY FS_CardinalityType
  <2> QED
    BY <1>2, <2>1, <2>2
<1>3. CASE o = p
  <2> DEFINE n == held[t][p] + 1
  <2>1. <<t, n>> \notin Protections(p)
    <3>1. ASSUME NEW u \in Threads, NEW i \in 1 .. held[u][p], <<t, n>> = <<u, i>>
          PROVE  FALSE
      <4>1. u = t /\ i = n
        BY <3>1
      <4> QED
        BY <1>1, <3>1, <4>1
    <3> QED
      BY <3>1, ProtectionsAre
  <2>2. Protections(p)' = Protections(p) \cup {<<t, n>>}
    <3>1. ASSUME NEW u \in Threads
          PROVE  \A i : i \in 1 .. held'[u][p] <=>
                   i \in 1 .. held[u][p] \/ (u = t /\ i = n)
      <4>1. CASE u = t
        BY <1>1, <4>1
      <4>2. CASE u # t
        BY <1>1, <4>2
      <4> QED
        BY <4>1, <4>2
    <3>2. \A x : x \in Protections(p)' <=> x \in Protections(p) \/ x = <<t, n>>
      <4> HIDE DEF n
      <4> QED
        BY <3>1, ProtectionsAre
    <3> QED
      BY <3>2, Zenon
  <2> QED
    BY <1>3, <2>1, <2>2, FS_AddElement, ZenonT(60)
<1> QED
  BY <1>2, <1>3

LEMMA UnprotectCounts ==
  ASSUME TypeOK, NEW t \in Threads, NEW p \in Objects, held[t][p] > 0,
         held' = [held EXCEPT ![t][p] = @ - 1],
         NEW o \in Objects, IsFiniteSet(Protections(o))
  PROVE  /\ IsFiniteSet(Protections(o)')
         /\ Cardinality(Protections(o)')
              = Cardinality(Protections(o)) - (IF o = p THEN 1 ELSE 0)
<1>1. /\ held[t][p] \in Nat
      /\ held'[t][p] = held[t][p] - 1
      /\ \A u \in Threads, q \in Objects :
           u # t \/ q # p => held'[u][q] = held[u][q]
  BY DEF TypeOK
<1>2. CASE o # p
  <2>1. Protections(o)' = Protections(o)
    <3>1. \A u \in Threads : held'[u][o] = held[u][o]
      BY <1>1, <1>2
    <3>2. \A x : x \in Protections(o)' <=> x \in Protections(o)
      BY <3>1, ProtectionsAre
    <3> QED
      BY <3>2, Zenon
  <2>2. Cardinality(Protections(o)) \in Nat
    BY FS_CardinalityType
  <2> QED
    BY <1>2, <2>1, <2>2
<1>3. CASE o = p
  <2> DEFINE n == held[t][p]
  <2>1. <<t, n>> \in Protections(p)
    <3>1. n \in 1 .. held[t][p]
      BY <1>1
    <3> QED
      BY <3>1, ProtectionsAre
  <2>2. Protections(p)' = Protections(p) \ {<<t, n>>}
    <3>1. ASSUME NEW u \in Threads
          PROVE  \A i : i \in 1 .. held'[u][p] <=>
                   i \in 1 .. held[u][p] /\ ~(u = t /\ i = n)
      <4>1. CASE u = t
        BY <1>1, <4>1
      <4>2. CASE u # t
        BY <1>1, <4>2
      <4> QED
        BY <4>1, <4>2
    <3>2. \A x : x \in Protections(p)' <=> x \in Protections(p) /\ x # <<t, n>>
      <4> HIDE DEF n
      <4> QED
        BY <3>1, ProtectionsAre
    <3> QED
      BY <3>2, Zenon
  <2>3. Cardinality(Protections(p)) \in Nat
    BY <1>3, FS_CardinalityType
  <2> QED
    BY <1>3, <2>1, <2>2, <2>3, FS_RemoveElement
<1> QED
  BY <1>2, <1>3

(* A step that counts what it adds and takes away keeps the counts right.  *)
LEMMA CountsAfter ==
  ASSUME TypeOK, TypeOK', CountsReferences, NEW t \in Threads, OthersStay(t),
         \A o \in Objects :
           IsFiniteSet(Protections(o)) =>
             /\ IsFiniteSet(Protections(o)')
             /\ count'[o].refs - count[o].refs =
                  Cardinality(Protections(o)') - Cardinality(Protections(o))
                    + Passing(t, o)' - Passing(t, o)
  PROVE  CountsReferences'
<1> SUFFICES ASSUME NEW o \in Objects
             PROVE  /\ IsFiniteSet(Protections(o)')
                    /\ count'[o].refs =
                         Cardinality(Protections(o)') + Cardinality(PassingBy(o)')
  BY DEF CountsReferences
<1>1. /\ IsFiniteSet(Protections(o)) /\ IsFiniteSet(Protections(o)')
      /\ count[o].refs = Cardinality(Protections(o)) + Cardinality(PassingBy(o))
  BY DEF CountsReferences
<1>2. /\ Cardinality(Protections(o)) \in Nat /\ Cardinality(Protections(o)') \in Nat
      /\ Cardinality(PassingBy(o)) \in Nat
  BY <1>1, PassingByCount, FS_CardinalityType
<1>3. Cardinality(PassingBy(o)') \in Nat
  <2>1. PassingBy(o)' \in SUBSET Threads
    BY DEF PassingBy
  <2> QED
    BY <2>1, FS_Subset, FS_CardinalityType
<1>4. Passing(t, o) \in Nat /\ Passing(t, o)' \in Nat
  BY DEF Passing
<1>5. count[o].refs \in Nat /\ count'[o].refs \in Nat
  BY DEF TypeOK
<1> QED
  BY <1>1, <1>2, <1>3, <1>4, <1>5, PassingCount

LEMMA CountsOfPassing ==
  ASSUME TypeOK, TypeOK', CountsReferences, NEW t \in Threads, OthersStay(t),
         UNCHANGED held,
         \A o \in Objects :
           count'[o].refs - count[o].refs = Passing(t, o)' - Passing(t, o)
  PROVE  CountsReferences'
<1>1. \A o \in Objects : Protections(o)' = Protections(o)
  BY ProtectionsStay
<1>2. \A o \in Objects : IsFiniteSet(Protections(o)) =>
        Cardinality(Protections(o)) \in Nat
  BY FS_CardinalityType
<1>3. \A o : Passing(t, o) \in Nat /\ Passing(t, o)' \in Nat
  BY DEF Passing
<1> QED
  BY <1>1, <1>2, <1>3, CountsAfter

(* Each step of an operation preserves the invariant.                      *)
LEMMA StutterKeeps ==
  ASSUME IndInv, UNCHANGED vars
  PROVE  IndInv'
<1> USE DEF vars, clientVars, memoryVars, IndInv, StateInv
<1>1. \A step, o : About(step, o)' = About(step, o)
  BY DEF About
<1>2. TypeOK' /\ CellsAreLive' /\ LocalsSet'
  BY DEF TypeOK, CellsAreLive, LocalsSet
<1>3. ProtectedExists' /\ DeletionPending'
  BY <1>1 DEF ProtectedExists, DeletionPending, Protected, Deleting
<1>4. FreelistSound'
  BY <1>1 DEF FreelistSound, OnFreelist
<1>5. CountsReferences'
  BY DEF CountsReferences, Protections, PassingBy
<1> QED
  BY <1>2, <1>3, <1>4, <1>5

(* protect counts itself in with an object of which it has only read the   *)
(* address: the count covers the threads that pass by.                     *)
LEMMA IncrementKeeps ==
  ASSUME IndInv, TypeOK', NEW t \in Threads, Increment(t)
  PROVE  IndInv'
<1> USE DEF IndInv, StateInv
<1> DEFINE p == loc[t].ptr
<1>1. /\ pc[t] = "increment" /\ p \in Objects /\ loc[t].cell \in Cells
      /\ pc'[t] = "reload" /\ loc'[t] = loc[t] /\ OthersStay(t)
      /\ UNCHANGED <<clientVars, memoryVars>>
  BY GotoMoves DEF Increment, LocalsSet
<1>2. /\ \A o \in Objects : /\ count'[o].del = count[o].del
                            /\ count'[o].refs = count[o].refs + (IF o = p THEN 1 ELSE 0)
      /\ \A o \in Objects : count[o].refs \in Nat
  BY <1>1 DEF Increment, AddRef, TypeOK
<1>3. CellsAreLive' /\ LocalsSet' /\ FreelistSound'
  <2>1. CellsAreLive'
    BY <1>1, CellsStay DEF clientVars
  <2>2. LocalsSet'
    BY <1>1, LocalsAfter DEF LocalsSet
  <2>3. FreelistSound'
    BY <1>1, FreelistStays DEF clientVars, memoryVars
  <2> QED
    BY <2>1, <2>2, <2>3
<1>4. ProtectedExists'
  BY <1>1, ProtectedStays DEF clientVars, Protected
<1>5. DeletionPending'
  <2>1. \A o \in Objects : count'[o].refs = 0 => count[o].refs = 0
    BY <1>2
  <2> QED
    BY <1>1, <1>2, <2>1, PendingStays DEF clientVars
<1>6. CountsReferences'
  <2>1. \A o \in Objects : /\ Passing(t, o) = 0
                           /\ Passing(t, o)' = (IF o = p THEN 1 ELSE 0)
    BY <1>1 DEF Passing
  <2>2. \A o \in Objects :
          count'[o].refs - count[o].refs = Passing(t, o)' - Passing(t, o)
    BY <1>2, <2>1
  <2> QED
    BY <1>1, <2>2, CountsOfPassing DEF clientVars
<1> QED
  BY <1>3, <1>4, <1>5, <1>6

LEMMA ProtectLoadKeeps ==
  ASSUME IndInv, TypeOK', NEW t \in Threads, NEW c \in Cells, ProtectLoad(t, c)
  PROVE  IndInv'
<1>1. CASE UNCHANGED <<pc, loc>>
  BY <1>1, StutterKeeps DEF ProtectLoad, vars
<1>2. CASE /\ cell[c] # NoPtr
           /\ Goto(t, "increment", [NoLoc EXCEPT !.ptr = cell[c], !.cell = c])
  <2> USE DEF IndInv, StateInv
  <2>1. /\ pc[t] = "idle" /\ pc'[t] = "increment"
        /\ loc'[t] = [NoLoc EXCEPT !.ptr = cell[c], !.cell = c] /\ OthersStay(t)
        /\ UNCHANGED <<clientVars, count, memoryVars>> /\ cell[c] \in Objects
    BY <1>2, GotoMoves DEF ProtectLoad, Idle, TypeOK, Pointers
  <2>2. /\ loc'[t].ptr = cell[c] /\ loc'[t].cell = c /\ loc'[t].then = "idle"
    BY <2>1 DEF NoLoc
  <2>3. CellsAreLive' /\ ProtectedExists' /\ DeletionPending' /\ FreelistSound'
    BY <2>1, CellsStay, ProtectedStays, PendingStays, FreelistStays
       DEF clientVars, memoryVars, Protected
  <2>4. LocalsSet'
    BY <2>1, <2>2, LocalsAfter
  <2>5. \A o : Passing(t, o) = 0 /\ Passing(t, o)' = 0
    BY <2>1 DEF Passing
  <2>6. \A o \in Objects :
          count'[o].refs - count[o].refs = Passing(t, o)' - Passing(t, o)
    BY <2>1, <2>5 DEF TypeOK
  <2>7. CountsReferences'
    BY <2>1, <2>6, CountsOfPassing DEF clientVars
  <2> QED
    BY <2>3, <2>4, <2>7
<1> QED
  BY <1>1, <1>2 DEF ProtectLoad

(* The pointer is still there: its object is live, and the thread's count  *)
(* becomes a protection.                                                   *)
LEMMA ReloadKeeps ==
  ASSUME IndInv, TypeOK', NEW t \in Threads, Reload(t)
  PROVE  IndInv'
<1> USE DEF IndInv, StateInv
<1> DEFINE p == loc[t].ptr
<1>1. /\ pc[t] = "reload" /\ p \in Objects /\ loc[t].cell \in Cells
      /\ UNCHANGED <<cell, mem, count, memoryVars>>
      /\ \A o \in Objects : count[o].refs \in Nat /\ count'[o] = count[o]
  BY DEF Reload, LocalsSet, TypeOK
<1>2. \A o : Passing(t, o) = (IF o = p THEN 1 ELSE 0)
  BY <1>1 DEF Passing
<1>3. CASE StillThere(t) /\ Hold(t, p) /\ Return(t)
  <2>1. pc'[t] = "idle" /\ loc'[t] = NoLoc /\ OthersStay(t)
    BY <1>3, ReturnMoves
  <2>2. CellsAreLive' /\ LocalsSet' /\ DeletionPending' /\ FreelistSound'
    BY <1>1, <2>1, CellsStay, LocalsAfter, PendingStays, FreelistStays
       DEF memoryVars, NoLoc
  <2>3. ProtectedExists'
    <3>1. mem[p] = "live"
      BY <1>1, <1>3 DEF StillThere, CellsAreLive, TypeOK
    <3>2. About("erase", p) = {} /\ About("protectNew", p) = {}
      BY <1>1, <3>1 DEF DeletionPending, Deleting, ProtectedExists
    <3>3. \A o : /\ About("erase", o)' = About("erase", o)
                 /\ About("protectNew", o)' = About("protectNew", o)
      BY <1>1, <2>1 DEF About, OthersStay
    <3>4. \A o \in Objects : Protected(o)' => Protected(o) \/ o = p
      BY <1>1, <1>3 DEF Protected, Hold, TypeOK
    <3> QED
      BY <1>1, <3>1, <3>2, <3>3, <3>4 DEF ProtectedExists
  <2>4. CountsReferences'
    <3>1. \A o : Passing(t, o)' = 0
      BY <2>1 DEF Passing
    <3>2. \A o \in Objects : IsFiniteSet(Protections(o)) =>
            /\ IsFiniteSet(Protections(o)')
            /\ Cardinality(Protections(o)) \in Nat
            /\ Cardinality(Protections(o)')
                 = Cardinality(Protections(o)) + (IF o = p THEN 1 ELSE 0)
      BY <1>1, <1>3, HoldCounts, FS_CardinalityType
    <3>3. \A o \in Objects : IsFiniteSet(Protections(o)) =>
            /\ IsFiniteSet(Protections(o)')
            /\ count'[o].refs - count[o].refs =
                 Cardinality(Protections(o)') - Cardinality(Protections(o))
                   + Passing(t, o)' - Passing(t, o)
      BY <1>1, <1>2, <3>1, <3>2
    <3> QED
      BY <2>1, <3>3, CountsAfter
  <2> QED
    BY <2>2, <2>3, <2>4
<1>4. CASE /\ Goto(t, "decrement", [loc[t] EXCEPT !.new = cell[loc[t].cell]])
           /\ UNCHANGED held
  <2>1. /\ pc'[t] = "decrement" /\ OthersStay(t)
        /\ loc'[t] = [loc[t] EXCEPT !.new = cell[loc[t].cell]]
    BY <1>4, GotoMoves
  <2>2. /\ loc'[t].ptr = p /\ loc'[t].cell = loc[t].cell
        /\ loc'[t].then = loc[t].then
    BY <2>1 DEF TypeOK
  <2>3. CellsAreLive' /\ LocalsSet' /\ ProtectedExists' /\ DeletionPending'
          /\ FreelistSound'
    BY <1>1, <1>4, <2>1, <2>2,
       CellsStay, LocalsAfter, ProtectedStays, PendingStays, FreelistStays
       DEF memoryVars, Protected
  <2>4. \A o : Passing(t, o)' = Passing(t, o)
    BY <1>1, <2>1, <2>2 DEF Passing
  <2>5. \A o \in Objects :
          count'[o].refs - count[o].refs = Passing(t, o)' - Passing(t, o)
    BY <1>1, <1>2, <2>4
  <2>6. CountsReferences'
    BY <1>4, <2>1, <2>5, CountsOfPassing
  <2> QED
    BY <2>3, <2>6
<1> QED
  BY <1>3, <1>4 DEF Reload

(* The step of decrement_counter: whoever takes the last reference of a    *)
(* flagged object is to reset its counter.                                 *)
LEMMA LastReferencePends ==
  ASSUME IndInv, NEW t \in Threads, NEW p \in Objects, NEW l,
         AddRef(p, -1), count[p].refs >= 1, l.ptr = p, l.then \in {"idle", "again"},
         DeleteIf(IsLast(count[p]), t, l), UNCHANGED mem,
         pc[t] \notin {"markDeletion", "erase", "reset"}
  PROVE  DeletionPending'
<1> USE DEF IndInv, StateInv
<1>1. \A o \in Objects :
        /\ count[o].refs \in Nat
        /\ count'[o].del = count[o].del
        /\ count'[o].refs = count[o].refs - (IF o = p THEN 1 ELSE 0)
  BY TakeOneCounts
<1>3. /\ OthersStay(t)
      /\ IsLast(count[p]) => pc'[t] = "reset" /\ loc'[t].ptr = p
      /\ pc'[t] \notin {"markDeletion", "erase"}
  BY DeleteIfMoves
<1>4. ASSUME NEW o \in Objects
      PROVE  /\ count'[o].del = count[o].del
             /\ count[o].del /\ count'[o].refs = 0 =>
                  \/ count[o].refs = 0 /\ ~(pc[t] = "reset" /\ loc[t].ptr = o)
                  \/ pc'[t] = "reset" /\ loc'[t].ptr = o
  <2>1. CASE o = p
    <3>1. count'[p].del = count[p].del
          /\ (count'[p].refs = 0 => count[p].refs = 1)
      BY <1>1
    <3>2. count[p].del /\ count'[p].refs = 0 => pc'[t] = "reset" /\ loc'[t].ptr = p
      BY <1>3, <3>1 DEF IsLast
    <3> QED
      BY <2>1, <3>1, <3>2
  <2>2. CASE o # p
    BY <1>1, <2>2
  <2> QED
    BY <2>1, <2>2
<1> QED
  BY <1>3, <1>4, PendingStays

LEMMA DecrementKeeps ==
  ASSUME IndInv, TypeOK', NEW t \in Threads, Decrement(t)
  PROVE  IndInv'
<1> USE DEF IndInv, StateInv
<1> DEFINE p == loc[t].ptr
           l == [loc[t] EXCEPT !.then = "again"]
<1>1. /\ pc[t] = "decrement" /\ p \in Objects /\ loc[t].cell \in Cells
      /\ UNCHANGED <<clientVars, memoryVars>>
      /\ AddRef(p, -1) /\ DeleteIf(IsLast(count[p]), t, l)
  BY DEF Decrement, LocalsSet
<1>2. l.ptr = p /\ l.cell = loc[t].cell /\ l.then = "again"
  BY DEF TypeOK
<1>3. /\ OthersStay(t)
      /\ \/ pc'[t] = "reset" /\ loc'[t] = l
         \/ pc'[t] = "idle" /\ loc'[t] = NoLoc
         \/ pc'[t] = "again" /\ loc'[t] = l
  <2> HIDE DEF l
  <2> QED
    BY <1>1, <1>2, DeleteIfMoves
<1>4. CellsAreLive' /\ LocalsSet' /\ ProtectedExists' /\ FreelistSound'
  <2>1. CellsAreLive' /\ ProtectedExists' /\ FreelistSound'
    BY <1>1, <1>3, CellsStay, ProtectedStays, FreelistStays
       DEF clientVars, memoryVars, Protected
  <2>2. LocalsSet'
    <3> HIDE DEF l
    <3> QED
      BY <1>1, <1>2, <1>3, LocalsAfter DEF NoLoc
  <2> QED
    BY <2>1, <2>2
<1>5. count[p].refs >= 1
  BY <1>1, CountedKeeps DEF PassingBy
<1>6. DeletionPending'
  <2> HIDE DEF l
  <2> QED
    BY <1>1, <1>2, <1>5, LastReferencePends DEF clientVars
<1>7. CountsReferences'
  <2>1. \A o : /\ Passing(t, o) = (IF o = p THEN 1 ELSE 0)
               /\ Passing(t, o)' = 0
    BY <1>1, <1>3 DEF Passing
  <2>4. \A o \in Objects :
          count'[o].refs - count[o].refs = Passing(t, o)' - Passing(t, o)
    BY <1>1, <1>5, <2>1, TakeOneCounts
  <2> QED
    BY <1>1, <1>3, <2>4, CountsOfPassing DEF clientVars
<1> QED
  BY <1>4, <1>6, <1>7

LEMMA AgainKeeps ==
  ASSUME IndInv, TypeOK', NEW t \in Threads, Again(t)
  PROVE  IndInv'
<1> USE DEF IndInv, StateInv
<1> DEFINE p == loc[t].new
<1>1. /\ pc[t] = "again" /\ loc[t].cell \in Cells
      /\ UNCHANGED <<clientVars, memoryVars>>
      /\ \A o : Passing(t, o) = 0
  BY DEF Again, LocalsSet, Passing
<1>2. CASE Return(t) /\ UNCHANGED count
  <2>1. pc'[t] = "idle" /\ loc'[t] = NoLoc /\ OthersStay(t)
    BY <1>2, ReturnMoves
  <2>2. CellsAreLive' /\ LocalsSet' /\ ProtectedExists' /\ DeletionPending'
          /\ FreelistSound'
    BY <1>1, <1>2, <2>1,
       CellsStay, LocalsAfter, ProtectedStays, PendingStays, FreelistStays
       DEF clientVars, memoryVars, Protected, NoLoc
  <2>3. \A o \in Objects :
          count'[o].refs - count[o].refs = Passing(t, o)' - Passing(t, o)
    BY <1>1, <1>2, <2>1 DEF Passing, TypeOK
  <2> QED
    BY <1>1, <2>1, <2>2, <2>3, CountsOfPassing DEF clientVars
<1>3. CASE /\ p # NoPtr /\ AddRef(p, 1)
           /\ Goto(t, "reload", [NoLoc EXCEPT !.ptr = p, !.cell = loc[t].cell])
  <2>1. /\ pc'[t] = "reload" /\ OthersStay(t)
        /\ loc'[t] = [NoLoc EXCEPT !.ptr = p, !.cell = loc[t].cell]
    BY <1>3, GotoMoves
  <2>2. /\ loc'[t].ptr = p /\ loc'[t].cell = loc[t].cell
        /\ loc'[t].then = "idle" /\ p \in Objects
    BY <1>3, <2>1 DEF NoLoc, TypeOK, Pointers
  <2>3. /\ \A o \in Objects : /\ count'[o].del = count[o].del
                              /\ count'[o].refs
                                   = count[o].refs + (IF o = p THEN 1 ELSE 0)
        /\ \A o \in Objects : count[o].refs \in Nat
    BY <1>3, <2>2 DEF AddRef, TypeOK
  <2>4. \A o \in Objects : count'[o].refs = 0 => count[o].refs = 0
    BY <2>3
  <2>5. CellsAreLive' /\ LocalsSet' /\ ProtectedExists' /\ DeletionPending'
          /\ FreelistSound'
    BY <1>1, <2>1, <2>2, <2>3, <2>4,
       CellsStay, LocalsAfter, ProtectedStays, PendingStays, FreelistStays
       DEF clientVars, memoryVars, Protected
  <2>6. \A o : Passing(t, o)' = (IF o = p THEN 1 ELSE 0)
    BY <2>1, <2>2 DEF Passing
  <2>7. \A o \in Objects :
          count'[o].refs - count[o].refs = Passing(t, o)' - Passing(t, o)
    BY <1>1, <2>3, <2>6
  <2> QED
    BY <1>1, <2>1, <2>5, <2>7, CountsOfPassing DEF clientVars
<1> QED
  BY <1>2, <1>3 DEF Again

LEMMA ProtectRawKeeps ==
  ASSUME IndInv, TypeOK', NEW t \in Threads, NEW p \in Objects, ProtectRaw(t, p)
  PROVE  IndInv'
<1> USE DEF IndInv, StateInv
<1>1. /\ held[t][p] > 0 /\ AddRef(p, 1) /\ Hold(t, p) /\ pc[t] = "idle"
      /\ UNCHANGED <<cell, mem, memoryVars, pc, loc>> /\ OthersStay(t)
  BY DEF ProtectRaw, OthersStay, Idle
<1>2. /\ \A o \in Objects : /\ count'[o].del = count[o].del
                            /\ count'[o].refs
                                 = count[o].refs + (IF o = p THEN 1 ELSE 0)
      /\ \A o \in Objects : count[o].refs \in Nat
  BY <1>1 DEF AddRef, TypeOK
<1>3. \A o \in Objects : Protected(o)' => Protected(o)
  BY <1>1 DEF Protected, Hold, TypeOK
<1>4. \A o \in Objects : count'[o].refs = 0 => count[o].refs = 0
  BY <1>2
<1>5. LocalsSet'
  BY <1>1 DEF LocalsSet
<1>6. CellsAreLive' /\ ProtectedExists' /\ DeletionPending' /\ FreelistSound'
  BY <1>1, <1>2, <1>3, <1>4, CellsStay, ProtectedStays, PendingStays, FreelistStays
     DEF memoryVars
<1>7. CountsReferences'
  <2>1. \A o : Passing(t, o) = 0 /\ Passing(t, o)' = 0
    BY <1>1 DEF Passing
  <2>2. \A o \in Objects : IsFiniteSet(Protections(o)) =>
          /\ IsFiniteSet(Protections(o)')
          /\ Cardinality(Protections(o)) \in Nat
          /\ Cardinality(Protections(o)')
               = Cardinality(Protections(o)) + (IF o = p THEN 1 ELSE 0)
    BY <1>1, HoldCounts, FS_CardinalityType
  <2>3. \A o \in Objects : IsFiniteSet(Protections(o)) =>
          /\ IsFiniteSet(Protections(o)')
          /\ count'[o].refs - count[o].refs =
               Cardinality(Protections(o)') - Cardinality(Protections(o))
                 + Passing(t, o)' - Passing(t, o)
    BY <1>2, <2>1, <2>2
  <2> QED
    BY <1>1, <2>3, CountsAfter
<1> QED
  BY <1>5, <1>6, <1>7

LEMMA UnprotectKeeps ==
  ASSUME IndInv, TypeOK', NEW t \in Threads, NEW p \in Objects, Unprotect(t, p)
  PROVE  IndInv'
<1> USE DEF IndInv, StateInv
<1> DEFINE l == [NoLoc EXCEPT !.ptr = p]
<1>1. /\ held[t][p] > 0 /\ AddRef(p, -1) /\ pc[t] = "idle"
      /\ held' = [held EXCEPT ![t][p] = @ - 1]
      /\ DeleteIf(IsLast(count[p]), t, l)
      /\ UNCHANGED <<cell, mem, memoryVars>>
  BY DEF Unprotect, Idle
<1>2. l.ptr = p /\ l.then = "idle"
  BY DEF NoLoc
<1>3. /\ OthersStay(t)
      /\ \/ pc'[t] = "reset" /\ loc'[t] = l
         \/ pc'[t] = "idle" /\ loc'[t] = NoLoc
  <2> HIDE DEF l
  <2> QED
    BY <1>1, <1>2, DeleteIfMoves
<1>4. \A o \in Objects : Protected(o)' => Protected(o)
  BY <1>1 DEF Protected, TypeOK
<1>5. CellsAreLive' /\ LocalsSet' /\ ProtectedExists' /\ FreelistSound'
  <2>1. CellsAreLive' /\ ProtectedExists' /\ FreelistSound'
    BY <1>1, <1>3, <1>4, CellsStay, ProtectedStays, FreelistStays DEF memoryVars
  <2>2. LocalsSet'
    BY <1>1, <1>2, <1>3, LocalsAfter DEF NoLoc
  <2> QED
    BY <2>1, <2>2
<1>6. count[p].refs >= 1
  BY <1>1, CountedKeeps DEF Protected
<1>7. DeletionPending'
  <2> HIDE DEF l
  <2> QED
    BY <1>1, <1>2, <1>6, LastReferencePends
<1>8. CountsReferences'
  <2>1. \A o : Passing(t, o) = 0 /\ Passing(t, o)' = 0
    BY <1>1, <1>3 DEF Passing
  <2>2. \A o \in Objects : IsFiniteSet(Protections(o)) =>
          /\ IsFiniteSet(Protections(o)')
          /\ Cardinality(Protections(o)) \in Nat
          /\ Cardinality(Protections(o)')
               = Cardinality(Protections(o)) - (IF o = p THEN 1 ELSE 0)
    BY <1>1, UnprotectCounts, FS_CardinalityType
  <2>3. \A o \in Objects :
          /\ count[o].refs \in Nat
          /\ count'[o].refs = count[o].refs - (IF o = p THEN 1 ELSE 0)
    BY <1>1, <1>6, TakeOneCounts
  <2>5. \A o \in Objects : IsFiniteSet(Protections(o)) =>
          /\ IsFiniteSet(Protections(o)')
          /\ count'[o].refs - count[o].refs =
               Cardinality(Protections(o)') - Cardinality(Protections(o))
                 + Passing(t, o)' - Passing(t, o)
    BY <2>1, <2>2, <2>3
  <2> QED
    BY <1>3, <2>5, CountsAfter
<1> QED
  BY <1>5, <1>7, <1>8

(* safe_delete: the thread that took the object out of the shared pointers *)
(* hands its deletion to the counter, or is to reset it itself.            *)
LEMMA MarkDeletionKeeps ==
  ASSUME IndInv, TypeOK', NEW t \in Threads, MarkDeletion(t)
  PROVE  IndInv'
<1> USE DEF IndInv, StateInv
<1> SUFFICES ASSUME NEW p, p = loc[t].ptr
             PROVE  IndInv'
  OBVIOUS
<1>1. /\ pc[t] = "markDeletion" /\ p \in Objects
      /\ UNCHANGED <<clientVars, memoryVars>>
      /\ loc[t].then \in {"idle", "again"}
      /\ loc[t].then = "again" => loc[t].cell \in Cells
  BY DEF MarkDeletion, LocalsSet, TypeOK
<1>2. /\ \A o \in Objects : /\ count'[o].refs = count[o].refs
                            /\ count'[o].del <=> o = p \/ count[o].del
      /\ \A o \in Objects : count[o].refs \in Nat
  BY <1>1 DEF MarkDeletion, TypeOK
<1>3. t \in About("markDeletion", p)
  BY <1>1 DEF About
<1>4. mem[p] = "retired" /\ ~count[p].del /\ Deleting(p) = {t}
  BY <1>1, <1>3 DEF DeletionPending, Deleting
<1>5. /\ OthersStay(t)
      /\ count[p].refs = 0 => pc'[t] = "reset" /\ loc'[t] = loc[t]
      /\ \/ pc'[t] \in {"reset", "again"} /\ loc'[t] = loc[t]
         \/ pc'[t] = "idle" /\ loc'[t] = NoLoc
      /\ pc'[t] = "again" => loc[t].then = "again"
  <2>1. count[p].refs = 0 => Unused(count[p])
    BY <1>4 DEF Unused
  <2>2. DeleteIf(Unused(count[p]), t, loc[t])
    BY DEF MarkDeletion
  <2> QED
    BY <1>1, <2>1, <2>2, DeleteIfMoves
<1>6. CellsAreLive' /\ LocalsSet' /\ ProtectedExists' /\ FreelistSound'
  BY <1>1, <1>5, CellsStay, LocalsAfter, ProtectedStays, FreelistStays
     DEF clientVars, memoryVars, Protected, NoLoc
<1>7. DeletionPending'
  <2>1. \A o \in Objects : Deleting(o)' = Deleting(o) \ {t}
    BY <1>1, <1>5 DEF Deleting, About, OthersStay
  <2>2. \A o \in Objects \ {p} : Deleting(o)' = Deleting(o)
    BY <1>1, <2>1 DEF Deleting, About
  <2>3. Deleting(p)' = {}
    BY <1>1, <1>4, <2>1
  <2>4. \A o \in Objects : About("reset", o) \subseteq About("reset", o)'
    BY <1>1, <1>5 DEF About, OthersStay
  <2>5. count'[p].refs = 0 => About("reset", p)' # {}
    BY <1>1, <1>2, <1>5 DEF About
  <2>6. mem' = mem
    BY <1>1 DEF clientVars
  <2>7. ASSUME NEW o \in Objects \ {p}
        PROVE  /\ mem'[o] = "retired" <=> count'[o].del \/ Deleting(o)' # {}
               /\ \A u \in Deleting(o)' : ~count'[o].del /\ Deleting(o)' = {u}
               /\ count'[o].del /\ count'[o].refs = 0 => About("reset", o)' # {}
    BY <1>2, <2>2, <2>4, <2>6 DEF DeletionPending
  <2> QED
    BY <1>1, <1>2, <1>4, <2>3, <2>5, <2>6, <2>7 DEF DeletionPending
<1>8. CountsReferences'
  <2>1. \A o : Passing(t, o) = 0 /\ Passing(t, o)' = 0
    BY <1>1, <1>5 DEF Passing
  <2>2. \A o \in Objects :
          count'[o].refs - count[o].refs = Passing(t, o)' - Passing(t, o)
    BY <1>2, <2>1
  <2> QED
    BY <1>1, <1>5, <2>2, CountsOfPassing DEF clientVars
<1> QED
  BY <1>6, <1>7, <1>8

(* Only who finds the count flagged and 0 goes on to erase the object, and *)
(* then nobody protects it.                                                *)
LEMMA ResetKeeps ==
  ASSUME IndInv, TypeOK', NEW t \in Threads, Reset(t)
  PROVE  IndInv'
<1> USE DEF IndInv, StateInv
<1> SUFFICES ASSUME NEW p, p = loc[t].ptr
             PROVE  IndInv'
  OBVIOUS
<1>1. /\ pc[t] = "reset" /\ p \in Objects
      /\ UNCHANGED <<clientVars, memoryVars>>
      /\ loc[t].then \in {"idle", "again"}
      /\ loc[t].then = "again" => loc[t].cell \in Cells
      /\ \A o : Passing(t, o) = 0
      /\ \A o \in Objects : count[o].refs \in Nat
  BY DEF Reset, LocalsSet, TypeOK, Passing
<1>2. CASE ~Resets(count[p]) /\ GoOn(t, loc[t]) /\ UNCHANGED count
  <2>1. /\ OthersStay(t)
        /\ \/ pc'[t] = "idle" /\ loc'[t] = NoLoc
           \/ pc'[t] = "again" /\ loc'[t] = loc[t] /\ loc[t].then = "again"
    BY <1>1, <1>2, GoOnMoves
  <2>2. CellsAreLive' /\ LocalsSet' /\ ProtectedExists' /\ FreelistSound'
    BY <1>1, <2>1, CellsStay, LocalsAfter, ProtectedStays, FreelistStays
       DEF clientVars, memoryVars, Protected, NoLoc
  <2>3. \A o \in Objects :
          /\ count'[o].del = count[o].del
          /\ count[o].del /\ count'[o].refs = 0 =>
               count[o].refs = 0 /\ ~(pc[t] = "reset" /\ loc[t].ptr = o)
    BY <1>2 DEF Resets
  <2>4. DeletionPending'
    BY <1>1, <2>1, <2>3, PendingStays DEF clientVars
  <2>5. \A o : Passing(t, o)' = 0
    BY <2>1 DEF Passing
  <2>6. \A o \in Objects :
          count'[o].refs - count[o].refs = Passing(t, o)' - Passing(t, o)
    BY <1>1, <1>2, <2>5
  <2> QED
    BY <1>1, <2>1, <2>2, <2>4, <2>6, CountsOfPassing DEF clientVars
<1>3. CASE /\ Resets(count[p]) /\ count' = [count EXCEPT ![p] = AfterReset(@)]
           /\ Goto(t, "erase", loc[t])
  <2>1. pc'[t] = "erase" /\ loc'[t] = loc[t] /\ OthersStay(t)
    BY <1>3, GotoMoves
  <2>2. /\ count[p].del /\ count[p].refs = 0
        /\ ~count'[p].del /\ count'[p].refs = 0
        /\ \A o \in Objects \ {p} : count'[o] = count[o]
    BY <1>1, <1>3 DEF Resets, AfterReset, TypeOK
  <2>3. ~Protected(p)
    BY <1>1, <2>2, CountedKeeps
  <2>4. mem[p] = "retired" /\ Deleting(p) = {}
    BY <1>1, <2>2 DEF DeletionPending
  <2>5. CellsAreLive' /\ LocalsSet' /\ FreelistSound'
    BY <1>1, <2>1, CellsStay, LocalsAfter, FreelistStays DEF clientVars, memoryVars
  <2>6. ProtectedExists'
    <3>1. \A o \in Objects : /\ About("protectNew", o)' = About("protectNew", o)
                             /\ o # p => About("erase", o)' = About("erase", o)
                             /\ Protected(o)' <=> Protected(o)
      BY <1>1, <2>1 DEF About, OthersStay, Protected, clientVars
    <3> QED
      BY <1>1, <2>3, <3>1 DEF ProtectedExists, clientVars
  <2>7. DeletionPending'
    <3>1. /\ Deleting(p)' = Deleting(p) \cup {t}
          /\ \A o \in Objects \ {p} : Deleting(o)' = Deleting(o)
      BY <1>1, <2>1 DEF Deleting, About, OthersStay
    <3>2. \A o \in Objects \ {p} : About("reset", o)' = About("reset", o)
      BY <1>1, <2>1 DEF About, OthersStay
    <3>3. Deleting(p)' = {t}
      BY <2>4, <3>1
    <3> QED
      BY <1>1, <2>2, <2>4, <3>1, <3>2, <3>3 DEF DeletionPending, clientVars
  <2>8. CountsReferences'
    <3>1. \A o : Passing(t, o)' = 0
      BY <2>1 DEF Passing
    <3>2. \A o \in Objects :
            count'[o].refs - count[o].refs = Passing(t, o)' - Passing(t, o)
      BY <1>1, <2>2, <3>1
    <3> QED
      BY <1>1, <2>1, <3>2, CountsOfPassing DEF clientVars
  <2> QED
    BY <2>5, <2>6, <2>7, <2>8
<1> QED
  BY <1>2, <1>3 DEF Reset

LEMMA EraseKeeps ==
  ASSUME IndInv, TypeOK', NEW t \in Threads, Erase(t)
  PROVE  IndInv'
<1> USE DEF IndInv, StateInv
<1> SUFFICES ASSUME NEW p, p = loc[t].ptr
             PROVE  IndInv'
  OBVIOUS
<1>1. /\ pc[t] = "erase" /\ p \in Objects
      /\ pc'[t] = "recycle" /\ loc'[t] = loc[t] /\ OthersStay(t)
      /\ UNCHANGED <<cell, held, count, memoryVars>>
      /\ mem'[p] = "free" /\ \A o \in Objects \ {p} : mem'[o] = mem[o]
      /\ loc[t].then = "again" => loc[t].cell \in Cells
  BY GotoMoves DEF Erase, LocalsSet, TypeOK
<1>2. t \in About("erase", p)
  BY <1>1 DEF About
<1>3. /\ mem[p] = "retired" /\ ~count[p].del /\ Deleting(p) = {t}
      /\ ~Protected(p) /\ About("protectNew", p) = {}
  <2>1. mem[p] = "retired" /\ ~count[p].del /\ Deleting(p) = {t}
    BY <1>1, <1>2 DEF DeletionPending, Deleting
  <2> QED
    BY <1>1, <1>2, <2>1 DEF ProtectedExists
<1>4. CellsAreLive'
  BY <1>1, <1>3 DEF CellsAreLive, TypeOK, Pointers
<1>5. LocalsSet'
  BY <1>1, LocalsAfter
<1>6. ProtectedExists'
  <2>1. \A o \in Objects : /\ About("protectNew", o)' = About("protectNew", o)
                           /\ o # p => About("erase", o)' = About("erase", o)
                           /\ Protected(o)' <=> Protected(o)
    BY <1>1 DEF About, OthersStay, Protected
  <2> QED
    BY <1>1, <1>3, <2>1 DEF ProtectedExists
<1>7. DeletionPending'
  <2>1. \A o \in Objects : Deleting(o)' = IF o = p THEN Deleting(o) \ {t}
                                          ELSE Deleting(o)
    BY <1>1 DEF Deleting, About, OthersStay
  <2>2. \A o \in Objects : About("reset", o)' = About("reset", o)
    BY <1>1 DEF About, OthersStay
  <2>3. Deleting(p)' = {}
    BY <1>1, <1>3, <2>1
  <2> QED
    BY <1>1, <1>3, <2>1, <2>2, <2>3 DEF DeletionPending
<1>8. FreelistSound'
  <2>1. \A o \in Objects : /\ OnFreelist(o)' <=> OnFreelist(o)
                           /\ About("recycle", o)'
                                = IF o = p THEN About("recycle", o) \cup {t}
                                  ELSE About("recycle", o)
    BY <1>1 DEF OnFreelist, About, OthersStay, memoryVars
  <2>2. ~OnFreelist(p) /\ About("recycle", p) = {} /\ p \in allocated
    BY <1>1, <1>3 DEF FreelistSound
  <2>3. About("recycle", p)' = {t}
    BY <1>1, <2>1, <2>2
  <2> QED
    BY <1>1, <2>1, <2>2, <2>3 DEF FreelistSound, memoryVars
<1>9. CountsReferences'
  <2>1. \A o \in Objects :
          count'[o].refs - count[o].refs = Passing(t, o)' - Passing(t, o)
    BY <1>1 DEF Passing, TypeOK
  <2> QED
    BY <1>1, <2>1, CountsOfPassing
<1> QED
  BY <1>4, <1>5, <1>6, <1>7, <1>8, <1>9

LEMMA RecycleKeeps ==
  ASSUME IndInv, TypeOK', NEW t \in Threads, Recycle(t)
  PROVE  IndInv'
<1> USE DEF IndInv, StateInv
<1> SUFFICES ASSUME NEW p, p = loc[t].ptr
             PROVE  IndInv'
  OBVIOUS
<1>1. /\ pc[t] = "recycle" /\ p \in Objects
      /\ UNCHANGED <<clientVars, count, allocated>>
      /\ freelist' = Append(freelist, p)
      /\ loc[t].then \in {"idle", "again"}
      /\ loc[t].then = "again" => loc[t].cell \in Cells
  BY DEF Recycle, LocalsSet, TypeOK
<1>2. /\ OthersStay(t)
      /\ \/ pc'[t] = "idle" /\ loc'[t] = NoLoc
         \/ pc'[t] = "again" /\ loc'[t] = loc[t] /\ loc[t].then = "again"
  BY <1>1, GoOnMoves DEF Recycle
<1>3. CellsAreLive' /\ LocalsSet' /\ ProtectedExists' /\ DeletionPending'
  BY <1>1, <1>2, CellsStay, LocalsAfter, ProtectedStays, PendingStays
     DEF clientVars, Protected, NoLoc
<1>4. FreelistSound'
  <2>1. t \in About("recycle", p)
    BY <1>1 DEF About
  <2>2. /\ mem[p] = "free" /\ About("recycle", p) = {t} /\ ~OnFreelist(p)
        /\ p \in allocated
    BY <1>1, <2>1 DEF FreelistSound
  <2>3. \A o \in Objects : About("recycle", o)'
                             = IF o = p THEN {} ELSE About("recycle", o)
    <3>1. pc'[t] # "recycle"
      BY <1>2
    <3>2. \A o \in Objects \ {p} : About("recycle", o)' = About("recycle", o)
      BY <1>1, <1>2, <3>1 DEF About, OthersStay
    <3>3. About("recycle", p)' = About("recycle", p) \ {t}
      BY <1>1, <1>2, <3>1 DEF About, OthersStay
    <3> QED
      BY <1>1, <2>2, <3>2, <3>3
  <2>4. /\ Len(freelist) \in Nat /\ Len(freelist') = Len(freelist) + 1
        /\ \A i \in 1 .. Len(freelist) : freelist'[i] = freelist[i]
        /\ freelist'[Len(freelist) + 1] = p
    BY <1>1 DEF TypeOK
  <2>5. \A o : OnFreelist(o)' <=> OnFreelist(o) \/ o = p
    BY <2>4 DEF OnFreelist
  <2>6. \A i \in 1 .. Len(freelist) : freelist[i] # p
    BY <2>2 DEF OnFreelist
  <2>7. \A i, j \in 1 .. Len(freelist') : freelist'[i] = freelist'[j] => i = j
    <3> SUFFICES ASSUME NEW i \in 1 .. Len(freelist'), NEW j \in 1 .. Len(freelist'),
                        freelist'[i] = freelist'[j]
                 PROVE  i = j
      OBVIOUS
    <3>1. \A k \in 1 .. Len(freelist') :
            k \in 1 .. Len(freelist) \/ k = Len(freelist) + 1
      BY <2>4
    <3> QED
      BY <2>4, <2>6, <3>1 DEF FreelistSound
  <2> QED
    BY <1>1, <2>2, <2>3, <2>5, <2>7 DEF FreelistSound, clientVars
<1>5. CountsReferences'
  <2>1. \A o \in Objects :
          count'[o].refs - count[o].refs = Passing(t, o)' - Passing(t, o)
    BY <1>1, <1>2 DEF Passing, TypeOK
  <2> QED
    BY <1>1, <1>2, <2>1, CountsOfPassing DEF clientVars
<1> QED
  BY <1>3, <1>4, <1>5

LEMMA ProtectNewKeeps ==
  ASSUME IndInv, TypeOK', NEW t \in Threads, ProtectNew(t)
  PROVE  IndInv'
<1> USE DEF IndInv, StateInv
<1> SUFFICES ASSUME NEW p, p = loc[t].ptr
             PROVE  IndInv'
  OBVIOUS
<1>1. /\ pc[t] = "protectNew" /\ p \in Objects
      /\ AddRef(p, 1) /\ Hold(t, p)
      /\ pc'[t] = "idle" /\ loc'[t] = NoLoc /\ OthersStay(t)
      /\ UNCHANGED <<cell, mem, memoryVars>>
  BY ReturnMoves DEF ProtectNew, LocalsSet
<1>2. /\ \A o \in Objects : /\ count'[o].del = count[o].del
                            /\ count'[o].refs
                                 = count[o].refs + (IF o = p THEN 1 ELSE 0)
      /\ \A o \in Objects : count[o].refs \in Nat
  BY <1>1 DEF AddRef, TypeOK
<1>3. /\ t \in About("protectNew", p)
      /\ mem[p] = "private" /\ About("protectNew", p) = {t}
  <2>1. t \in About("protectNew", p)
    BY <1>1 DEF About
  <2> QED
    BY <1>1, <2>1 DEF ProtectedExists
<1>4. \A o \in Objects : count'[o].refs = 0 => count[o].refs = 0
  BY <1>2
<1>5. CellsAreLive' /\ LocalsSet' /\ DeletionPending' /\ FreelistSound'
  BY <1>1, <1>2, <1>4, CellsStay, LocalsAfter, PendingStays, FreelistStays
     DEF memoryVars, NoLoc
<1>6. ProtectedExists'
  <2>1. About("erase", p) = {}
    BY <1>1, <1>3 DEF DeletionPending, Deleting
  <2>2. \A o \in Objects : About("erase", o)' = About("erase", o)
    BY <1>1 DEF About, OthersStay
  <2>3. \A o \in Objects \ {p} : About("protectNew", o)' = About("protectNew", o)
    BY <1>1 DEF About, OthersStay
  <2>4. About("protectNew", p)' = About("protectNew", p) \ {t}
    BY <1>1 DEF About, OthersStay
  <2>5. \A o \in Objects \ {p} : Protected(o)' <=> Protected(o)
    BY <1>1 DEF Protected, Hold, TypeOK
  <2>6. About("protectNew", p)' = {}
    BY <1>3, <2>4
  <2> QED
    BY <1>1, <1>3, <2>1, <2>2, <2>3, <2>5, <2>6 DEF ProtectedExists
<1>7. CountsReferences'
  <2>1. \A o : Passing(t, o) = 0 /\ Passing(t, o)' = 0
    BY <1>1 DEF Passing
  <2>2. \A o \in Objects : IsFiniteSet(Protections(o)) =>
          /\ IsFiniteSet(Protections(o)')
          /\ Cardinality(Protections(o)) \in Nat
          /\ Cardinality(Protections(o)')
               = Cardinality(Protections(o)) + (IF o = p THEN 1 ELSE 0)
    BY <1>1, HoldCounts, FS_CardinalityType
  <2>3. \A o \in Objects : IsFiniteSet(Protections(o)) =>
          /\ IsFiniteSet(Protections(o)')
          /\ count'[o].refs - count[o].refs =
               Cardinality(Protections(o)') - Cardinality(Protections(o))
                 + Passing(t, o)' - Passing(t, o)
    BY <1>2, <2>1, <2>2
  <2> QED
    BY <1>1, <2>3, CountsAfter
<1> QED
  BY <1>5, <1>6, <1>7

(* create_pointer hands out an address that nothing uses.                  *)
LEMMA CreateTakesFree ==
  ASSUME TypeOK, FreelistSound, NEW p \in Objects, Create(p)
  PROVE  /\ mem[p] = "free" /\ About("recycle", p) = {}
         /\ ~OnFreelist(p)'
         /\ \A o \in Objects : OnFreelist(o)' => OnFreelist(o)
         /\ \A i, j \in 1 .. Len(freelist') : freelist'[i] = freelist'[j] => i = j
<1>1. CASE freelist # << >> /\ p = Head(freelist) /\ freelist' = Tail(freelist)
  <2>1. /\ Len(freelist) \in Nat /\ Len(freelist) >= 1 /\ p = freelist[1]
        /\ Len(freelist') = Len(freelist) - 1
        /\ \A i \in 1 .. Len(freelist') :
             i + 1 \in 1 .. Len(freelist) /\ freelist'[i] = freelist[i + 1]
    BY <1>1, HeadTailProperties DEF TypeOK
  <2>2. OnFreelist(p)
    BY <2>1 DEF OnFreelist
  <2>3. \A i \in 1 .. Len(freelist') : freelist'[i] # p
    BY <2>1 DEF FreelistSound
  <2>4. \A i, j \in 1 .. Len(freelist') : freelist'[i] = freelist'[j] => i = j
    <3> SUFFICES ASSUME NEW i \in 1 .. Len(freelist'), NEW j \in 1 .. Len(freelist'),
                        freelist'[i] = freelist'[j]
                 PROVE  i = j
      OBVIOUS
    <3>1. i + 1 = j + 1
      BY <2>1 DEF FreelistSound
    <3> QED
      BY <3>1
  <2> QED
    BY <2>1, <2>2, <2>3, <2>4 DEF FreelistSound, OnFreelist
<1>2. CASE freelist = << >> /\ p \in Objects \ allocated /\ UNCHANGED freelist
  <2>1. mem[p] = "free" /\ About("recycle", p) = {} /\ ~OnFreelist(p)
    BY <1>2 DEF FreelistSound
  <2> QED
    BY <1>2, <2>1 DEF FreelistSound, OnFreelist
<1> QED
  BY <1>1, <1>2 DEF Create

LEMMA FreelistAfterCreate ==
  ASSUME TypeOK, FreelistSound, NEW p \in Objects, Create(p),
         NEW t \in Threads, OthersStay(t), pc[t] # "recycle", pc'[t] # "recycle",
         mem'[p] # "free",
         \A o \in Objects \ {p} : mem'[o] = "free" <=> mem[o] = "free"
  PROVE  FreelistSound'
<1>1. \A o : About("recycle", o)' = About("recycle", o)
  BY DEF About, OthersStay
<1>2. allocated' = allocated \cup {p}
  BY DEF Create
<1>3. ASSUME NEW o \in Objects
      PROVE  /\ OnFreelist(o)' => mem'[o] = "free" /\ About("recycle", o)' = {}
             /\ \A u \in About("recycle", o)' :
                  mem'[o] = "free" /\ About("recycle", o)' = {u}
             /\ OnFreelist(o)' \/ About("recycle", o)' # {} \/ mem'[o] # "free" =>
                  o \in allocated'
  BY <1>1, <1>2, CreateTakesFree DEF FreelistSound
<1> QED
  BY <1>3, CreateTakesFree DEF FreelistSound

LEMMA CreateGuardedKeeps ==
  ASSUME IndInv, TypeOK', NEW t \in Threads, NEW p \in Objects, CreateGuarded(t, p)
  PROVE  IndInv'
<1> USE DEF IndInv, StateInv
<1>1. /\ pc[t] = "idle" /\ pc'[t] = "protectNew" /\ loc'[t].ptr = p
      /\ loc'[t].then = "idle" /\ OthersStay(t)
      /\ Create(p) /\ UNCHANGED <<cell, held, count>>
      /\ mem'[p] = "private" /\ \A o \in Objects \ {p} : mem'[o] = mem[o]
  BY GotoMoves, CreateTyped DEF CreateGuarded, Idle, NoLoc, TypeOK
<1>2. /\ mem[p] = "free" /\ ~Protected(p)
      /\ About("protectNew", p) = {} /\ About("erase", p) = {}
      /\ Deleting(p) = {} /\ ~count[p].del
  <2>1. mem[p] = "free"
    BY <1>1, CreateTakesFree
  <2>2. ~Protected(p) /\ About("protectNew", p) = {}
    BY <2>1 DEF ProtectedExists
  <2>3. Deleting(p) = {} /\ ~count[p].del
    BY <2>1 DEF DeletionPending
  <2> QED
    BY <2>1, <2>2, <2>3 DEF Deleting
<1>3. CellsAreLive'
  BY <1>1, <1>2 DEF CellsAreLive, TypeOK, Pointers
<1>4. LocalsSet'
  BY <1>1, LocalsAfter
<1>5. FreelistSound'
  BY <1>1, FreelistAfterCreate
<1>6. ProtectedExists'
  <2>1. \A o \in Objects : /\ About("erase", o)' = About("erase", o)
                           /\ Protected(o)' <=> Protected(o)
                           /\ o # p =>
                                About("protectNew", o)' = About("protectNew", o)
    BY <1>1 DEF About, OthersStay, Protected
  <2>2. About("protectNew", p)' = About("protectNew", p) \cup {t}
    BY <1>1 DEF About, OthersStay
  <2>3. About("protectNew", p)' = {t}
    BY <1>2, <2>2
  <2> QED
    BY <1>1, <1>2, <2>1, <2>3 DEF ProtectedExists
<1>7. DeletionPending'
  <2>1. \A o : /\ Deleting(o)' = Deleting(o)
               /\ About("reset", o)' = About("reset", o)
    BY <1>1 DEF Deleting, About, OthersStay
  <2> QED
    BY <1>1, <1>2, <2>1 DEF DeletionPending
<1>8. CountsReferences'
  <2>1. \A o \in Objects :
          count'[o].refs - count[o].refs = Passing(t, o)' - Passing(t, o)
    BY <1>1 DEF Passing, TypeOK
  <2> QED
    BY <1>1, <2>1, CountsOfPassing
<1> QED
  BY <1>3, <1>4, <1>5, <1>6, <1>7, <1>8

(* The exchange of a shared pointer: the old object leaves it retired, the *)
(* new one, created for it or still unpublished, becomes live.             *)
LEMMA ExchangeKeeps ==
  ASSUME IndInv, TypeOK', NEW t \in Threads, NEW c \in Cells, NEW p \in Pointers,
         Exchange(t, c, p)
  PROVE  IndInv'
<1> USE DEF IndInv, StateInv
<1> SUFFICES ASSUME NEW old, old = cell[c]
             PROVE  IndInv'
  OBVIOUS
<1>1. /\ pc[t] = "idle" /\ old # p /\ old \in Pointers
      /\ cell'[c] = p /\ \A d \in Cells \ {c} : cell'[d] = cell[d]
      /\ \A o \in Objects : mem'[o] =
           IF o = p THEN "live" ELSE IF o = old THEN "retired" ELSE mem[o]
      /\ UNCHANGED held
      /\ \/ p = NoPtr /\ UNCHANGED memoryVars
         \/ p \in Objects /\ mem[p] = "free" /\ Create(p)
         \/ /\ p \in Objects /\ mem[p] = "private" /\ held[t][p] > 0
            /\ UNCHANGED memoryVars
  BY DEF Exchange, Idle, TypeOK, Pointers
<1>2. /\ OthersStay(t)
      /\ \/ old = NoPtr /\ pc'[t] = "idle" /\ UNCHANGED <<pc, loc>>
         \/ /\ old \in Objects /\ pc'[t] = "markDeletion"
            /\ loc'[t].ptr = old /\ loc'[t].then = "idle"
  <2>1. CASE old = NoPtr
    BY <1>1, <2>1 DEF Exchange, OthersStay
  <2>2. CASE old # NoPtr
    BY <1>1, <2>2, GotoMoves DEF Exchange, NoLoc, Pointers
  <2> QED
    BY <2>1, <2>2
<1>3. count' = count
  BY CreateTyped DEF Exchange, Pointers
<1>4. old \in Objects =>
        mem[old] = "live" /\ \A d \in Cells : cell[d] = old => d = c
  BY <1>1 DEF CellsAreLive
<1>5. p \in Objects => mem[p] \in {"free", "private"}
  BY <1>1
<1>6. CellsAreLive'
  <2> SUFFICES ASSUME NEW d \in Cells, NEW e \in Cells, cell'[d] # NoPtr
               PROVE  mem'[cell'[d]] = "live" /\ (cell'[e] = cell'[d] => d = e)
    BY DEF CellsAreLive
  <2>1. cell'[d] \in Objects /\ cell'[e] \in Pointers
    BY DEF TypeOK, Pointers
  <2>2. \A f \in Cells \ {c} : cell[f] # NoPtr =>
          mem[cell[f]] = "live" /\ cell[f] # old /\ cell[f] # p
    BY <1>1, <1>4, <1>5 DEF CellsAreLive, TypeOK, Pointers
  <2>3. CASE d = c
    BY <1>1, <2>1, <2>2, <2>3
  <2>4. CASE d # c
    BY <1>1, <2>1, <2>2, <2>4 DEF CellsAreLive
  <2> QED
    BY <2>3, <2>4
<1>7. LocalsSet'
  <2>1. CASE UNCHANGED <<pc, loc>>
    BY <2>1 DEF LocalsSet
  <2>2. CASE /\ old \in Objects /\ pc'[t] = "markDeletion"
             /\ loc'[t].ptr = old /\ loc'[t].then = "idle"
    BY <1>2, <2>2, LocalsAfter
  <2> QED
    BY <1>2, <2>1, <2>2
<1>8. \A step \in {"erase", "protectNew", "recycle", "reset"} : \A o :
        About(step, o)' = About(step, o)
  BY <1>1, <1>2 DEF About, OthersStay
<1>9. p \in Objects => /\ Deleting(p) = {} /\ ~count[p].del
                       /\ About("protectNew", p) = {}
  <2> SUFFICES ASSUME p \in Objects
               PROVE  /\ Deleting(p) = {} /\ ~count[p].del
                      /\ About("protectNew", p) = {}
    OBVIOUS
  <2>1. Deleting(p) = {} /\ ~count[p].del
    BY <1>5 DEF DeletionPending
  <2>2. mem[p] = "private" => Protected(p)
    BY <1>1 DEF Protected
  <2>3. About("protectNew", p) = {}
    BY <1>5, <2>2 DEF ProtectedExists
  <2> QED
    BY <2>1, <2>3
<1>10. ProtectedExists'
  <2> SUFFICES ASSUME NEW o \in Objects
               PROVE  /\ Protected(o)' => mem'[o] # "free" /\ About("erase", o)' = {}
                      /\ \A u \in About("protectNew", o)' :
                           /\ mem'[o] = "private" /\ ~Protected(o)'
                           /\ About("protectNew", o)' = {u}
    BY DEF ProtectedExists
  <2>1. Protected(o)' <=> Protected(o)
    BY <1>1 DEF Protected
  <2>2. CASE o = p
    BY <1>1, <1>8, <1>9, <2>2 DEF Deleting
  <2>3. CASE o = old /\ o # p
    <3>1. About("protectNew", o) = {} /\ About("erase", o) = {}
      BY <1>4, <2>3 DEF ProtectedExists, DeletionPending, Deleting
    <3> QED
      BY <1>1, <1>8, <2>3, <3>1
  <2>4. CASE o # old /\ o # p
    BY <1>1, <1>8, <2>1, <2>4 DEF ProtectedExists
  <2> QED
    BY <2>2, <2>3, <2>4
<1>11. DeletionPending'
  <2> SUFFICES ASSUME NEW o \in Objects
               PROVE  /\ mem'[o] = "retired" <=> count'[o].del \/ Deleting(o)' # {}
                      /\ \A u \in Deleting(o)' :
                           ~count'[o].del /\ Deleting(o)' = {u}
                      /\ count'[o].del /\ count'[o].refs = 0 =>
                           About("reset", o)' # {}
    BY DEF DeletionPending
  <2>1. CASE o = old
    <3>1. ~count[o].del /\ Deleting(o) = {} /\ o # p
      BY <1>1, <1>4, <2>1 DEF DeletionPending
    <3>2. Deleting(o)' = Deleting(o) \cup {t}
      BY <1>1, <1>2, <2>1 DEF Deleting, About, OthersStay, Pointers
    <3> QED
      BY <1>1, <1>3, <2>1, <3>1, <3>2
  <2>2. CASE o # old
    <3>1. Deleting(o)' = Deleting(o)
      BY <1>1, <1>2, <2>2 DEF Deleting, About, OthersStay
    <3>2. CASE o = p
      BY <1>1, <1>3, <1>9, <3>1, <3>2
    <3>3. CASE o # p
      BY <1>1, <1>3, <1>8, <2>2, <3>1, <3>3 DEF DeletionPending
    <3> QED
      BY <3>2, <3>3
  <2> QED
    BY <2>1, <2>2
<1>12. FreelistSound'
  <2>1. \A o \in Objects \ {p} : mem'[o] = "free" <=> mem[o] = "free"
    BY <1>1, <1>4
  <2>2. CASE p \in Objects /\ Create(p)
    BY <1>1, <1>2, <2>1, <2>2, FreelistAfterCreate
  <2>3. CASE UNCHANGED memoryVars /\ (p \in Objects => mem[p] # "free")
    <3>1. \A o \in Objects : mem'[o] = "free" <=> mem[o] = "free"
      BY <1>1, <2>1, <2>3
    <3> QED
      BY <1>8, <2>3, <3>1 DEF FreelistSound, OnFreelist, memoryVars
  <2> QED
    BY <1>1, <2>2, <2>3
<1>13. CountsReferences'
  <2>1. \A o : Passing(t, o) = 0 /\ Passing(t, o)' = 0
    BY <1>1, <1>2 DEF Passing
  <2>2. \A o \in Objects :
          count'[o].refs - count[o].refs = Passing(t, o)' - Passing(t, o)
    BY <1>3, <2>1 DEF TypeOK
  <2> QED
    BY <1>1, <1>2, <2>2, CountsOfPassing
<1> QED
  BY <1>6, <1>7, <1>10, <1>11, <1>12, <1>13

(* The invariant holds whatever the threads do.                            *)
LEMMA NextKeeps == IndInv /\ [Next]_vars => IndInv'
<1> SUFFICES ASSUME IndInv, [Next]_vars PROVE IndInv'
  OBVIOUS
<1>1. CASE UNCHANGED vars
  BY <1>1, StutterKeeps
<1>2. ASSUME NEW t \in Threads, Begin(t)
      PROVE  IndInv'
  <2>1. TypeOK'
    BY <1>2, BeginTypeOK
  <2>2. ASSUME NEW c \in Cells, ProtectLoad(t, c)
        PROVE  IndInv'
    BY <2>1, <2>2, ProtectLoadKeeps
  <2>3. ASSUME NEW c \in Cells, NEW p \in Pointers, Exchange(t, c, p)
        PROVE  IndInv'
    BY <2>1, <2>3, ExchangeKeeps
  <2>4. ASSUME NEW o \in Objects, ProtectRaw(t, o) \/ CreateGuarded(t, o) \/ Unprotect(t, o)
        PROVE  IndInv'
    BY <2>1, <2>4, ProtectRawKeeps, CreateGuardedKeeps, UnprotectKeeps
  <2> QED
    BY <1>2, <2>2, <2>3, <2>4 DEF Begin
<1>3. ASSUME NEW t \in Threads, Step(t)
      PROVE  IndInv'
  <2>1. TypeOK'
    BY <1>3, StepTypeOK
  <2> QED
    BY <1>3, <2>1, IncrementKeeps, ReloadKeeps, DecrementKeeps, AgainKeeps,
       ProtectNewKeeps, MarkDeletionKeeps, ResetKeeps, EraseKeeps, RecycleKeeps
       DEF Step
<1> QED
  BY <1>1, <1>2, <1>3 DEF Next

THEOREM IndInvHolds == Spec => []IndInv
BY InitIndInv, NextKeeps, PTL DEF Spec

(* The types, that a shared pointer leads to a live object, that what is   *)
(* protected has not been erased, that of the threads that touch a retired *)
(* object one is to erase it, and that freed memory is handed out once:    *)
(* all of StateInv, for any number of threads.                             *)
THEOREM StateInvHolds == Spec => []StateInv
<1>1. IndInv => StateInv
  BY DEF IndInv
<1> QED
  BY <1>1, IndInvHolds, PTL

(* _counter counts the protections of the object at its address and the    *)
(* threads of protect that have incremented it in vain and are still to    *)
(* decrement it, also when the object there is another one meanwhile.      *)
THEOREM CountsReferencesHolds == Spec => []CountsReferences
<1>1. IndInv => CountsReferences
  BY DEF IndInv
<1> QED
  BY <1>1, IndInvHolds, PTL

(* Each step is a step of SafeReclamation, or changes nothing there.       *)
LEMMA StepImplements ==
  ASSUME IndInv, [Next]_vars
  PROVE  [Contract!Next]_Contract!vars
<1> USE DEF IndInv, StateInv
<1>1. CASE UNCHANGED vars
  BY <1>1 DEF vars, clientVars, Contract!vars
<1>2. ASSUME NEW t \in Threads, NEW c \in Cells, ProtectLoad(t, c)
      PROVE  UNCHANGED Contract!vars
  BY <1>2 DEF ProtectLoad, clientVars, Contract!vars
<1>3. ASSUME NEW t \in Threads, NEW c \in Cells, NEW p \in Pointers, Exchange(t, c, p)
      PROVE  Contract!Next
  <2>1. Contract!Exchange(c, p)
    BY <1>3 DEF Exchange, Contract!Exchange
  <2> QED
    BY <2>1 DEF Contract!Next, Pointers
<1>4. ASSUME NEW t \in Threads, NEW o \in Objects,
             held[t][o] > 0 \/ mem[o] = "private" \/ \E c \in Cells : cell[c] = o,
             Hold(t, o), UNCHANGED <<cell, mem>>
      PROVE  Contract!Next
  <2>1. Contract!Protect(t, o)
    BY <1>4 DEF Hold, Contract!Protect
  <2> QED
    BY <2>1 DEF Contract!Next
<1>5. ASSUME NEW t \in Threads, NEW o \in Objects, ProtectRaw(t, o)
      PROVE  Contract!Next
  BY <1>4, <1>5 DEF ProtectRaw
<1>6. ASSUME NEW t \in Threads, NEW o \in Objects, CreateGuarded(t, o)
      PROVE  Contract!Next
  <2>1. mem[o] = "free"
    BY <1>6, CreateTakesFree DEF CreateGuarded
  <2>2. Contract!Create(t, o)
    BY <1>6, <2>1 DEF CreateGuarded, Contract!Create
  <2> QED
    BY <2>2 DEF Contract!Next
<1>7. ASSUME NEW t \in Threads, NEW o \in Objects, Unprotect(t, o)
      PROVE  Contract!Next
  <2>1. Contract!Unprotect(t, o)
    BY <1>7 DEF Unprotect, Contract!Unprotect
  <2> QED
    BY <2>1 DEF Contract!Next
<1>8. ASSUME NEW t \in Threads, Reload(t)
      PROVE  Contract!Next \/ UNCHANGED Contract!vars
  <2>1. loc[t].ptr \in Objects /\ loc[t].cell \in Cells
    BY <1>8 DEF Reload, LocalsSet
  <2>2. CASE StillThere(t) /\ Hold(t, loc[t].ptr)
    BY <1>4, <1>8, <2>1, <2>2 DEF Reload, StillThere
  <2>3. CASE UNCHANGED held
    BY <1>8, <2>3 DEF Reload, Contract!vars
  <2> QED
    BY <1>8, <2>2, <2>3 DEF Reload
<1>9. ASSUME NEW t \in Threads, ProtectNew(t)
      PROVE  Contract!Next
  <2>1. loc[t].ptr \in Objects /\ t \in About("protectNew", loc[t].ptr)
    BY <1>9 DEF ProtectNew, LocalsSet, About
  <2>2. mem[loc[t].ptr] = "private"
    BY <2>1 DEF ProtectedExists
  <2> QED
    BY <1>4, <1>9, <2>1, <2>2 DEF ProtectNew
<1>10. ASSUME NEW t \in Threads, Erase(t)
       PROVE  Contract!Next
  <2>1. loc[t].ptr \in Objects /\ t \in About("erase", loc[t].ptr)
    BY <1>10 DEF Erase, LocalsSet, About
  <2>2. mem[loc[t].ptr] = "retired" /\ ~Protected(loc[t].ptr)
    BY <2>1 DEF ProtectedExists, DeletionPending, Deleting
  <2>3. \A u \in Threads : held[u][loc[t].ptr] = 0
    BY <2>1, <2>2 DEF Protected, TypeOK
  <2>4. Contract!Destroy(loc[t].ptr)
    BY <1>10, <2>2, <2>3 DEF Erase, Contract!Destroy
  <2> QED
    BY <2>1, <2>4 DEF Contract!Next
<1>11. ASSUME NEW t \in Threads,
              \/ Increment(t) \/ Decrement(t) \/ Again(t)
              \/ MarkDeletion(t) \/ Reset(t) \/ Recycle(t)
       PROVE  UNCHANGED Contract!vars
  BY <1>11 DEF Increment, Decrement, Again, MarkDeletion, Reset, Recycle,
               clientVars, Contract!vars
<1> QED
  BY <1>1, <1>2, <1>3, <1>5, <1>6, <1>7, <1>8, <1>9, <1>10, <1>11
     DEF Next, Begin, Step

(* counting_manager keeps the promise of SafeReclamation: what protect and *)
(* protect_raw return is not erased before it is given back, and nothing   *)
(* is erased that is not retired.                                          *)
THEOREM ImplementsContractHolds == Spec => ImplementsContract
<1>1. Init => Contract!Init
  BY DEF Init, Contract!Init
<1>2. IndInv /\ [Next]_vars => [Contract!Next]_Contract!vars
  BY StepImplements
<1> QED
  BY <1>1, <1>2, IndInvHolds, PTL DEF Spec, ImplementsContract, Contract!Spec
==============================================================================
