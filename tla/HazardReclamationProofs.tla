----------------------- MODULE HazardReclamationProofs ------------------------
(***************************************************************************)
(* The promise of hazard_manager, for every number of threads, handles,    *)
(* slots, objects and shared pointers.  A retired object has one deleter,  *)
(* a thread on its way over the slots or a marked slot, whose owner will   *)
(* go on from there; and every thread that still protects the object has a *)
(* slot with it that lies ahead of that deleter.  So the one that reaches  *)
(* the end of the walk destroys an object that nobody protects.            *)
(***************************************************************************)
EXTENDS HazardReclamation, WellFoundedInduction, FiniteSetTheorems, TLAPS

USE MaxHandlesAssumption, MaxProtectionsAssumption

------------------------------------------------------------------------------
(* The handle table, for every number of entries and at most as many       *)
(* threads.  The argument for get_handle is a count: at most               *)
(* MaxHandles - k threads are at entry k or beyond.  A thread that passes  *)
(* an entry over was counted at that entry together with the entry's       *)
(* owner, who stays behind.                                                *)

LEMMA CountAtOrBeyond ==
  ASSUME NEW k
  PROVE  /\ IsFiniteSet(AtOrBeyond(k)) /\ Cardinality(AtOrBeyond(k)) \in Nat
         /\ Cardinality(Threads) \in Nat
         /\ Cardinality(AtOrBeyond(k)) <= Cardinality(Threads)
<1>1. AtOrBeyond(k) \in SUBSET Threads
  BY DEF AtOrBeyond
<1> QED
  BY <1>1, FS_Subset, FS_CardinalityType

LEMMA NoSmallerSet ==
  ASSUME NEW S, IsFiniteSet(S), NEW T \in SUBSET S, NEW b \in Int,
         Cardinality(S) <= b
  PROVE  Cardinality(T) <= b
BY FS_Subset, FS_CardinalityType

LEMMA InitTableInv == TableInit => TableInv
<1> SUFFICES ASSUME TableInit PROVE TableInv
  OBVIOUS
<1>1. \A k : AtOrBeyond(k) = {}
  BY DEF TableInit, AtOrBeyond
<1>2. RoomAhead
  BY <1>1, FS_EmptySet DEF RoomAhead
<1> QED
  BY <1>2 DEF TableInit, TableInv, TableTypeOK, ExclusiveHandles, OwnsEntry,
       ScansCoverHandles, UsedInOrder, Ids

LEMMA GetHandleTableInv ==
  ASSUME TableInv, NEW t \in Threads, GetHandle(t)
  PROVE  TableInv'
<1> USE DEF TableInv
<1>1. /\ hpc[t] = "none" /\ hpc' = [hpc EXCEPT ![t] = "look"]
      /\ at' = [at EXCEPT ![t] = 0] /\ UNCHANGED <<handles, handleCounter>>
  BY DEF GetHandle
<1>2. TableTypeOK'
  BY <1>1 DEF TableTypeOK
<1>3. \A u \in Threads, i \in Ids : OwnsEntry(u, i)' <=> OwnsEntry(u, i)
  BY <1>1 DEF OwnsEntry, TableTypeOK
<1>4. ExclusiveHandles'
  BY <1>1, <1>3 DEF ExclusiveHandles
<1>5. ScansCoverHandles' /\ UsedInOrder'
  BY <1>1 DEF ScansCoverHandles, UsedInOrder, TableTypeOK, Ids
<1>6. RoomAhead'
  <2> SUFFICES ASSUME NEW k \in 0 .. MaxHandles
               PROVE  Cardinality(AtOrBeyond(k)') <= MaxHandles - k
    BY DEF RoomAhead
  <2>1. CASE k = 0
    <3>1. AtOrBeyond(k)' \in SUBSET Threads
      BY DEF AtOrBeyond
    <3> QED
      BY <2>1, <3>1, FS_Subset, FS_CardinalityType
  <2>2. CASE k > 0
    <3>1. AtOrBeyond(k)' = AtOrBeyond(k)
      BY <1>1, <2>2 DEF AtOrBeyond, TableTypeOK
    <3> QED
      BY <3>1 DEF RoomAhead
  <2> QED
    BY <2>1, <2>2
<1> QED
  BY <1>1, <1>2, <1>4, <1>5, <1>6

LEMMA TakeTableInv ==
  ASSUME TableInv, NEW t \in Threads, Take(t)
  PROVE  TableInv'
<1> DEFINE n == at[t]
<1> USE DEF TableInv
<1>1. /\ hpc[t] = "look" /\ n \in Ids /\ handles[n] # "active"
      /\ handles' = [handles EXCEPT ![n] = "active"]
      /\ hpc' = [hpc EXCEPT ![t] = IF handles[n] = "null" THEN "raise" ELSE "has"]
      /\ UNCHANGED <<handleCounter, at>>
  BY DEF Take, Free, TableTypeOK, Ids
<1>2. TableTypeOK'
  BY <1>1 DEF TableTypeOK
<1>3. \A u \in Threads, i \in Ids :
        OwnsEntry(u, i)' <=> OwnsEntry(u, i) \/ (u = t /\ i = n)
  BY <1>1 DEF OwnsEntry, TableTypeOK
<1>4. \A u \in Threads : ~OwnsEntry(u, n)
  BY <1>1 DEF ExclusiveHandles
<1>5. \A i \in Ids : handles'[i] = IF i = n THEN "active" ELSE handles[i]
  BY <1>1 DEF TableTypeOK
<1>6. ExclusiveHandles'
  <2>1. \A i \in Ids :
          handles'[i] = "active" <=> \E u \in Threads : OwnsEntry(u, i)'
    BY <1>1, <1>3, <1>5 DEF ExclusiveHandles
  <2>2. \A i \in Ids : \A u, v \in Threads :
          OwnsEntry(u, i)' /\ OwnsEntry(v, i)' => u = v
    BY <1>1, <1>3, <1>4 DEF ExclusiveHandles
  <2> QED
    BY <2>1, <2>2 DEF ExclusiveHandles
<1>7. ScansCoverHandles'
  <2>1. hpc'[t] = "has" => handles[n] = "marked"
    BY <1>1 DEF TableTypeOK
  <2> QED
    BY <1>1, <1>5, <2>1 DEF ScansCoverHandles, TableTypeOK
<1>8. UsedInOrder'
  <2>1. \A u \in Threads : hpc'[u] # "none" => hpc[u] # "none"
    BY <1>1 DEF TableTypeOK
  <2> QED
    BY <1>1, <1>5, <2>1 DEF UsedInOrder
<1>9. RoomAhead'
  <2>1. \A k : AtOrBeyond(k)' = AtOrBeyond(k)
    BY <1>1 DEF AtOrBeyond, TableTypeOK
  <2> QED
    BY <2>1 DEF RoomAhead
<1> QED
  BY <1>1, <1>2, <1>5, <1>6, <1>7, <1>8, <1>9

LEMMA PassOverTableInv ==
  ASSUME TableInv, NEW t \in Threads, PassOver(t)
  PROVE  TableInv'
<1> DEFINE n == at[t]
<1> USE DEF TableInv
<1>1. /\ hpc[t] = "look" /\ n \in Ids /\ n + 1 \in 0 .. MaxHandles
      /\ handles[n] = "active" /\ at' = [at EXCEPT ![t] = n + 1]
      /\ UNCHANGED <<handles, handleCounter, hpc>>
  BY DEF PassOver, Free, NextEntry, TableTypeOK, Ids
<1>2. TableTypeOK'
  BY <1>1 DEF TableTypeOK
<1>3. \A u \in Threads, i \in Ids : OwnsEntry(u, i)' <=> OwnsEntry(u, i)
  BY <1>1 DEF OwnsEntry, TableTypeOK
<1>4. ExclusiveHandles'
  BY <1>1, <1>3 DEF ExclusiveHandles
<1>5. ScansCoverHandles'
  BY <1>1 DEF ScansCoverHandles, TableTypeOK
<1>6. UsedInOrder'
  BY <1>1 DEF UsedInOrder, TableTypeOK, Ids
<1>7. RoomAhead'
  <2>1. PICK o \in Threads : OwnsEntry(o, n)
    BY <1>1 DEF ExclusiveHandles
  <2>2. o # t /\ hpc[o] # "none" /\ at[o] = n /\ at'[o] = n
    BY <1>1, <2>1 DEF OwnsEntry, TableTypeOK
  <2> SUFFICES ASSUME NEW k \in 0 .. MaxHandles
               PROVE  Cardinality(AtOrBeyond(k)') <= MaxHandles - k
    BY DEF RoomAhead
  <2>3. CASE k # n + 1
    <3>1. AtOrBeyond(k)' = AtOrBeyond(k)
      BY <1>1, <2>3 DEF AtOrBeyond, TableTypeOK, Ids
    <3> QED
      BY <3>1 DEF RoomAhead
  <2>4. CASE k = n + 1
    <3>1. o \in AtOrBeyond(n)
      BY <1>1, <2>2 DEF AtOrBeyond, Ids
    <3>2. AtOrBeyond(k)' \in SUBSET (AtOrBeyond(n) \ {o})
      BY <1>1, <2>2, <2>4 DEF AtOrBeyond, TableTypeOK, Ids
    <3>3. /\ IsFiniteSet(AtOrBeyond(n) \ {o})
          /\ Cardinality(AtOrBeyond(n) \ {o}) = Cardinality(AtOrBeyond(n)) - 1
      BY <3>1, CountAtOrBeyond, FS_RemoveElement
    <3>4. Cardinality(AtOrBeyond(n)) <= MaxHandles - n
      BY <1>1 DEF RoomAhead, Ids
    <3>5. Cardinality(AtOrBeyond(n)) \in Nat /\ n \in Nat
      BY <1>1, CountAtOrBeyond DEF Ids
    <3>6. Cardinality(AtOrBeyond(n) \ {o}) <= MaxHandles - k
      BY <2>4, <3>3, <3>4, <3>5
    <3>7. MaxHandles - k \in Int
      OBVIOUS
    <3> HIDE DEF n
    <3> QED
      BY <3>2, <3>3, <3>6, <3>7, NoSmallerSet
  <2> QED
    BY <2>3, <2>4
<1> QED
  BY <1>1, <1>2, <1>4, <1>5, <1>6, <1>7

LEMMA RaiseTableInv ==
  ASSUME TableInv, NEW t \in Threads, Raise(t)
  PROVE  TableInv'
<1> USE DEF TableInv
<1>1. /\ hpc[t] = "raise" /\ hpc' = [hpc EXCEPT ![t] = "has"]
      /\ handleCounter' = Raised(at[t]) /\ UNCHANGED <<handles, at>>
  BY DEF Raise
<1>2. at[t] \in Ids
  <2>1. at[t] \in 0 .. MaxHandles
    BY DEF TableTypeOK
  <2>2. CASE at[t] = MaxHandles
    <3>1. t \in AtOrBeyond(MaxHandles)
      BY <1>1, <2>2 DEF AtOrBeyond
    <3>2. Cardinality(AtOrBeyond(MaxHandles)) <= 0
      BY DEF RoomAhead
    <3>3. AtOrBeyond(MaxHandles) = {}
      BY <3>2, CountAtOrBeyond, FS_EmptySet
    <3> QED
      BY <3>1, <3>3
  <2> QED
    BY <2>1, <2>2 DEF Ids
<1>3. OwnsEntry(t, at[t]) /\ handles[at[t]] = "active"
  BY <1>1, <1>2 DEF OwnsEntry, ExclusiveHandles
<1>4. TableTypeOK'
  BY <1>1, <1>2 DEF TableTypeOK, Raised
<1>5. \A u \in Threads, i \in Ids : OwnsEntry(u, i)' <=> OwnsEntry(u, i)
  BY <1>1 DEF OwnsEntry, TableTypeOK
<1>6. ExclusiveHandles'
  BY <1>1, <1>5 DEF ExclusiveHandles
<1>7. handleCounter <= handleCounter' /\ at[t] <= handleCounter'
  BY <1>1, <1>2 DEF Raised, TableTypeOK, Ids
<1>8. ScansCoverHandles'
  <2>1. \A u \in Threads : hpc'[u] = "has" => at'[u] <= handleCounter'
    <3> SUFFICES ASSUME NEW u \in Threads, hpc'[u] = "has"
                 PROVE  at[u] <= handleCounter'
      BY <1>1
    <3>1. CASE u = t
      BY <1>7, <3>1
    <3>2. CASE u # t
      <4>1. at[u] <= handleCounter
        BY <1>1, <3>2 DEF ScansCoverHandles, TableTypeOK
      <4> QED
        BY <1>7, <4>1, <1>4 DEF TableTypeOK, Ids
    <3> QED
      BY <3>1, <3>2
  <2>2. \A i \in Ids : i <= handleCounter' => handles[i] # "null"
    <3> SUFFICES ASSUME NEW i \in Ids, i <= handleCounter'
                 PROVE  handles[i] # "null"
      OBVIOUS
    <3>1. CASE i <= handleCounter
      BY <3>1 DEF ScansCoverHandles
    <3>2. CASE ~(i <= handleCounter)
      <4>1. i <= at[t]
        BY <1>1, <1>2, <3>2 DEF Raised, TableTypeOK, Ids
      <4>2. CASE i = at[t]
        BY <1>3, <4>2
      <4>3. CASE i < at[t]
        BY <1>1, <4>3 DEF UsedInOrder
      <4> QED
        BY <1>2, <4>1, <4>2, <4>3 DEF Ids
    <3> QED
      BY <3>1, <3>2
  <2> QED
    BY <1>1, <2>1, <2>2 DEF ScansCoverHandles
<1>9. UsedInOrder'
  BY <1>1 DEF UsedInOrder, TableTypeOK
<1>10. RoomAhead'
  <2>1. \A k : AtOrBeyond(k)' = AtOrBeyond(k)
    BY <1>1 DEF AtOrBeyond, TableTypeOK
  <2> QED
    BY <2>1 DEF RoomAhead
<1>11. \A i \in Ids : handles'[i] = "marked" => i <= handleCounter'
  BY <1>1, <1>7, <1>4 DEF TableTypeOK, Ids
<1> QED
  BY <1>4, <1>6, <1>8, <1>9, <1>10, <1>11

LEMMA GiveBackTableInv ==
  ASSUME TableInv, NEW t \in Threads, GiveBack(t)
  PROVE  TableInv'
<1> DEFINE n == at[t]
<1> USE DEF TableInv
<1>1. /\ hpc[t] = "has" /\ hpc' = [hpc EXCEPT ![t] = "none"]
      /\ handles' = [handles EXCEPT ![n] = "marked"]
      /\ UNCHANGED <<handleCounter, at>>
  BY DEF GiveBack
<1>2. n \in Ids /\ n <= handleCounter
  BY <1>1 DEF ScansCoverHandles, TableTypeOK, Ids
<1>3. TableTypeOK'
  BY <1>1, <1>2 DEF TableTypeOK
<1>4. \A u \in Threads, i \in Ids : OwnsEntry(u, i)' <=> OwnsEntry(u, i) /\ u # t
  BY <1>1 DEF OwnsEntry, TableTypeOK
<1>5. \A i \in Ids : handles'[i] = IF i = n THEN "marked" ELSE handles[i]
  BY <1>1 DEF TableTypeOK
<1>6. OwnsEntry(t, n)
  BY <1>1 DEF OwnsEntry
<1>7. ExclusiveHandles'
  <2>1. \A i \in Ids :
          handles'[i] = "active" <=> \E u \in Threads : OwnsEntry(u, i)'
    <3> SUFFICES ASSUME NEW i \in Ids
                 PROVE  handles'[i] = "active" <=> \E u \in Threads : OwnsEntry(u, i)'
      OBVIOUS
    <3>1. CASE i = n
      BY <1>4, <1>5, <1>6, <3>1 DEF ExclusiveHandles
    <3>2. CASE i # n
      <4>1. ~OwnsEntry(t, i)
        BY <3>2 DEF OwnsEntry
      <4> QED
        BY <1>4, <1>5, <3>2, <4>1 DEF ExclusiveHandles
    <3> QED
      BY <3>1, <3>2
  <2>2. \A i \in Ids : \A u, v \in Threads :
          OwnsEntry(u, i)' /\ OwnsEntry(v, i)' => u = v
    BY <1>4 DEF ExclusiveHandles
  <2> QED
    BY <2>1, <2>2 DEF ExclusiveHandles
<1>8. \A u \in Threads : hpc'[u] # "none" => hpc[u] = hpc'[u]
  BY <1>1 DEF TableTypeOK
<1>9. ScansCoverHandles'
  BY <1>1, <1>5, <1>8 DEF ScansCoverHandles
<1>10. UsedInOrder'
  BY <1>1, <1>5, <1>8 DEF UsedInOrder
<1>11. RoomAhead'
  <2> SUFFICES ASSUME NEW k \in 0 .. MaxHandles
               PROVE  Cardinality(AtOrBeyond(k)') <= MaxHandles - k
    BY DEF RoomAhead
  <2>1. AtOrBeyond(k)' \in SUBSET AtOrBeyond(k)
    BY <1>1, <1>8 DEF AtOrBeyond
  <2>2. Cardinality(AtOrBeyond(k)) <= MaxHandles - k
    BY DEF RoomAhead
  <2> QED
    BY <2>1, <2>2, CountAtOrBeyond, NoSmallerSet
<1> QED
  BY <1>1, <1>2, <1>3, <1>5, <1>7, <1>9, <1>10, <1>11

(* The invariant of the table, for every number of entries and threads.    *)
THEOREM TableInvariant == TableSpec => []TableInv
<1>1. TableInv /\ [TableNext]_tableVars => TableInv'
  <2> SUFFICES ASSUME TableInv, [TableNext]_tableVars PROVE TableInv'
    OBVIOUS
  <2>1. CASE TableNext
    BY <2>1, GetHandleTableInv, TakeTableInv, PassOverTableInv, RaiseTableInv,
       GiveBackTableInv DEF TableNext
  <2>2. CASE UNCHANGED tableVars
    BY <2>2 DEF tableVars, TableInv, TableTypeOK, ExclusiveHandles, OwnsEntry,
         ScansCoverHandles, RoomAhead, AtOrBeyond, UsedInOrder
  <2> QED
    BY <2>1, <2>2
<1> QED
  BY InitTableInv, <1>1, PTL DEF TableSpec

LEMMA TableInvFinds == TableInv => AlwaysFindsHandle
<1> SUFFICES ASSUME TableInv, NEW t \in Threads, hpc[t] = "look",
                    ~(at[t] < MaxHandles)
             PROVE  FALSE
  BY DEF AlwaysFindsHandle
<1>1. at[t] = MaxHandles
  BY DEF TableInv, TableTypeOK
<1>2. t \in AtOrBeyond(MaxHandles)
  BY <1>1 DEF AtOrBeyond
<1>3. Cardinality(AtOrBeyond(MaxHandles)) <= 0
  BY DEF TableInv, RoomAhead
<1>4. AtOrBeyond(MaxHandles) = {}
  BY <1>3, CountAtOrBeyond, FS_EmptySet
<1> QED
  BY <1>2, <1>4

(* get_handle never runs off the end of _handles, although it looks at     *)
(* each entry once while others come and go.                               *)
THEOREM NeverOutOfBounds == TableSpec => []AlwaysFindsHandle
BY TableInvariant, TableInvFinds, PTL

(* No two threads get the same handle.                                     *)
THEOREM HandlesAreExclusive == TableSpec => []ExclusiveHandles
<1>1. TableInv => ExclusiveHandles
  BY DEF TableInv
<1> QED
  BY TableInvariant, <1>1, PTL

(* A scan that starts at _handle_counter covers every handle in use and    *)
(* never dereferences a null entry.                                        *)
THEOREM ScansAreComplete == TableSpec => []ScansCoverHandles
<1>1. TableInv => ScansCoverHandles
  BY DEF TableInv
<1> QED
  BY TableInvariant, <1>1, PTL

(* The three together: every thread gets an entry, owns it alone, and is   *)
(* reached by the scans of get_handle's callers.                           *)
THEOREM TableIsSafe == TableSpec => []HandlesSafe
<1>1. TableInv => HandlesSafe
  BY TableInvFinds DEF TableInv, HandlesSafe
<1> QED
  BY TableInvariant, <1>1, PTL

------------------------------------------------------------------------------
(* The slots.                                                              *)

PcType == {"idle", "insertCount", "insertStore", "reload", "replace", "replaced",
           "removeTop", "moveDown", "dropTop", "clearTop", "moveMark",
           "safeDelete", "markHandle", "markSlot", "dropSlots"}
LocType == [ptr : Pointers, pos : Positions \cup {-1}, new : Pointers,
            last : SlotType, marked : BOOLEAN, h : Ids \cup {-1}, i : Positions,
            cell : Cells \cup {NoPtr}, then : {"idle", "replaced", "dropSlots"}]

(* The deleters of an object one thread at a time: the thread itself or a  *)
(* marked slot of its handle, and how far its walk has come.               *)
OwnMarked(t, i, o) ==
  /\ hpc[t] = "has" /\ slot[Me(t)][i] = Slot(o, TRUE)
  /\ ~(/\ pc[t] \in {"dropTop", "clearTop"} /\ i = TopCopy(t)
       /\ slot[Me(t)][loc[t].pos] = slot[Me(t)][i])

Deletes(t, o) ==
  Walking(t, o) \/ MarkInHand(t, o) \/ \E i \in Positions : OwnMarked(t, i, o)

InOnePlace(t, o) ==
  /\ Walking(t, o) => ~MarkInHand(t, o)
  /\ \A i, j \in Positions : OwnMarked(t, i, o) =>
       ~Walking(t, o) /\ ~MarkInHand(t, o) /\ (OwnMarked(t, j, o) => i = j)

OnePerThread == \A o \in Objects :
  /\ mem[o] = "retired" <=> \E t \in Threads : Deletes(t, o)
  /\ \A t, u \in Threads : Deletes(t, o) /\ Deletes(u, o) => t = u
  /\ \A t \in Threads : InOnePlace(t, o)

AheadOf(t, o, h, i) ==
  /\ Walking(t, o) =>
       /\ pc[t] = "markHandle" => h <= loc[t].h
       /\ pc[t] = "markSlot" => UpTo(h, i, loc[t].h, loc[t].i)
       /\ Moving(t) => UpTo(h, i, Me(t), loc[t].pos)
  /\ MarkInHand(t, o) => UpTo(h, i, Me(t), loc[t].pos)
  /\ \A j \in Positions : OwnMarked(t, j, o) => UpTo(h, i, Me(t), j)

AheadOfAll == \A t \in Threads, o \in Objects : held[t][o] > 0 =>
  \E i \in Copies(t, o) : \A u \in Threads : AheadOf(u, o, Me(t), i)

(* The invariant in these terms.                                           *)
Inv ==
  /\ TableInv /\ TypeOK /\ HandlesInOrder /\ CellsAreLive
  /\ ProtectionsAnnounced /\ ProtectedExists /\ OnePerThread /\ AheadOfAll

(* What a step of one thread does to its place and its locals.             *)
OthersStay(t) ==
  \A u \in Threads \ {t} : pc'[u] = pc[u] /\ loc'[u] = loc[u]

LEMMA GotoMoves ==
  ASSUME TypeOK, NEW t \in Threads, NEW next, NEW l, Goto(t, next, l)
  PROVE  pc'[t] = next /\ loc'[t] = l /\ OthersStay(t)
BY DEF Goto, TypeOK, OthersStay

LEMMA ReturnMoves ==
  ASSUME TypeOK, NEW t \in Threads, Return(t)
  PROVE  pc'[t] = "idle" /\ loc'[t] = NoLoc /\ OthersStay(t)
BY GotoMoves DEF Return

LEMMA NoLocTyped ==
  ASSUME NEW t \in Threads
  PROVE  /\ 0 \in Ids /\ 0 \in Positions
         /\ NoLoc \in LocType
<1>1. MaxHandles >= 1
  <2>1. Cardinality(Threads) \in Nat /\ Cardinality(Threads) # 0
    BY FS_CardinalityType, FS_EmptySet
  <2> QED
    BY <2>1
<1> QED
  BY <1>1 DEF Ids, Positions, NoLoc, LocType, Pointers, NoSlot, SlotType, Slot

(* A thread with a handle owns it alone, and every walk starts beyond it.  *)
LEMMA OwnHandle ==
  ASSUME TableInv, NEW t \in Threads, hpc[t] = "has"
  PROVE  /\ Me(t) \in Ids /\ Me(t) <= handleCounter
         /\ handles[Me(t)] = "active"
         /\ \A u \in Threads : hpc[u] = "has" /\ Me(u) = Me(t) => u = t
<1>1. Me(t) \in Ids /\ Me(t) <= handleCounter
  BY DEF TableInv, ScansCoverHandles, TableTypeOK, Ids, Me
<1> QED
  BY <1>1 DEF TableInv, ExclusiveHandles, OwnsEntry, Me

LEMMA OwnHandleNext ==
  ASSUME TableInv', NEW t \in Threads, hpc'[t] = "has"
  PROVE  /\ Me(t)' \in Ids
         /\ \A u \in Threads : hpc'[u] = "has" /\ Me(u)' = Me(t)' => u = t
<1>1. Me(t)' \in Ids
  BY DEF TableInv, ScansCoverHandles, TableTypeOK, Ids, Me
<1> QED
  BY <1>1 DEF TableInv, ExclusiveHandles, OwnsEntry, Me

LEMMA InitIndInv == Init => IndInv
<1> SUFFICES ASSUME Init PROVE IndInv
  OBVIOUS
<1>1. TableInv
  BY InitTableInv DEF Init
<1>2. \A t \in Threads : NoLoc \in LocType
  BY NoLocTyped
<1>3. TypeOK
  BY <1>1, <1>2 DEF Init, TypeOK, TableInv, Pointers, SlotType, NoSlot, Slot, LocType
<1>4. HandlesInOrder
  BY DEF Init, TableInit, HandlesInOrder, LocalsFit, NoLoc, NoSlot, Slot
<1>5. CellsAreLive /\ ProtectionsAnnounced /\ ProtectedExists /\ ProtectionsAhead
  BY DEF Init, CellsAreLive, ProtectionsAnnounced, ProtectedExists, Protected,
         Inserting, ProtectionsAhead
<1>6. OneDeleter
  <2>1. \A t \in Threads, o \in Objects : ~Walking(t, o) /\ ~MarkInHand(t, o)
    BY DEF Init, Walking, MarkInHand, NoLoc
  <2>2. \A h \in Ids, i \in Positions, o \in Objects : ~Marked(h, i, o)
    BY DEF Init, Marked, NoSlot, Slot
  <2> QED
    BY <2>1, <2>2 DEF OneDeleter, HasDeleter, Init
<1> QED
  BY <1>1, <1>3, <1>4, <1>5, <1>6 DEF IndInv, StateInv

(* Types.                                                                  *)
LEMMA GotoTyped ==
  ASSUME TypeOK, NEW t \in Threads, NEW next \in PcType, NEW l \in LocType,
         Goto(t, next, l)
  PROVE  pc' \in [Threads -> PcType] /\ loc' \in [Threads -> LocType]
BY DEF TypeOK, PcType, LocType, Goto

LEMMA GoOnTyped ==
  ASSUME TypeOK, NEW t \in Threads, NEW l \in LocType, GoOn(t, l)
  PROVE  pc' \in [Threads -> PcType] /\ loc' \in [Threads -> LocType]
<1>1. l.then \in PcType /\ "idle" \in PcType
  BY DEF LocType, PcType
<1> QED
  BY <1>1, NoLocTyped, GotoTyped DEF GoOn, Return

LEMMA ContinueIfTyped ==
  ASSUME TypeOK, NEW t \in Threads, NEW marked, NEW l \in LocType,
         NEW i \in Positions, Me(t) \in Ids, ContinueIf(marked, t, l, i)
  PROVE  pc' \in [Threads -> PcType] /\ loc' \in [Threads -> LocType]
<1>1. [l EXCEPT !.h = Me(t), !.i = i] \in LocType /\ "markSlot" \in PcType
  BY DEF LocType, PcType
<1> QED
  BY <1>1, GotoTyped, GoOnTyped DEF ContinueIf

LEMMA SetSlotGives ==
  ASSUME TypeOK, NEW h \in Ids, NEW i \in Positions, NEW s \in SlotType,
         SetSlot(h, i, s)
  PROVE  /\ slot' \in [Ids -> [Positions -> SlotType]]
         /\ slot'[h][i] = s
         /\ \A j \in Positions \ {i} : slot'[h][j] = slot[h][j]
         /\ \A g \in Ids \ {h} : slot'[g] = slot[g]
BY DEF TypeOK, SetSlot

LEMMA HoldGives ==
  ASSUME TypeOK, NEW t \in Threads, NEW o \in Objects, Hold(t, o)
  PROVE  /\ held' \in [Threads -> [Objects -> Nat]]
         /\ held'[t][o] = held[t][o] + 1
         /\ \A p \in Objects \ {o} : held'[t][p] = held[t][p]
         /\ \A u \in Threads \ {t} : held'[u] = held[u]
BY DEF TypeOK, Hold

(* What the invariant says of a thread that is in an operation.            *)
LEMMA InOperation ==
  ASSUME Inv, NEW t \in Threads, pc[t] # "idle"
  PROVE  /\ hpc[t] = "has" /\ LocalsFit(t) /\ SlotsInOrder(t)
         /\ Me(t) \in Ids /\ loc[t] \in LocType /\ counter[Me(t)] \in 0 .. MaxProtections
<1>1. hpc[t] = "has" /\ LocalsFit(t) /\ SlotsInOrder(t)
  BY DEF Inv, HandlesInOrder, LocalsFit
<1> QED
  BY <1>1, OwnHandle DEF Inv, TypeOK, LocType

(* A set of positions that is not empty has a highest one.                 *)
LEMMA HighestPosition ==
  ASSUME NEW S \in SUBSET Positions, S # {}
  PROVE  \E m \in S : \A k \in S : k <= m
<1> DEFINE R == {ss \in Nat \X Nat : ss[1] < ss[2]}
           T == {MaxProtections - k : k \in S}
<1>1. IsWellFoundedOn(R, Nat)
  BY NatLessThanWellFounded DEF OpToRel
<1>2. T \subseteq Nat /\ T # {}
  <2>1. \A k \in S : MaxProtections - k \in Nat
    BY DEF Positions
  <2> QED
    BY <2>1
<1>3. PICK x \in T : \A y \in T : ~(<<y, x>> \in R)
  <2> HIDE DEF T, R
  <2> QED
    BY <1>1, <1>2, WFMin
<1>4. \A y \in T : x <= y
  <2> SUFFICES ASSUME NEW y \in T PROVE x <= y
    OBVIOUS
  <2>1. x \in Nat /\ y \in Nat /\ ~(<<y, x>> \in R)
    BY <1>2, <1>3
  <2> QED
    BY <2>1
<1>5. PICK m \in S : x = MaxProtections - m
  OBVIOUS
<1>6. ASSUME NEW k \in S
      PROVE  k <= m
  <2>1. MaxProtections - k >= MaxProtections - m
    BY <1>4, <1>5
  <2> QED
    BY <2>1 DEF Positions
<1> QED
  BY <1>6

(* find returns the highest position with a pointer that is protected.     *)
LEMMA FindGives ==
  ASSUME Inv, NEW t \in Threads, Idle(t), NEW o \in Objects, held[t][o] > 0,
         NEW p, p = Find(Me(t), o)
  PROVE  /\ p \in Positions /\ p < counter[Me(t)] /\ slot[Me(t)][p].ptr = o
         /\ \A j \in Positions : p < j /\ j < counter[Me(t)] => slot[Me(t)][j].ptr # o
<1> USE DEF Inv
<1> DEFINE S == {i \in Positions : i < counter[Me(t)] /\ slot[Me(t)][i].ptr = o}
<1>1. /\ hpc[t] = "has" /\ Me(t) \in Ids /\ counter[Me(t)] \in 0 .. MaxProtections
      /\ loc[t] = NoLoc
  BY OwnHandle DEF Idle, TypeOK, HandlesInOrder, LocalsFit
<1>2. S # {}
  <2>1. Copies(t, o) = S
    BY <1>1 DEF Copies, Given, Idle, Dropping, Tentative, NoLoc
  <2>2. held[t][o] <= Cardinality(Copies(t, o)) /\ held[t][o] \in Nat
    BY DEF ProtectionsAnnounced, TypeOK
  <2>3. S = {} => held[t][o] <= 0
    BY <2>1, <2>2, FS_EmptySet
  <2> HIDE DEF S
  <2> QED
    BY <2>2, <2>3
<1>3. \E i \in Positions :
        /\ i < counter[Me(t)] /\ slot[Me(t)][i].ptr = o
        /\ \A j \in Positions : i < j /\ j < counter[Me(t)] => slot[Me(t)][j].ptr # o
  <2>1. PICK m \in S : \A k \in S : k <= m
    BY <1>2, HighestPosition
  <2>2. \A j \in Positions : m < j => ~(j <= m)
    BY DEF Positions
  <2> QED
    BY <2>1, <2>2
<1> QED
  BY <1>3 DEF Find

LEMMA BeginTypeOK ==
  ASSUME Inv, NEW t \in Threads, Begin(t)
  PROVE  TypeOK'
<1> USE DEF Inv
<1>1. NoLoc \in LocType /\ {"insertCount", "safeDelete", "moveDown", "removeTop",
                            "dropSlots"} \subseteq PcType
  BY NoLocTyped DEF PcType
<1>2. \A x \in Pointers, c \in Cells \cup {NoPtr} :
        [NoLoc EXCEPT !.ptr = x, !.cell = c] \in LocType
  BY <1>1 DEF LocType
<1>3. \A x \in Pointers : [NoLoc EXCEPT !.ptr = x] \in LocType
  BY <1>1 DEF LocType
<1>4. ASSUME NEW c \in Cells, ProtectLoad(t, c)
      PROVE  TypeOK'
  <2>1. [NoLoc EXCEPT !.ptr = cell[c], !.cell = c] \in LocType
    BY <1>2 DEF TypeOK
  <2>2. pc' \in [Threads -> PcType] /\ loc' \in [Threads -> LocType]
    BY <1>1, <1>4, <2>1, GotoTyped DEF ProtectLoad
  <2> QED
    BY <1>4, <2>2
       DEF ProtectLoad, TypeOK, tableVars, clientVars, slotVars, TableTypeOK, PcType, LocType
<1>5. ASSUME NEW c \in Cells, NEW p \in Pointers, Exchange(t, c, p)
      PROVE  TypeOK'
  <2>1. pc' \in [Threads -> PcType] /\ loc' \in [Threads -> LocType]
    <3>1. CASE UNCHANGED <<pc, loc>>
      BY <3>1 DEF TypeOK, PcType, LocType
    <3>2. CASE Goto(t, "safeDelete", [NoLoc EXCEPT !.ptr = cell[c]])
      <4>1. [NoLoc EXCEPT !.ptr = cell[c]] \in LocType
        BY <1>3 DEF TypeOK
      <4> QED
        BY <1>1, <3>2, <4>1, GotoTyped
    <3> QED
      BY <1>5, <3>1, <3>2 DEF Exchange
  <2> QED
    BY <1>5, <2>1
       DEF Exchange, TypeOK, tableVars, slotVars, TableTypeOK, PcType, LocType
<1>6. ASSUME NEW o \in Objects, ProtectRaw(t, o) \/ ProtectNew(t, o)
      PROVE  TypeOK'
  <2>1. pc' \in [Threads -> PcType] /\ loc' \in [Threads -> LocType]
    BY <1>1, <1>3, <1>6, GotoTyped DEF ProtectRaw, ProtectNew, Pointers
  <2> QED
    BY <1>6, <2>1, ZenonT(60) DEF ProtectRaw, ProtectNew, TypeOK, tableVars, clientVars,
       slotVars, TableTypeOK, PcType, LocType
<1>7. ASSUME NEW o \in Objects, Unprotect(t, o)
      PROVE  TypeOK'
  <2> SUFFICES ASSUME NEW p, p = Find(Me(t), o)
               PROVE  TypeOK'
    OBVIOUS
  <2>1. p \in Positions /\ p < counter[Me(t)] /\ Me(t) \in Ids
        /\ counter[Me(t)] \in 0 .. MaxProtections
    BY <1>7, FindGives, OwnHandle DEF Unprotect, TypeOK, Idle
  <2>2. counter[Me(t)] - 1 \in Positions /\ counter[Me(t)] - 1 \in 0 .. MaxProtections
    BY <2>1 DEF Positions
  <2>3. [NoLoc EXCEPT !.ptr = o, !.pos = p, !.last = slot[Me(t)][counter[Me(t)] - 1]]
          \in LocType
    <3>1. slot[Me(t)][counter[Me(t)] - 1] \in SlotType
      BY <2>1, <2>2 DEF TypeOK
    <3> QED
      BY <1>1, <2>1, <3>1 DEF LocType, Pointers
  <2>4. pc' \in [Threads -> PcType] /\ loc' \in [Threads -> LocType]
    BY <1>1, <1>7, <2>3, GotoTyped DEF Unprotect
  <2>5. counter' \in [Ids -> 0 .. MaxProtections]
    BY <1>7, <2>1, <2>2 DEF Unprotect, TypeOK
  <2>6. held' \in [Threads -> [Objects -> Nat]]
    BY <1>7 DEF Unprotect, TypeOK
  <2> QED
    BY <1>7, <2>4, <2>5, <2>6
       DEF Unprotect, TypeOK, tableVars, TableTypeOK, PcType, LocType
<1>8. CASE DropHandle(t)
  <2>1. [NoLoc EXCEPT !.pos = TopPosition(Me(t))] \in LocType
    <3>1. counter[Me(t)] \in 0 .. MaxProtections
      BY <1>8, OwnHandle DEF DropHandle, Idle, TypeOK
    <3>2. TopPosition(Me(t)) \in Positions \cup {-1}
      BY <3>1 DEF TopPosition, Positions
    <3> QED
      BY <1>1, <3>2 DEF LocType
  <2>2. pc' \in [Threads -> PcType] /\ loc' \in [Threads -> LocType]
    BY <1>1, <1>8, <2>1, GotoTyped DEF DropHandle
  <2> QED
    BY <1>8, <2>2
       DEF DropHandle, TypeOK, tableVars, slotVars, TableTypeOK, PcType, LocType
<1> QED
  BY <1>4, <1>5, <1>6, <1>7, <1>8 DEF Begin

LEMMA StepTypeOK ==
  ASSUME Inv, NEW t \in Threads, Step(t)
  PROVE  TypeOK'
<1> USE DEF Inv
<1> DEFINE l == loc[t]
           n == counter[Me(t)]
           Locals == pc' \in [Threads -> PcType] /\ loc' \in [Threads -> LocType]
<1>1. pc[t] # "idle"
  BY DEF Step, InsertCount, InsertStore, Reload, Replace, Replaced, RemoveTop,
     MoveDown, DropTop, ClearTop, MoveMark, SafeDelete, MarkHandle, MarkSlot,
     Destroy, DropSlot, DropDone
<1>2. /\ LocalsFit(t) /\ SlotsInOrder(t) /\ Me(t) \in Ids /\ l \in LocType
      /\ n \in 0 .. MaxProtections
  BY <1>1, InOperation
<1>3. CASE InsertCount(t)
  <2>1. n < MaxProtections
    BY <1>2, <1>3 DEF InsertCount, SlotsInOrder, HasRoom
  <2>2. [l EXCEPT !.pos = n] \in LocType /\ n + 1 \in 0 .. MaxProtections
    BY <1>2, <2>1 DEF LocType, Positions
  <2>3. Locals
    BY <1>3, <2>2, GotoTyped DEF InsertCount, InsertPosition, PcType
  <2>4. counter' \in [Ids -> 0 .. MaxProtections]
    BY <1>2, <1>3, <2>2 DEF InsertCount, TypeOK
  <2> QED
    BY <1>3, <2>3, <2>4
       DEF InsertCount, TypeOK, tableVars, clientVars, TableTypeOK, PcType, LocType
<1>4. CASE InsertStore(t)
  <2>1. l.pos \in Positions /\ l.ptr \in Objects
    BY <1>2, <1>4 DEF InsertStore, SlotsInOrder, Tentative, LocalsFit
  <2>2. Slot(l.ptr, FALSE) \in SlotType
    BY <2>1 DEF Slot, SlotType, Pointers
  <2>3. slot' \in [Ids -> [Positions -> SlotType]]
    BY <1>2, <1>4, <2>1, <2>2, SetSlotGives DEF InsertStore
  <2>4. Locals /\ held' \in [Threads -> [Objects -> Nat]]
    BY <1>2, <1>4, <2>1, HoldGives, NoLocTyped, GotoTyped
       DEF InsertStore, Return, PcType, TypeOK
  <2> QED
    BY <1>4, <2>3, <2>4 DEF InsertStore, TypeOK, tableVars, TableTypeOK, PcType, LocType
<1>5. CASE Reload(t)
  <2>1. l.ptr \in Objects /\ l.cell \in Cells
    BY <1>2, <1>5 DEF Reload, LocalsFit
  <2>2. [l EXCEPT !.new = cell[l.cell]] \in LocType
    BY <1>2, <2>1 DEF LocType, TypeOK
  <2>3. Locals /\ held' \in [Threads -> [Objects -> Nat]]
    BY <1>2, <1>5, <2>1, <2>2, HoldGives, NoLocTyped, GotoTyped
       DEF Reload, Return, PcType, TypeOK
  <2> QED
    BY <1>5, <2>3
       DEF Reload, TypeOK, tableVars, slotVars, TableTypeOK, PcType, LocType
<1>6. CASE Replace(t)
  <2>1. l.pos \in Positions
    BY <1>2, <1>6 DEF Replace, SlotsInOrder, Tentative
  <2>2. Slot(l.new, FALSE) \in SlotType /\ [l EXCEPT !.then = "replaced"] \in LocType
    BY <1>2 DEF Slot, SlotType, LocType
  <2>3. slot' \in [Ids -> [Positions -> SlotType]]
    BY <1>2, <1>6, <2>1, <2>2, SetSlotGives DEF Replace
  <2>4. Locals
    BY <1>2, <1>6, <2>1, <2>2, ContinueIfTyped DEF Replace
  <2> QED
    BY <1>6, <2>3, <2>4
       DEF Replace, TypeOK, tableVars, clientVars, TableTypeOK, PcType, LocType
<1>7. CASE Replaced(t)
  <2>1. l.pos \in Positions /\ l.pos = n - 1 /\ l.cell \in Cells
    BY <1>2, <1>7
       DEF Replaced, SlotsInOrder, Tentative, LocalsFit, TopPosition
  <2>2. n - 1 \in 0 .. MaxProtections
    BY <1>2, <2>1 DEF Positions
  <2>3. l.new # NoPtr => l.new \in Objects
    BY <1>2 DEF LocType, Pointers
  <2>4. [l EXCEPT !.ptr = l.new, !.new = cell[l.cell]] \in LocType
    <3>1. l.new \in Pointers /\ cell[l.cell] \in Pointers
      BY <1>2, <2>1 DEF LocType, TypeOK
    <3> QED
      BY <1>2, <3>1 DEF LocType
  <2>5. Locals /\ held' \in [Threads -> [Objects -> Nat]]
    BY <1>7, <2>3, <2>4, HoldGives, NoLocTyped, GotoTyped
       DEF Replaced, Return, PcType, TypeOK
  <2>6. counter' \in [Ids -> 0 .. MaxProtections]
    BY <1>2, <1>7, <2>2 DEF Replaced, TypeOK
  <2> QED
    BY <1>7, <2>5, <2>6 DEF Replaced, TypeOK, tableVars, TableTypeOK, PcType, LocType
<1>8. CASE RemoveTop(t) \/ MoveDown(t) \/ MoveMark(t)
  <2>1. l.pos \in Positions /\ NoSlot \in SlotType /\ l.last \in SlotType
    BY <1>2, <1>8 DEF RemoveTop, MoveDown, MoveMark, SlotsInOrder, Moving,
       LocType, NoSlot, Slot, SlotType, Pointers
  <2>2. slot' \in [Ids -> [Positions -> SlotType]]
    BY <1>2, <1>8, <2>1, SetSlotGives DEF RemoveTop, MoveDown, MoveMark, MovedBack
  <2>3. slot[Me(t)][l.pos].mark \in BOOLEAN
    BY <1>2, <2>1 DEF TypeOK, SlotType
  <2>4. [l EXCEPT !.marked = slot[Me(t)][l.pos].mark] \in LocType
    BY <1>2, <2>3 DEF LocType
  <2>5. Locals
    BY <1>2, <1>8, <2>1, <2>4, GotoTyped, ContinueIfTyped
       DEF RemoveTop, MoveDown, MoveMark, PcType
  <2> QED
    BY <1>8, <2>2, <2>5 DEF RemoveTop, MoveDown, MoveMark, TypeOK, tableVars,
       clientVars, TableTypeOK, PcType, LocType
<1>9. CASE DropTop(t)
  <2>1. l.pos \in Positions /\ l.pos < n
    BY <1>2, <1>9 DEF DropTop, SlotsInOrder, Moving
  <2>2. n - 1 \in 0 .. MaxProtections
    BY <1>2, <2>1 DEF Positions
  <2>3. Locals
    BY <1>2, <1>9, GotoTyped DEF DropTop, PcType
  <2>4. counter' \in [Ids -> 0 .. MaxProtections]
    BY <1>2, <1>9, <2>2 DEF DropTop, TypeOK
  <2> QED
    BY <1>9, <2>3, <2>4
       DEF DropTop, TypeOK, tableVars, clientVars, TableTypeOK, PcType, LocType
<1>10. CASE ClearTop(t)
  <2>1. n \in Positions /\ NoSlot \in SlotType /\ l.pos \in Positions
    BY <1>2, <1>10 DEF ClearTop, SlotsInOrder, Moving, TopCopy, NoSlot, Slot,
       SlotType, Pointers
  <2>2. slot' \in [Ids -> [Positions -> SlotType]]
    BY <1>2, <1>10, <2>1, SetSlotGives DEF ClearTop
  <2>3. [l EXCEPT !.last = slot[Me(t)][n]] \in LocType
    <3>1. slot[Me(t)][n] \in SlotType
      BY <1>2, <2>1 DEF TypeOK
    <3> QED
      BY <1>2, <3>1 DEF LocType
  <2>4. Locals
    BY <1>2, <1>10, <2>1, <2>3, GotoTyped, ContinueIfTyped DEF ClearTop, PcType
  <2> QED
    BY <1>10, <2>2, <2>4
       DEF ClearTop, TypeOK, tableVars, clientVars, TableTypeOK, PcType, LocType
<1>11. CASE SafeDelete(t)
  <2>1. [l EXCEPT !.h = handleCounter] \in LocType
    BY <1>2 DEF LocType, TypeOK, TableTypeOK
  <2>2. Locals
    BY <1>11, <2>1, GotoTyped DEF SafeDelete, PcType
  <2> QED
    BY <1>11, <2>2 DEF SafeDelete, TypeOK, tableVars, clientVars, slotVars,
       TableTypeOK, PcType, LocType
<1>12. ASSUME NEW h \in Ids, NextHandle(t, h)
       PROVE  Locals
  <2>1. 0 \in Positions /\ h - 1 \in Ids \cup {-1}
    BY NoLocTyped DEF Ids
  <2>2. [l EXCEPT !.h = h - 1, !.i = 0] \in LocType
    BY <1>2, <2>1 DEF LocType
  <2> QED
    BY <1>12, <2>2, GotoTyped DEF NextHandle, PcType
<1>13. CASE MarkHandle(t)
  <2>1. l.h \in Ids
    BY <1>2, <1>13 DEF MarkHandle, LocType
  <2>2. TopPosition(l.h) >= 0 => TopPosition(l.h) \in Positions
    BY <2>1 DEF TypeOK, TopPosition, Positions
  <2>3. TopPosition(l.h) >= 0 => [l EXCEPT !.i = TopPosition(l.h)] \in LocType
    BY <1>2, <2>2 DEF LocType
  <2>4. TopPosition(l.h) < 0 \/ TopPosition(l.h) >= 0
    BY <2>1 DEF TypeOK, TopPosition
  <2>5. Locals
    BY <1>12, <1>13, <2>1, <2>3, <2>4, GotoTyped DEF MarkHandle, PcType
  <2> QED
    BY <1>13, <2>5 DEF MarkHandle, TypeOK, tableVars, clientVars, slotVars,
       TableTypeOK, PcType, LocType
<1>14. CASE MarkSlot(t)
  <2>1. l.h \in Ids /\ l.i \in Positions
    BY <1>2, <1>14 DEF MarkSlot, LocalsFit, LocType
  <2>2. Slot(l.ptr, TRUE) \in SlotType
    BY <1>2 DEF LocType, Slot, SlotType
  <2>3. slot' \in [Ids -> [Positions -> SlotType]]
    BY <1>14, <2>1, <2>2, SetSlotGives DEF MarkSlot, TypeOK
  <2>4. l.i # 0 => [l EXCEPT !.i = l.i - 1] \in LocType
    BY <1>2, <2>1 DEF LocType, Positions
  <2>5. Locals
    BY <1>2, <1>12, <1>14, <2>1, <2>4, GotoTyped, GoOnTyped DEF MarkSlot, PcType
  <2> QED
    BY <1>14, <2>3, <2>5
       DEF MarkSlot, TypeOK, tableVars, clientVars, TableTypeOK, PcType, LocType
<1>15. CASE Destroy(t)
  <2>1. Locals
    BY <1>2, <1>15, GoOnTyped DEF Destroy
  <2> QED
    BY <1>15, <2>1
       DEF Destroy, TypeOK, tableVars, slotVars, TableTypeOK, PcType, LocType
<1>16. CASE DropSlot(t)
  <2>1. l.pos \in Positions /\ NoSlot \in SlotType
    BY <1>2, <1>16 DEF DropSlot, LocType, NoSlot, Slot, SlotType, Pointers
  <2>2. slot' \in [Ids -> [Positions -> SlotType]]
    BY <1>2, <1>16, <2>1, SetSlotGives DEF DropSlot
  <2>3. slot[Me(t)][l.pos].ptr \in Pointers /\ l.pos - 1 \in Positions \cup {-1}
    BY <1>2, <2>1 DEF TypeOK, SlotType, Positions
  <2>4. [NoLoc EXCEPT !.ptr = slot[Me(t)][l.pos].ptr, !.pos = l.pos - 1,
                      !.then = "dropSlots"] \in LocType
    BY <2>3, NoLocTyped DEF LocType
  <2>5. Locals
    BY <1>2, <1>16, <2>1, <2>4, ContinueIfTyped DEF DropSlot
  <2> QED
    BY <1>16, <2>2, <2>5
       DEF DropSlot, TypeOK, tableVars, clientVars, TableTypeOK, PcType, LocType
<1>17. CASE DropDone(t)
  <2>1. Locals
    BY <1>17, NoLocTyped, GotoTyped DEF DropDone, Return, PcType
  <2>2. counter' \in [Ids -> 0 .. MaxProtections]
    BY <1>2, <1>17 DEF DropDone, TypeOK
  <2>3. TableTypeOK'
    BY <1>17, GiveBackTableInv DEF DropDone, TableInv
  <2> QED
    BY <1>17, <2>1, <2>2, <2>3 DEF DropDone, TypeOK, clientVars, PcType, LocType
<1> QED
  BY <1>3, <1>4, <1>5, <1>6, <1>7, <1>8, <1>9, <1>10, <1>11, <1>13, <1>14, <1>15,
     <1>16, <1>17 DEF Step

LEMMA OwnMarks ==
  ASSUME TableInv, HandlesInOrder, NEW h \in Ids, NEW i \in Positions, NEW o \in Objects
  PROVE  Marked(h, i, o) <=> \E t \in Threads : Me(t) = h /\ OwnMarked(t, i, o)
<1>1. ASSUME NEW t \in Threads, Me(t) = h, hpc[t] = "has"
      PROVE  Marked(h, i, o) <=> OwnMarked(t, i, o)
  <2>1. \A u \in Threads : Me(u) = h /\ hpc[u] = "has" => u = t
    BY <1>1, OwnHandle
  <2> QED
    BY <1>1, <2>1 DEF Marked, OwnMarked, IsUpperCopy
<1>2. ASSUME \A t \in Threads : ~(Me(t) = h /\ hpc[t] = "has")
      PROVE  ~Marked(h, i, o)
  <2>1. slot[h] = [j \in Positions |-> NoSlot]
    BY <1>2 DEF HandlesInOrder
  <2> QED
    BY <2>1 DEF Marked, NoSlot, Slot
<1> QED
  BY <1>1, <1>2 DEF OwnMarked

LEMMA MarksOwned ==
  ASSUME TableInv, HandlesInOrder, NEW o \in Objects, NEW t \in Threads,
         NEW i \in Positions, OwnMarked(t, i, o)
  PROVE  Me(t) \in Ids /\ Marked(Me(t), i, o)
BY OwnHandle, OwnMarks DEF OwnMarked

LEMMA DeletersPerThread ==
  TableInv /\ HandlesInOrder => (OneDeleter <=> OnePerThread)
<1> SUFFICES ASSUME TableInv, HandlesInOrder, NEW o \in Objects
             PROVE  /\ HasDeleter(o) <=> \E t \in Threads : Deletes(t, o)
                    /\ /\ \A t, u \in Threads :
                            /\ Walking(t, o) => ~MarkInHand(u, o) /\ (Walking(u, o) => t = u)
                            /\ MarkInHand(t, o) /\ MarkInHand(u, o) => t = u
                       /\ \A h, g \in Ids, i, j \in Positions : Marked(h, i, o) =>
                            /\ \A t \in Threads : ~Walking(t, o) /\ ~MarkInHand(t, o)
                            /\ Marked(g, j, o) => h = g /\ i = j
                       <=>
                       /\ \A t, u \in Threads : Deletes(t, o) /\ Deletes(u, o) => t = u
                       /\ \A t \in Threads : InOnePlace(t, o)
  BY DEF OneDeleter, OnePerThread
<1>1. \A h \in Ids, i \in Positions :
        Marked(h, i, o) => \E t \in Threads : Me(t) = h /\ OwnMarked(t, i, o)
  BY OwnMarks
<1>2. \A t \in Threads, i \in Positions :
        OwnMarked(t, i, o) => Me(t) \in Ids /\ Marked(Me(t), i, o)
  BY MarksOwned
<1>3. HasDeleter(o) <=> \E t \in Threads : Deletes(t, o)
  BY <1>1, <1>2 DEF HasDeleter, Deletes
<1>4. ASSUME \A t, u \in Threads :
               /\ Walking(t, o) => ~MarkInHand(u, o) /\ (Walking(u, o) => t = u)
               /\ MarkInHand(t, o) /\ MarkInHand(u, o) => t = u,
             \A h, g \in Ids, i, j \in Positions : Marked(h, i, o) =>
               /\ \A t \in Threads : ~Walking(t, o) /\ ~MarkInHand(t, o)
               /\ Marked(g, j, o) => h = g /\ i = j
      PROVE  /\ \A t, u \in Threads : Deletes(t, o) /\ Deletes(u, o) => t = u
             /\ \A t \in Threads : InOnePlace(t, o)
  <2>1. \A t, u \in Threads, i, j \in Positions :
          OwnMarked(t, i, o) /\ OwnMarked(u, j, o) => t = u /\ i = j
    <3> SUFFICES ASSUME NEW t \in Threads, NEW u \in Threads, NEW i \in Positions,
                        NEW j \in Positions, OwnMarked(t, i, o), OwnMarked(u, j, o)
                 PROVE  t = u /\ i = j
      OBVIOUS
    <3>1. Me(t) = Me(u) /\ i = j
      BY <1>2, <1>4
    <3> QED
      BY <3>1, OwnHandle DEF OwnMarked
  <2> QED
    BY <1>2, <1>4, <2>1 DEF Deletes, InOnePlace
<1>5. ASSUME \A t, u \in Threads : Deletes(t, o) /\ Deletes(u, o) => t = u,
             \A t \in Threads : InOnePlace(t, o)
      PROVE  /\ \A t, u \in Threads :
               /\ Walking(t, o) => ~MarkInHand(u, o) /\ (Walking(u, o) => t = u)
               /\ MarkInHand(t, o) /\ MarkInHand(u, o) => t = u
             /\ \A h, g \in Ids, i, j \in Positions : Marked(h, i, o) =>
               /\ \A t \in Threads : ~Walking(t, o) /\ ~MarkInHand(t, o)
               /\ Marked(g, j, o) => h = g /\ i = j
  <2>1. \A t, u \in Threads :
          /\ Walking(t, o) => ~MarkInHand(u, o) /\ (Walking(u, o) => t = u)
          /\ MarkInHand(t, o) /\ MarkInHand(u, o) => t = u
    BY <1>5 DEF Deletes, InOnePlace
  <2>2. ASSUME NEW h \in Ids, NEW i \in Positions, Marked(h, i, o)
        PROVE  /\ \A t \in Threads : ~Walking(t, o) /\ ~MarkInHand(t, o)
               /\ \A g \in Ids, j \in Positions : Marked(g, j, o) => h = g /\ i = j
    <3>1. PICK t \in Threads : Me(t) = h /\ OwnMarked(t, i, o)
      BY <1>1, <2>2
    <3>2. \A u \in Threads : Walking(u, o) \/ MarkInHand(u, o) => u = t
      BY <1>5, <3>1 DEF Deletes
    <3>3. \A u \in Threads, j \in Positions : OwnMarked(u, j, o) => u = t /\ j = i
      BY <1>5, <3>1 DEF Deletes, InOnePlace
    <3> QED
      BY <1>1, <1>5, <3>1, <3>2, <3>3 DEF InOnePlace
  <2> QED
    BY <2>1, <2>2
<1> QED
  BY <1>3, <1>4, <1>5

LEMMA AheadPerThread ==
  TableInv /\ HandlesInOrder => (ProtectionsAhead <=> AheadOfAll)
<1> SUFFICES ASSUME TableInv, HandlesInOrder, NEW o \in Objects, NEW h, NEW k
             PROVE  Ahead(o, h, k) <=> \A u \in Threads : AheadOf(u, o, h, k)
  BY DEF ProtectionsAhead, AheadOfAll
<1>1. \A g \in Ids, i \in Positions :
        Marked(g, i, o) => \E t \in Threads : Me(t) = g /\ OwnMarked(t, i, o)
  BY OwnMarks
<1>2. \A t \in Threads, i \in Positions :
        OwnMarked(t, i, o) => Me(t) \in Ids /\ Marked(Me(t), i, o)
  BY MarksOwned
<1> QED
  BY <1>1, <1>2 DEF Ahead, AheadOf

LEMMA InvIsIndInv == Inv <=> IndInv
BY DeletersPerThread, AheadPerThread DEF Inv, IndInv, StateInv

LEMMA InitInv == Init => Inv
BY InitIndInv, InvIsIndInv

(* A step that changes only the thread's own handle and locals.            *)
OwnStep(t) ==
  /\ OthersStay(t) /\ UNCHANGED tableVars
  /\ \A h \in Ids \ {Me(t)} : slot'[h] = slot[h] /\ counter'[h] = counter[h]

(* It leaves alone what the invariant says of the other threads.           *)
SameFor(u) ==
  /\ hpc'[u] = hpc[u] /\ Me(u)' = Me(u) /\ pc'[u] = pc[u] /\ loc'[u] = loc[u]
  /\ hpc[u] = "has" =>
       slot'[Me(u)] = slot[Me(u)] /\ counter'[Me(u)] = counter[Me(u)]

LEMMA OthersKeep ==
  ASSUME Inv, NEW t \in Threads, hpc[t] = "has", OwnStep(t),
         NEW u \in Threads \ {t}
  PROVE  SameFor(u) /\ (hpc[u] = "has" => Me(u) \in Ids \ {Me(t)})
<1>1. hpc'[u] = hpc[u] /\ Me(u)' = Me(u) /\ pc'[u] = pc[u] /\ loc'[u] = loc[u]
  BY DEF OwnStep, OthersStay, tableVars, Me
<1>2. ASSUME hpc[u] = "has"
      PROVE  /\ Me(u) \in Ids \ {Me(t)}
             /\ slot'[Me(u)] = slot[Me(u)] /\ counter'[Me(u)] = counter[Me(u)]
  BY <1>2, OwnHandle DEF OwnStep, Inv
<1> QED
  BY <1>1, <1>2 DEF SameFor

LEMMA OthersInOrder ==
  ASSUME Inv, NEW u \in Threads, SameFor(u)
  PROVE  /\ LocalsFit(u)'
         /\ hpc[u] = "has" => SlotsInOrder(u)'
<1>1. /\ hpc'[u] = hpc[u] /\ Me(u)' = Me(u) /\ pc'[u] = pc[u] /\ loc'[u] = loc[u]
      /\ hpc[u] = "has" =>
           slot'[Me(u)] = slot[Me(u)] /\ counter'[Me(u)] = counter[Me(u)]
  BY DEF SameFor
<1>2. LocalsFit(u)'
  BY <1>1 DEF Inv, HandlesInOrder, LocalsFit
<1>3. ASSUME hpc[u] = "has"
      PROVE  SlotsInOrder(u)'
  <2>1. SlotsInOrder(u)
    BY <1>3 DEF Inv, HandlesInOrder
  <2>2. /\ Tentative(u)' <=> Tentative(u)
        /\ Moving(u)' <=> Moving(u)
        /\ TopPosition(Me(u))' = TopPosition(Me(u))
        /\ TopCopy(u)' = TopCopy(u) /\ (HasRoom(u)' <=> HasRoom(u))
        /\ \A i \in Positions : Emptied(u, i)' <=> Emptied(u, i)
    BY <1>1, <1>3
       DEF Tentative, Moving, TopPosition, TopCopy, HasRoom, Emptied, Dropping
  <2> QED
    BY <1>1, <1>3, <2>1, <2>2, ZenonT(60) DEF SlotsInOrder
<1> QED
  BY <1>2, <1>3

LEMMA OthersAnnounce ==
  ASSUME Inv, NEW u \in Threads, SameFor(u), NEW o \in Objects
  PROVE  /\ hpc[u] = "has" => Copies(u, o)' = Copies(u, o)
         /\ Inserting(u, o)' <=> Inserting(u, o)
<1>1. /\ hpc'[u] = hpc[u] /\ Me(u)' = Me(u) /\ pc'[u] = pc[u] /\ loc'[u] = loc[u]
      /\ hpc[u] = "has" =>
           slot'[Me(u)] = slot[Me(u)] /\ counter'[Me(u)] = counter[Me(u)]
  BY DEF SameFor
<1>2. Inserting(u, o)' <=> Inserting(u, o)
  BY <1>1 DEF Inserting, IsRaw
<1>3. ASSUME hpc[u] = "has"
      PROVE  Copies(u, o)' = Copies(u, o)
  <2>1. /\ Tentative(u)' <=> Tentative(u)
        /\ TopCopy(u)' = TopCopy(u) /\ (Dropping(u)' <=> Dropping(u))
    BY <1>1, <1>3 DEF Tentative, TopPosition, TopCopy, Dropping
  <2>2. Given(u)' = Given(u)
    BY <1>1, <1>3, <2>1 DEF Given
  <2> QED
    BY <1>1, <1>3, <2>2 DEF Copies
<1> QED
  BY <1>2, <1>3

LEMMA OthersDelete ==
  ASSUME Inv, NEW u \in Threads, SameFor(u), NEW o \in Objects
  PROVE  /\ Walking(u, o)' <=> Walking(u, o)
         /\ Deletes(u, o)' <=> Deletes(u, o)
         /\ InOnePlace(u, o)' <=> InOnePlace(u, o)
         /\ \A h \in Ids, i \in Positions : AheadOf(u, o, h, i)' <=> AheadOf(u, o, h, i)
<1>1. /\ hpc'[u] = hpc[u] /\ Me(u)' = Me(u) /\ pc'[u] = pc[u] /\ loc'[u] = loc[u]
      /\ hpc[u] = "has" =>
           slot'[Me(u)] = slot[Me(u)] /\ counter'[Me(u)] = counter[Me(u)]
  BY DEF SameFor
<1>2. /\ Walking(u, o)' <=> Walking(u, o)
      /\ MarkInHand(u, o)' <=> MarkInHand(u, o)
      /\ Moving(u)' <=> Moving(u)
  BY <1>1 DEF Walking, MarkInHand, Moving
<1>3. \A i \in Positions : OwnMarked(u, i, o)' <=> OwnMarked(u, i, o)
  BY <1>1 DEF OwnMarked, TopCopy, TopPosition
<1> QED
  BY <1>1, <1>2, <1>3 DEF Deletes, InOnePlace, AheadOf, UpTo

(* So each part of the invariant only has to be shown for the thread that  *)
(* takes the step.                                                         *)
LEMMA TableKeeps ==
  ASSUME TableInv, UNCHANGED tableVars
  PROVE  TableInv'
BY DEF tableVars, TableInv, TableTypeOK, ExclusiveHandles, OwnsEntry,
       ScansCoverHandles, RoomAhead, AtOrBeyond, UsedInOrder

MarksOfObjects(h) ==
  \A i \in Positions : slot[h][i].mark => slot[h][i].ptr \in Objects

LEMMA HandlesKeep ==
  ASSUME Inv, NEW t \in Threads, hpc[t] = "has", OwnStep(t),
         LocalsFit(t)', SlotsInOrder(t)', MarksOfObjects(Me(t))'
  PROVE  HandlesInOrder'
<1>1. \A u \in Threads : LocalsFit(u)' /\ (hpc'[u] = "has" => SlotsInOrder(u)')
  BY OthersInOrder, OthersKeep DEF SameFor
<1>2. UNCHANGED <<hpc, at>>
  BY DEF OwnStep, tableVars
<1>3. ASSUME NEW h \in Ids
      PROVE  \/ \E u \in Threads : hpc'[u] = "has" /\ Me(u)' = h
             \/ counter'[h] = 0 /\ slot'[h] = [i \in Positions |-> NoSlot]
  <2>1. CASE h = Me(t)
    BY <1>2, <2>1 DEF Me
  <2>2. CASE h # Me(t)
    BY <1>2, <2>2 DEF Me, OwnStep, Inv, HandlesInOrder
  <2> QED
    BY <2>1, <2>2
<1>4. ASSUME NEW h \in Ids
      PROVE  MarksOfObjects(h)'
  <2>1. CASE h = Me(t)
    BY <1>2, <2>1 DEF Me, MarksOfObjects
  <2>2. CASE h # Me(t)
    BY <2>2 DEF OwnStep, Inv, HandlesInOrder, MarksOfObjects
  <2> QED
    BY <2>1, <2>2
<1> QED
  BY <1>1, <1>3, <1>4 DEF HandlesInOrder, MarksOfObjects

LEMMA OneKeep ==
  ASSUME Inv, NEW t \in Threads, hpc[t] = "has", OwnStep(t),
         \A o \in Objects :
           /\ InOnePlace(t, o)'
           /\ \/ /\ mem'[o] = "retired" <=> mem[o] = "retired"
                 /\ Deletes(t, o)' <=> Deletes(t, o)
              \/ mem[o] # "retired" /\ mem'[o] = "retired" /\ Deletes(t, o)'
              \/ mem'[o] # "retired" /\ Deletes(t, o) /\ ~Deletes(t, o)'
  PROVE  OnePerThread'
<1> SUFFICES ASSUME NEW o \in Objects
             PROVE  /\ mem'[o] = "retired" <=> \E u \in Threads : Deletes(u, o)'
                    /\ \A u, v \in Threads : Deletes(u, o)' /\ Deletes(v, o)' => u = v
                    /\ \A u \in Threads : InOnePlace(u, o)'
  BY DEF OnePerThread
<1>1. \A u \in Threads \ {t} :
        (Deletes(u, o)' <=> Deletes(u, o)) /\ (InOnePlace(u, o)' <=> InOnePlace(u, o))
  BY OthersKeep, OthersDelete
<1>2. /\ mem[o] = "retired" <=> \E u \in Threads : Deletes(u, o)
      /\ \A u, v \in Threads : Deletes(u, o) /\ Deletes(v, o) => u = v
      /\ \A u \in Threads : InOnePlace(u, o)
  BY DEF Inv, OnePerThread
<1> QED
  BY <1>1, <1>2

LEMMA AheadKeep ==
  ASSUME Inv, NEW t \in Threads, hpc[t] = "has", OwnStep(t),
         \A u \in Threads \ {t} : held'[u] = held[u],
         \A o \in Objects, u \in Threads \ {t} : \A i \in Copies(u, o) :
           hpc[u] = "has" /\ AheadOf(t, o, Me(u), i) => AheadOf(t, o, Me(u), i)',
         \A o \in Objects : held'[t][o] > 0 =>
           \E i \in Copies(t, o)' :
             /\ \A u \in Threads \ {t} : AheadOf(u, o, Me(t), i)
             /\ AheadOf(t, o, Me(t), i)'
  PROVE  AheadOfAll'
<1> SUFFICES ASSUME NEW v \in Threads, NEW o \in Objects, held'[v][o] > 0
             PROVE  \E i \in Copies(v, o)' :
                      \A u \in Threads : AheadOf(u, o, Me(v), i)'
  BY DEF AheadOfAll, Me
<1>1. /\ Me(t) \in Ids /\ \A u \in Threads : Me(u)' = Me(u)
      /\ \A i \in Copies(v, o)' : i \in Positions
  BY OwnHandle DEF Me, OwnStep, tableVars, Copies, Given, Inv
<1>2. \A u \in Threads \ {t} : \A h \in Ids, i \in Positions :
        AheadOf(u, o, h, i)' <=> AheadOf(u, o, h, i)
  BY OthersKeep, OthersDelete
<1>3. CASE v = t
  <2>1. PICK i \in Copies(t, o)' :
          /\ \A u \in Threads \ {t} : AheadOf(u, o, Me(t), i)
          /\ AheadOf(t, o, Me(t), i)'
    BY <1>3
  <2>2. \A u \in Threads : AheadOf(u, o, Me(t), i)'
    BY <1>1, <1>2, <1>3, <2>1
  <2> QED
    BY <1>3, <2>2
<1>4. CASE v # t
  <2>1. held[v][o] > 0 /\ hpc[v] = "has"
    BY <1>4 DEF Inv, ProtectionsAnnounced
  <2>2. PICK i \in Copies(v, o) : \A u \in Threads : AheadOf(u, o, Me(v), i)
    BY <2>1 DEF Inv, AheadOfAll
  <2>3. Copies(v, o)' = Copies(v, o) /\ Me(v) \in Ids
    BY <1>4, <2>1, OthersAnnounce, OthersKeep
  <2>4. AheadOf(t, o, Me(v), i)'
    BY <1>4, <2>1, <2>2
  <2>5. \A u \in Threads : AheadOf(u, o, Me(v), i)'
    BY <1>1, <1>2, <2>2, <2>3, <2>4
  <2> QED
    BY <2>2, <2>3, <2>5
<1> QED
  BY <1>3, <1>4

LEMMA AnnouncedKeep ==
  ASSUME Inv, NEW t \in Threads, hpc[t] = "has", OwnStep(t),
         \A u \in Threads \ {t} : held'[u] = held[u],
         \A o \in Objects : held'[t][o] > 0 =>
           held'[t][o] <= Cardinality(Copies(t, o)')
  PROVE  ProtectionsAnnounced'
<1>1. \A u \in Threads \ {t}, o \in Objects :
        hpc[u] = "has" => Copies(u, o)' = Copies(u, o)
  BY OthersKeep, OthersAnnounce
<1>2. hpc' = hpc
  BY DEF OwnStep, tableVars
<1> QED
  BY <1>1, <1>2 DEF ProtectionsAnnounced, Inv

LEMMA ExistsKeep ==
  ASSUME Inv, NEW t \in Threads, hpc[t] = "has", OwnStep(t),
         \A u \in Threads \ {t} : held'[u] = held[u], mem' = mem,
         \A o \in Objects :
           /\ Inserting(t, o)' => Inserting(t, o) /\ held'[t][o] = held[t][o]
           /\ held'[t][o] > 0 =>
                held[t][o] > 0 \/ mem[o] = "live" \/ (Inserting(t, o) /\ ~Inserting(t, o)')
  PROVE  ProtectedExists'
<1> SUFFICES ASSUME NEW o \in Objects
             PROVE  /\ Protected(o)' => mem[o] # "free"
                    /\ \A v \in Threads : Inserting(v, o)' =>
                         \/ held'[v][o] > 0
                         \/ /\ mem[o] = "private" /\ ~Protected(o)'
                            /\ \A u \in Threads : Inserting(u, o)' => u = v
  BY DEF ProtectedExists
<1>1. \A u \in Threads \ {t} : Inserting(u, o)' <=> Inserting(u, o)
  BY OthersKeep, OthersAnnounce
<1>2. /\ Protected(o) => mem[o] # "free"
      /\ \A v \in Threads : Inserting(v, o) =>
           \/ held[v][o] > 0
           \/ /\ mem[o] = "private" /\ ~Protected(o)
              /\ \A u \in Threads : Inserting(u, o) => u = v
  BY DEF Inv, ProtectedExists
<1> QED
  BY <1>1, <1>2 DEF Protected

(* Steps at which no deletion moves.                                       *)
QuietPc == {"idle", "insertCount", "insertStore", "reload", "replace", "replaced",
            "removeTop", "moveDown", "dropSlots"}

LEMMA QuietDeletes ==
  ASSUME Inv, NEW t \in Threads, hpc[t] = "has", OwnStep(t),
         pc[t] \in QuietPc, pc'[t] \in QuietPc, ~loc'[t].marked, NEW o \in Objects,
         \A i \in Positions :
           slot'[Me(t)][i] = Slot(o, TRUE) <=> slot[Me(t)][i] = Slot(o, TRUE)
  PROVE  /\ Deletes(t, o)' <=> Deletes(t, o)
         /\ InOnePlace(t, o)'
         /\ \A h \in Ids, i \in Positions : AheadOf(t, o, h, i)' <=> AheadOf(t, o, h, i)
<1>1. ~loc[t].marked
  BY DEF Inv, HandlesInOrder, LocalsFit, QuietPc
<1>2. /\ ~Walking(t, o) /\ ~Walking(t, o)' /\ ~MarkInHand(t, o) /\ ~MarkInHand(t, o)'
  BY <1>1 DEF Walking, MarkInHand, QuietPc
<1>3. hpc' = hpc /\ Me(t)' = Me(t)
  BY DEF OwnStep, tableVars, Me
<1>4. \A i \in Positions : OwnMarked(t, i, o)' <=> OwnMarked(t, i, o)
  BY <1>3 DEF OwnMarked, QuietPc
<1>5. InOnePlace(t, o)
  BY DEF Inv, OnePerThread
<1> QED
  BY <1>2, <1>3, <1>4, <1>5 DEF Deletes, InOnePlace, AheadOf

LEMMA QuietKeeps ==
  ASSUME Inv, NEW t \in Threads, hpc[t] = "has", OwnStep(t), TypeOK',
         pc[t] \in QuietPc, pc'[t] \in QuietPc, ~loc'[t].marked,
         \A i \in Positions : slot'[Me(t)][i] # slot[Me(t)][i] =>
           ~slot'[Me(t)][i].mark /\ ~slot[Me(t)][i].mark,
         LocalsFit(t)', SlotsInOrder(t)',
         \A o \in Objects : mem'[o] = "retired" <=> mem[o] = "retired",
         CellsAreLive', ProtectedExists',
         \A u \in Threads \ {t} : held'[u] = held[u],
         \A o \in Objects : held'[t][o] > 0 =>
           /\ held'[t][o] <= Cardinality(Copies(t, o)')
           /\ \E i \in Copies(t, o)' : \A u \in Threads : AheadOf(u, o, Me(t), i)
  PROVE  Inv'
<1>1. Me(t)' = Me(t) /\ Me(t) \in Ids
  BY OwnHandle DEF OwnStep, tableVars, Me, Inv
<1>2. \A o \in Objects, i \in Positions :
        slot'[Me(t)][i] = Slot(o, TRUE) <=> slot[Me(t)][i] = Slot(o, TRUE)
  BY DEF Slot
<1>3. \A o \in Objects :
        /\ Deletes(t, o)' <=> Deletes(t, o)
        /\ InOnePlace(t, o)'
        /\ \A h \in Ids, i \in Positions : AheadOf(t, o, h, i)' <=> AheadOf(t, o, h, i)
  BY <1>2, QuietDeletes
<1>4. MarksOfObjects(Me(t))'
  BY <1>1 DEF MarksOfObjects, Inv, HandlesInOrder
<1>5. HandlesInOrder'
  BY <1>4, HandlesKeep
<1>6. OnePerThread'
  BY <1>3, OneKeep
<1>7. ProtectionsAnnounced'
  BY AnnouncedKeep
<1>8. AheadOfAll'
  <2>1. \A u \in Threads, o \in Objects : Copies(u, o) \subseteq Positions
    BY DEF Copies, Given
  <2>2. \A o \in Objects : Copies(t, o)' \subseteq Positions
    BY DEF Copies, Given
  <2>3. \A u \in Threads : hpc[u] = "has" => Me(u) \in Ids
    BY OwnHandle DEF Inv
  <2>4. ASSUME NEW o \in Objects, NEW u \in Threads \ {t}, NEW i \in Copies(u, o),
               hpc[u] = "has", AheadOf(t, o, Me(u), i)
        PROVE  AheadOf(t, o, Me(u), i)'
    <3>1. Me(u)' = Me(u)
      BY DEF OwnStep, tableVars, Me
    <3>2. Me(u) \in Ids /\ i \in Positions
      BY <2>1, <2>3, <2>4
    <3> QED
      BY <1>3, <2>4, <3>1, <3>2
  <2>5. ASSUME NEW o \in Objects, held'[t][o] > 0
        PROVE  \E i \in Copies(t, o)' :
                 /\ \A u \in Threads \ {t} : AheadOf(u, o, Me(t), i)
                 /\ AheadOf(t, o, Me(t), i)'
    <3>1. PICK i \in Copies(t, o)' : \A u \in Threads : AheadOf(u, o, Me(t), i)
      BY <2>5
    <3>2. AheadOf(t, o, Me(t), i)'
      BY <1>1, <1>3, <2>2, <3>1
    <3> QED
      BY <3>1, <3>2
  <2> QED
    BY <2>4, <2>5, AheadKeep
<1>9. TableInv'
  BY TableKeeps DEF OwnStep, Inv
<1> QED
  BY <1>5, <1>6, <1>7, <1>8, <1>9 DEF Inv

(* What the caller of an operation has: its slots are the first _counter   *)
(* ones.                                                                   *)
LEMMA AtRest ==
  ASSUME Inv, NEW t \in Threads, Idle(t)
  PROVE  /\ hpc[t] = "has" /\ pc[t] = "idle" /\ loc[t] = NoLoc
         /\ Me(t) \in Ids /\ counter[Me(t)] \in 0 .. MaxProtections
         /\ \A i \in Positions : i >= counter[Me(t)] => slot[Me(t)][i] = NoSlot
         /\ Given(t) = {i \in Positions : i < counter[Me(t)]}
<1>1. hpc[t] = "has" /\ pc[t] = "idle"
  BY DEF Idle
<1>2. loc[t] = NoLoc /\ Me(t) \in Ids /\ counter[Me(t)] \in 0 .. MaxProtections
  BY <1>1, OwnHandle DEF Inv, HandlesInOrder, LocalsFit, TypeOK
<1>3. ~Dropping(t) /\ ~Tentative(t)
  BY <1>1, <1>2 DEF Dropping, Tentative, NoLoc
<1>4. Given(t) = {i \in Positions : i < counter[Me(t)]}
  BY <1>1, <1>3 DEF Given
<1>5. \A i \in Positions : i >= counter[Me(t)] => slot[Me(t)][i] = NoSlot
  BY <1>1, <1>3 DEF Inv, HandlesInOrder, SlotsInOrder, Emptied
<1> QED
  BY <1>1, <1>2, <1>4, <1>5

LEMMA CellsKeep ==
  ASSUME Inv, UNCHANGED <<cell, mem>>
  PROVE  CellsAreLive'
BY DEF Inv, CellsAreLive

LEMMA HeldAhead ==
  ASSUME Inv, NEW t \in Threads, NEW o \in Objects, held[t][o] > 0
  PROVE  /\ held[t][o] <= Cardinality(Copies(t, o))
         /\ \E i \in Copies(t, o) : \A u \in Threads : AheadOf(u, o, Me(t), i)
BY DEF Inv, ProtectionsAnnounced, AheadOfAll

(* protect and protect_raw begin an insert.                                *)
LEMMA BeginInsertKeeps ==
  ASSUME Inv, NEW t \in Threads, NEW l, l.ptr \in Objects, l.then = "idle",
         ~l.marked, l.last = NoSlot,
         Idle(t), HasRoom(t), UNCHANGED <<tableVars, cell, held, slotVars>>,
         Goto(t, "insertCount", l), TypeOK',
         \A p \in Objects : mem'[p] = "retired" <=> mem[p] = "retired",
         CellsAreLive', ProtectedExists'
  PROVE  Inv'
<1>1. /\ hpc[t] = "has" /\ pc[t] = "idle" /\ loc[t] = NoLoc
      /\ Me(t) \in Ids /\ counter[Me(t)] \in 0 .. MaxProtections
      /\ \A i \in Positions : i >= counter[Me(t)] => slot[Me(t)][i] = NoSlot
      /\ Given(t) = {i \in Positions : i < counter[Me(t)]}
  BY AtRest
<1>2. pc'[t] = "insertCount" /\ loc'[t] = l /\ OthersStay(t)
  BY GotoMoves DEF Inv
<1>3. OwnStep(t) /\ Me(t)' = Me(t) /\ UNCHANGED <<hpc, counter, slot, held>>
  BY <1>2 DEF OwnStep, tableVars, slotVars, Me
<1>4. LocalsFit(t)'
  BY <1>1, <1>2, <1>3 DEF LocalsFit, NoSlot, Slot
<1>5. ~Tentative(t)' /\ ~Dropping(t)' /\ ~Moving(t)'
  BY <1>2 DEF Tentative, Dropping, Moving
<1>6. SlotsInOrder(t)'
  BY <1>1, <1>2, <1>3, <1>5 DEF SlotsInOrder, Emptied, HasRoom
<1>7. \A p \in Objects : Copies(t, p)' = Copies(t, p)
  BY <1>1, <1>2, <1>3, <1>5 DEF Copies, Given
<1>8. ~loc'[t].marked /\ pc'[t] \in QuietPc /\ pc[t] \in QuietPc
  BY <1>1, <1>2 DEF QuietPc
<1> QED
  BY <1>1, <1>3, <1>4, <1>6, <1>7, <1>8, HeldAhead, QuietKeeps

LEMMA ProtectLoadKeeps ==
  ASSUME Inv, NEW t \in Threads, NEW c \in Cells, ProtectLoad(t, c), TypeOK'
  PROVE  Inv'
<1>1. /\ cell[c] # NoPtr /\ Idle(t) /\ HasRoom(t)
      /\ UNCHANGED <<tableVars, clientVars, slotVars>>
      /\ Goto(t, "insertCount", [NoLoc EXCEPT !.ptr = cell[c], !.cell = c])
  BY DEF ProtectLoad
<1> DEFINE l == [NoLoc EXCEPT !.ptr = cell[c], !.cell = c]
<1>2. /\ cell[c] \in Objects /\ l.ptr = cell[c] /\ l.then = "idle"
      /\ ~l.marked /\ l.last = NoSlot
  BY <1>1 DEF Inv, TypeOK, Pointers, NoLoc
<1>3. OwnStep(t) /\ hpc[t] = "has" /\ UNCHANGED <<cell, mem, held>>
  BY <1>1, GotoMoves DEF OwnStep, slotVars, clientVars, Idle, Inv
<1>4. \A o \in Objects : ~Inserting(t, o)'
  <2>1. loc'[t] = [NoLoc EXCEPT !.ptr = cell[c], !.cell = c]
    BY <1>1, GotoMoves DEF Inv
  <2> QED
    BY <2>1 DEF Inserting, IsRaw, NoLoc
<1>5. ProtectedExists'
  BY <1>3, <1>4, ExistsKeep
<1> HIDE DEF l
<1> QED
  BY <1>1, <1>2, <1>3, <1>5, CellsKeep, BeginInsertKeeps DEF l

LEMMA ProtectRawKeeps ==
  ASSUME Inv, NEW t \in Threads, NEW o \in Objects, ProtectRaw(t, o), TypeOK'
  PROVE  Inv'
<1>1. /\ held[t][o] > 0 /\ Idle(t) /\ HasRoom(t)
      /\ UNCHANGED <<tableVars, clientVars, slotVars>>
      /\ Goto(t, "insertCount", [NoLoc EXCEPT !.ptr = o])
  BY DEF ProtectRaw
<1>2. /\ [NoLoc EXCEPT !.ptr = o].ptr = o /\ [NoLoc EXCEPT !.ptr = o].then = "idle"
      /\ ~[NoLoc EXCEPT !.ptr = o].marked /\ [NoLoc EXCEPT !.ptr = o].last = NoSlot
  BY DEF NoLoc
<1>3. OwnStep(t) /\ hpc[t] = "has" /\ UNCHANGED <<cell, mem, held>>
  BY <1>1, GotoMoves DEF OwnStep, slotVars, clientVars, Idle, Inv
<1>4. \A p \in Objects : Inserting(t, p)' => p = o
  BY <1>1, GotoMoves DEF Inserting, IsRaw, NoLoc, Inv
<1>5. \A p \in Objects, u \in Threads \ {t} : Inserting(u, p)' <=> Inserting(u, p)
  BY <1>3, OthersKeep, OthersAnnounce
<1>6. ProtectedExists'
  BY <1>1, <1>3, <1>4, <1>5 DEF ProtectedExists, Protected, Inv
<1> QED
  BY <1>1, <1>2, <1>3, <1>6, CellsKeep, BeginInsertKeeps

LEMMA ProtectNewKeeps ==
  ASSUME Inv, NEW t \in Threads, NEW o \in Objects, ProtectNew(t, o), TypeOK'
  PROVE  Inv'
<1>1. /\ mem[o] = "free" /\ mem' = [mem EXCEPT ![o] = "private"]
      /\ Idle(t) /\ HasRoom(t) /\ UNCHANGED <<tableVars, cell, held, slotVars>>
      /\ Goto(t, "insertCount", [NoLoc EXCEPT !.ptr = o])
  BY DEF ProtectNew
<1>2. /\ [NoLoc EXCEPT !.ptr = o].ptr = o /\ [NoLoc EXCEPT !.ptr = o].then = "idle"
      /\ ~[NoLoc EXCEPT !.ptr = o].marked /\ [NoLoc EXCEPT !.ptr = o].last = NoSlot
  BY DEF NoLoc
<1>3. OwnStep(t) /\ hpc[t] = "has" /\ UNCHANGED <<cell, held>>
  BY <1>1, GotoMoves DEF OwnStep, slotVars, Idle, Inv
<1>4. \A p \in Objects : mem'[p] = IF p = o THEN "private" ELSE mem[p]
  BY <1>1 DEF Inv, TypeOK
<1>5. \A p \in Objects : Inserting(t, p)' => p = o
  BY <1>1, GotoMoves DEF Inserting, IsRaw, NoLoc, Inv
<1>6. \A p \in Objects, u \in Threads \ {t} : Inserting(u, p)' <=> Inserting(u, p)
  BY <1>3, OthersKeep, OthersAnnounce
<1>7. ~Protected(o) /\ \A u \in Threads : ~Inserting(u, o)
  BY <1>1 DEF Inv, ProtectedExists, Protected
<1>8. \A p \in Objects : Protected(p)' <=> Protected(p)
  BY <1>3 DEF Protected
<1>9. ~Inserting(t, o) /\ \A p \in Objects : ~Inserting(t, p)
  BY <1>1 DEF Inserting, Idle
<1>10. ProtectedExists'
  <2> SUFFICES ASSUME NEW p \in Objects
               PROVE  /\ Protected(p)' => mem'[p] # "free"
                      /\ \A v \in Threads : Inserting(v, p)' =>
                           \/ held'[v][p] > 0
                           \/ /\ mem'[p] = "private" /\ ~Protected(p)'
                              /\ \A u \in Threads : Inserting(u, p)' => u = v
    BY DEF ProtectedExists
  <2>1. CASE p = o
    BY <1>4, <1>5, <1>6, <1>7, <1>8, <2>1
  <2>2. CASE p # o
    <3>1. /\ Protected(p) => mem[p] # "free"
          /\ \A v \in Threads : Inserting(v, p) =>
               \/ held[v][p] > 0
               \/ /\ mem[p] = "private" /\ ~Protected(p)
                  /\ \A u \in Threads : Inserting(u, p) => u = v
      BY DEF Inv, ProtectedExists
    <3> QED
      BY <1>3, <1>4, <1>5, <1>6, <1>8, <2>2, <3>1
  <2> QED
    BY <2>1, <2>2
<1>11. CellsAreLive'
  BY <1>1, <1>3, <1>4 DEF Inv, CellsAreLive, TypeOK, Pointers
<1>12. \A p \in Objects : mem'[p] = "retired" <=> mem[p] = "retired"
  BY <1>1, <1>4
<1> QED
  BY <1>1, <1>2, <1>10, <1>11, <1>12, BeginInsertKeeps

LEMMA CopiesFinite ==
  ASSUME Inv, NEW t \in Threads, NEW o \in Objects
  PROVE  /\ IsFiniteSet(Positions)
         /\ IsFiniteSet(Copies(t, o)) /\ Cardinality(Copies(t, o)) \in Nat
         /\ held[t][o] \in Nat /\ held[t][o] <= Cardinality(Copies(t, o))
<1>1. IsFiniteSet(Positions)
  BY FS_Interval DEF Positions
<1>2. Copies(t, o) \subseteq Positions
  BY DEF Copies, Given
<1>3. IsFiniteSet(Copies(t, o)) /\ Cardinality(Copies(t, o)) \in Nat
  BY <1>1, <1>2, FS_Subset, FS_CardinalityType
<1>4. held[t][o] \in Nat
  BY DEF Inv, TypeOK
<1>5. held[t][o] <= Cardinality(Copies(t, o))
  BY <1>3, <1>4 DEF Inv, ProtectionsAnnounced
<1> QED
  BY <1>1, <1>3, <1>4, <1>5

LEMMA NotRetired ==
  ASSUME Inv, NEW o \in Objects, mem[o] # "retired", NEW u \in Threads
  PROVE  /\ ~Deletes(u, o)
         /\ \A h, i : AheadOf(u, o, h, i)
<1>1. ~Deletes(u, o)
  BY DEF Inv, OnePerThread
<1> QED
  BY <1>1 DEF Deletes, AheadOf

(* A slot that is now announced for a protection that is handed out.       *)
LEMMA GainsCopy ==
  ASSUME Inv, NEW t \in Threads, NEW o \in Objects, NEW p \in Positions,
         p \notin Copies(t, o), Copies(t, o)' = Copies(t, o) \cup {p},
         held'[t][o] = held[t][o] + 1, held[t][o] > 0 \/ mem[o] # "retired"
  PROVE  /\ held'[t][o] <= Cardinality(Copies(t, o)')
         /\ \E i \in Copies(t, o)' : \A u \in Threads : AheadOf(u, o, Me(t), i)
<1>1. Cardinality(Copies(t, o)') = Cardinality(Copies(t, o)) + 1
  BY CopiesFinite, FS_AddElement
<1>2. held'[t][o] <= Cardinality(Copies(t, o)')
  BY <1>1, CopiesFinite
<1>3. \E i \in Copies(t, o)' : \A u \in Threads : AheadOf(u, o, Me(t), i)
  <2>1. CASE held[t][o] > 0
    BY <2>1, HeldAhead
  <2>2. CASE mem[o] # "retired"
    BY <2>2, NotRetired
  <2> QED
    BY <2>1, <2>2
<1> QED
  BY <1>2, <1>3

LEMMA InsertCountKeeps ==
  ASSUME Inv, NEW t \in Threads, InsertCount(t), TypeOK'
  PROVE  Inv'
<1> SUFFICES ASSUME NEW l, l = loc[t], NEW n, n = counter[Me(t)]
             PROVE  Inv'
  OBVIOUS
<1>1. /\ pc[t] = "insertCount" /\ UNCHANGED <<tableVars, clientVars, slot>>
      /\ counter' = [counter EXCEPT ![Me(t)] = n + 1]
      /\ Goto(t, "insertStore", [l EXCEPT !.pos = n])
  BY DEF InsertCount, InsertPosition
<1>2. /\ hpc[t] = "has" /\ LocalsFit(t) /\ SlotsInOrder(t)
      /\ Me(t) \in Ids /\ l \in LocType /\ n \in 0 .. MaxProtections
  BY <1>1, InOperation
<1>3. /\ pc'[t] = "insertStore" /\ loc'[t] = [l EXCEPT !.pos = n] /\ OthersStay(t)
  BY <1>1, GotoMoves DEF Inv
<1>4. /\ OwnStep(t) /\ Me(t)' = Me(t) /\ UNCHANGED <<hpc, slot, cell, mem, held>>
      /\ counter'[Me(t)] = n + 1
  BY <1>1, <1>2, <1>3 DEF OwnStep, tableVars, clientVars, Me, Inv, TypeOK
<1>5. /\ n \in Positions /\ l.ptr \in Objects /\ l.then = "idle" /\ ~l.marked
      /\ ~l.last.mark \/ l.last.ptr \in Objects
  BY <1>1, <1>2 DEF SlotsInOrder, HasRoom, LocalsFit, LocType, Positions
<1>6. /\ loc'[t].ptr = l.ptr /\ loc'[t].pos = n /\ loc'[t].then = "idle"
      /\ ~loc'[t].marked /\ loc'[t].last = l.last /\ loc'[t].cell = l.cell
  BY <1>2, <1>3, <1>5 DEF LocType
<1>7. LocalsFit(t)'
  BY <1>2, <1>3, <1>4, <1>5, <1>6 DEF LocalsFit
<1>8. Tentative(t)' /\ ~Tentative(t) /\ ~Dropping(t)' /\ ~Dropping(t) /\ ~Moving(t)'
  BY <1>1, <1>3, <1>5, <1>6 DEF Tentative, Dropping, Moving
<1>9. \A i \in Positions : i >= n => slot[Me(t)][i] = NoSlot
  BY <1>1, <1>2, <1>8 DEF SlotsInOrder, Emptied
<1>10. SlotsInOrder(t)'
  BY <1>2, <1>3, <1>4, <1>5, <1>6, <1>8, <1>9
     DEF SlotsInOrder, Emptied, TopPosition, Positions
<1>11. Given(t)' = Given(t)
  BY <1>1, <1>2, <1>3, <1>4, <1>6, <1>8 DEF Given, Positions
<1>12. \A o \in Objects : Copies(t, o)' = Copies(t, o)
  BY <1>4, <1>11 DEF Copies
<1>13. \A o \in Objects :
         /\ Inserting(t, o)' => Inserting(t, o) /\ held'[t][o] = held[t][o]
         /\ held'[t][o] > 0 => held[t][o] > 0
  BY <1>1, <1>3, <1>4, <1>6 DEF Inserting, IsRaw
<1>14. ProtectedExists'
  <2>1. /\ hpc[t] = "has" /\ OwnStep(t) /\ mem' = mem
        /\ \A u \in Threads \ {t} : held'[u] = held[u]
    BY <1>2, <1>4
  <2> QED
    BY <2>1, <1>13, ExistsKeep
<1>15. pc'[t] \in QuietPc /\ pc[t] \in QuietPc
  BY <1>1, <1>3 DEF QuietPc
<1> QED
  BY <1>2, <1>4, <1>6, <1>7, <1>10, <1>12, <1>14, <1>15, CellsKeep, HeldAhead, QuietKeeps

LEMMA InsertStoreKeeps ==
  ASSUME Inv, NEW t \in Threads, InsertStore(t), TypeOK'
  PROVE  Inv'
<1> SUFFICES ASSUME NEW l, l = loc[t], NEW n, n = counter[Me(t)]
             PROVE  Inv'
  OBVIOUS
<1>1. /\ pc[t] = "insertStore" /\ UNCHANGED <<tableVars, cell, mem, counter>>
      /\ SetSlot(Me(t), l.pos, Slot(l.ptr, FALSE))
      /\ \/ IsRaw(t) /\ Hold(t, l.ptr) /\ Return(t)
         \/ ~IsRaw(t) /\ Goto(t, "reload", l) /\ UNCHANGED held
  BY DEF InsertStore
<1>2. /\ hpc[t] = "has" /\ LocalsFit(t) /\ SlotsInOrder(t)
      /\ Me(t) \in Ids /\ l \in LocType /\ n \in 0 .. MaxProtections
  BY <1>1, InOperation
<1>3. /\ l.ptr \in Objects /\ l.then = "idle" /\ ~l.marked
      /\ l.last.mark => l.last.ptr \in Objects
      /\ l.pos \in Positions /\ l.pos = n - 1
  BY <1>1, <1>2 DEF SlotsInOrder, Tentative, TopPosition, LocalsFit, LocType
<1>4. ~Dropping(t) /\ ~Moving(t) /\ Tentative(t)
  BY <1>1, <1>3 DEF Dropping, Moving, Tentative
<1>5. /\ \A i \in Positions : i >= n \/ i = l.pos => slot[Me(t)][i] = NoSlot
      /\ Given(t) = {i \in Positions : i < n /\ i # l.pos}
  BY <1>1, <1>2, <1>4 DEF SlotsInOrder, Emptied, Given
<1>6. /\ slot'[Me(t)][l.pos] = Slot(l.ptr, FALSE)
      /\ \A j \in Positions \ {l.pos} : slot'[Me(t)][j] = slot[Me(t)][j]
      /\ \A g \in Ids \ {Me(t)} : slot'[g] = slot[g]
  <2>1. Slot(l.ptr, FALSE) \in SlotType
    BY <1>3 DEF Slot, SlotType, Pointers
  <2> QED
    BY <1>1, <1>2, <1>3, <2>1, SetSlotGives, ZenonT(60) DEF Inv
<1>7. OthersStay(t)
  BY <1>1, ReturnMoves, GotoMoves DEF Inv
<1>8. /\ OwnStep(t) /\ Me(t)' = Me(t) /\ UNCHANGED <<hpc, counter, cell, mem>>
      /\ counter'[Me(t)] = n
  BY <1>1, <1>6, <1>7 DEF OwnStep, tableVars, Me
<1>9. \A i \in Positions : slot'[Me(t)][i] # slot[Me(t)][i] =>
        ~slot'[Me(t)][i].mark /\ ~slot[Me(t)][i].mark
  BY <1>5, <1>6 DEF NoSlot, Slot
<1>10. CASE IsRaw(t) /\ Hold(t, l.ptr) /\ Return(t)
  <2>1. pc'[t] = "idle" /\ loc'[t] = NoLoc
    BY <1>10, ReturnMoves DEF Inv
  <2>2. /\ held'[t][l.ptr] = held[t][l.ptr] + 1
        /\ \A p \in Objects \ {l.ptr} : held'[t][p] = held[t][p]
        /\ \A u \in Threads \ {t} : held'[u] = held[u]
    BY <1>3, <1>10, HoldGives DEF Inv
  <2>3. LocalsFit(t)' /\ ~Tentative(t)' /\ ~Dropping(t)' /\ ~Moving(t)'
    BY <1>2, <1>8, <2>1
       DEF LocalsFit, Tentative, Dropping, Moving, NoLoc, NoSlot, Slot
  <2>4. SlotsInOrder(t)'
    BY <1>2, <1>3, <1>5, <1>6, <1>8, <2>1, <2>3
       DEF SlotsInOrder, Emptied, Positions, NoLoc
  <2>5. Given(t)' = Given(t) \cup {l.pos}
    BY <1>2, <1>3, <1>5, <1>8, <2>1, <2>3 DEF Given, Positions
  <2>6. \A o \in Objects : Copies(t, o)' =
          IF o = l.ptr THEN Copies(t, o) \cup {l.pos} ELSE Copies(t, o)
    BY <1>3, <1>5, <1>6, <1>8, <2>5 DEF Copies, Slot
  <2>7. Inserting(t, l.ptr)
    BY <1>1, <1>10 DEF Inserting
  <2>8. \A o \in Objects : ~Inserting(t, o)'
    BY <2>1 DEF Inserting
  <2>9. ProtectedExists'
    BY <1>2, <1>8, <2>2, <2>7, <2>8, ExistsKeep
  <2>10. held[t][l.ptr] > 0 \/ mem[l.ptr] # "retired"
    BY <1>3, <2>7 DEF Inv, ProtectedExists
  <2>11. ASSUME NEW o \in Objects, held'[t][o] > 0
         PROVE  /\ held'[t][o] <= Cardinality(Copies(t, o)')
                /\ \E i \in Copies(t, o)' : \A u \in Threads : AheadOf(u, o, Me(t), i)
    <3>1. CASE o = l.ptr
      <4>1. l.pos \notin Copies(t, o)
        BY <1>5 DEF Copies
      <4> QED
        BY <1>3, <2>2, <2>6, <2>10, <3>1, <4>1, GainsCopy
    <3>2. CASE o # l.ptr
      BY <2>2, <2>6, <2>11, <3>2, HeldAhead
    <3> QED
      BY <3>1, <3>2
  <2>12. pc'[t] \in QuietPc /\ pc[t] \in QuietPc /\ ~loc'[t].marked
    BY <1>1, <2>1 DEF QuietPc, NoLoc
  <2> QED
    BY <1>2, <1>8, <1>9, <2>2, <2>3, <2>4, <2>9, <2>11, <2>12, CellsKeep, QuietKeeps
<1>11. CASE ~IsRaw(t) /\ Goto(t, "reload", l) /\ UNCHANGED held
  <2>1. pc'[t] = "reload" /\ loc'[t] = l
    BY <1>11, GotoMoves DEF Inv
  <2>2. l.cell \in Cells
    BY <1>2, <1>11 DEF IsRaw, LocType
  <2>3. /\ LocalsFit(t)' /\ Tentative(t)' /\ ~Dropping(t)' /\ ~Moving(t)'
    BY <1>2, <1>3, <1>8, <2>1, <2>2 DEF LocalsFit, Tentative, Dropping, Moving
  <2>4. SlotsInOrder(t)'
    BY <1>2, <1>3, <1>5, <1>6, <1>8, <2>1, <2>3
       DEF SlotsInOrder, Emptied, Positions, TopPosition, Slot
  <2>5. Given(t)' = Given(t)
    BY <1>2, <1>3, <1>5, <1>8, <2>1, <2>3 DEF Given
  <2>6. \A o \in Objects : Copies(t, o)' = Copies(t, o)
    BY <1>5, <1>6, <1>8, <2>5 DEF Copies
  <2>7. \A o \in Objects : ~Inserting(t, o)'
    BY <2>1 DEF Inserting
  <2>8. ProtectedExists'
    BY <1>2, <1>8, <1>11, <2>7, ExistsKeep
  <2>9. pc'[t] \in QuietPc /\ pc[t] \in QuietPc /\ ~loc'[t].marked
    BY <1>1, <1>3, <2>1 DEF QuietPc
  <2> QED
    BY <1>2, <1>8, <1>9, <1>11, <2>3, <2>4, <2>6, <2>8, <2>9, CellsKeep, HeldAhead,
       QuietKeeps
<1> QED
  BY <1>1, <1>10, <1>11

(* protect finds the pointer in the cell: it is protected.                 *)
LEMMA ProtectedKeeps ==
  ASSUME Inv, NEW t \in Threads, NEW o \in Objects, NEW c \in Cells, TypeOK',
         pc[t] \in {"reload", "replaced"}, cell[c] = o, Tentative(t),
         slot[Me(t)][loc[t].pos].ptr = o,
         UNCHANGED <<tableVars, cell, mem, slotVars>>, Hold(t, o), Return(t)
  PROVE  Inv'
<1> SUFFICES ASSUME NEW l, l = loc[t], NEW n, n = counter[Me(t)]
             PROVE  Inv'
  OBVIOUS
<1>1. /\ hpc[t] = "has" /\ LocalsFit(t) /\ SlotsInOrder(t)
      /\ Me(t) \in Ids /\ l \in LocType /\ n \in 0 .. MaxProtections
  BY InOperation
<1>2. l.pos \in Positions /\ l.pos = n - 1 /\ ~Dropping(t)
  BY <1>1 DEF SlotsInOrder, TopPosition, LocalsFit, Dropping
<1>3. pc'[t] = "idle" /\ loc'[t] = NoLoc /\ OthersStay(t)
  BY ReturnMoves DEF Inv
<1>4. /\ OwnStep(t) /\ Me(t)' = Me(t) /\ UNCHANGED <<hpc, counter, slot, cell, mem>>
  BY <1>3 DEF OwnStep, tableVars, slotVars, Me
<1>5. /\ held'[t][o] = held[t][o] + 1
      /\ \A p \in Objects \ {o} : held'[t][p] = held[t][p]
      /\ \A u \in Threads \ {t} : held'[u] = held[u]
  BY HoldGives DEF Inv
<1>6. LocalsFit(t)' /\ ~Tentative(t)' /\ ~Dropping(t)' /\ ~Moving(t)'
  BY <1>1, <1>3, <1>4 DEF LocalsFit, Tentative, Dropping, Moving, NoLoc, NoSlot, Slot
<1>7. \A i \in Positions : i >= n => slot[Me(t)][i] = NoSlot
  BY <1>1, <1>2 DEF SlotsInOrder, Emptied
<1>8. SlotsInOrder(t)'
  BY <1>1, <1>3, <1>4, <1>6, <1>7 DEF SlotsInOrder, Emptied, NoLoc
<1>9. Given(t) = {i \in Positions : i < n /\ i # l.pos}
  BY <1>2 DEF Given
<1>10. Given(t)' = Given(t) \cup {l.pos}
  BY <1>1, <1>2, <1>3, <1>4, <1>6, <1>9 DEF Given, Positions
<1>11. \A p \in Objects : Copies(t, p)' =
         IF p = o THEN Copies(t, p) \cup {l.pos} ELSE Copies(t, p)
  BY <1>2, <1>4, <1>10 DEF Copies
<1>12. mem[o] = "live"
  BY DEF Inv, CellsAreLive
<1>13. \A p \in Objects :
         ~Inserting(t, p)' /\ (held'[t][p] > 0 => held[t][p] > 0 \/ mem[p] = "live")
  BY <1>3, <1>5, <1>12 DEF Inserting
<1>14. ProtectedExists'
  BY <1>1, <1>4, <1>5, <1>13, ExistsKeep
<1>15. ASSUME NEW p \in Objects, held'[t][p] > 0
       PROVE  /\ held'[t][p] <= Cardinality(Copies(t, p)')
              /\ \E i \in Copies(t, p)' : \A u \in Threads : AheadOf(u, p, Me(t), i)
  <2>1. CASE p = o
    <3>1. l.pos \notin Copies(t, p)
      BY <1>9 DEF Copies
    <3> QED
      BY <1>2, <1>5, <1>11, <1>12, <2>1, <3>1, GainsCopy
  <2>2. CASE p # o
    BY <1>5, <1>11, <1>15, <2>2, HeldAhead
  <2> QED
    BY <2>1, <2>2
<1>16. pc'[t] \in QuietPc /\ pc[t] \in QuietPc /\ ~loc'[t].marked
  BY <1>3 DEF QuietPc, NoLoc
<1> QED
  BY <1>1, <1>4, <1>5, <1>6, <1>8, <1>14, <1>15, <1>16, CellsKeep, QuietKeeps

(* It finds another one, which it will announce in the same slot.          *)
LEMMA RetryKeeps ==
  ASSUME Inv, NEW t \in Threads, NEW l, NEW c \in Cells, TypeOK',
         pc[t] \in {"reload", "replaced"}, Tentative(t),
         l \in LocType, l.ptr \in Objects, slot[Me(t)][l.pos].ptr = l.ptr,
         l.pos = loc[t].pos, l.cell = loc[t].cell, l.then = loc[t].then,
         l.marked = loc[t].marked, l.last = loc[t].last,
         UNCHANGED <<tableVars, clientVars, slotVars>>, Goto(t, "replace", l)
  PROVE  Inv'
<1>1. /\ hpc[t] = "has" /\ LocalsFit(t) /\ SlotsInOrder(t)
      /\ Me(t) \in Ids /\ counter[Me(t)] \in 0 .. MaxProtections
  BY InOperation
<1>2. /\ l.pos \in Positions /\ l.pos = TopPosition(Me(t)) /\ ~Dropping(t)
      /\ ~l.marked /\ l.cell \in Cells /\ l.then \in {"idle", "replaced"}
      /\ l.last.mark => l.last.ptr \in Objects
  BY <1>1 DEF SlotsInOrder, LocalsFit, Dropping, LocType
<1>3. pc'[t] = "replace" /\ loc'[t] = l /\ OthersStay(t)
  BY GotoMoves DEF Inv
<1>4. OwnStep(t) /\ Me(t)' = Me(t) /\ UNCHANGED <<hpc, counter, slot, cell, mem, held>>
  BY <1>3 DEF OwnStep, tableVars, slotVars, clientVars, Me
<1>5. LocalsFit(t)' /\ Tentative(t)' /\ ~Dropping(t)' /\ ~Moving(t)'
  BY <1>1, <1>2, <1>3, <1>4 DEF LocalsFit, Tentative, Dropping, Moving
<1>6. \A i \in Positions : i >= counter[Me(t)] => slot[Me(t)][i] = NoSlot
  BY <1>1, <1>2 DEF SlotsInOrder, Emptied
<1>7. SlotsInOrder(t)'
  BY <1>1, <1>2, <1>3, <1>4, <1>5, <1>6 DEF SlotsInOrder, Emptied, TopPosition
<1>8. Given(t)' = Given(t)
  BY <1>2, <1>3, <1>4, <1>5 DEF Given
<1>9. \A o \in Objects : Copies(t, o)' = Copies(t, o)
  BY <1>4, <1>8 DEF Copies
<1>10. \A o \in Objects : ~Inserting(t, o)'
  BY <1>3 DEF Inserting
<1>11. ProtectedExists'
  BY <1>1, <1>4, <1>10, ExistsKeep
<1>12. pc'[t] \in QuietPc /\ pc[t] \in QuietPc /\ ~loc'[t].marked
  BY <1>2, <1>3 DEF QuietPc
<1> QED
  BY <1>1, <1>4, <1>5, <1>7, <1>9, <1>11, <1>12, CellsKeep, HeldAhead, QuietKeeps

(* It finds nullptr: the slot, which holds nullptr, is given up.           *)
LEMMA GiveUpKeeps ==
  ASSUME Inv, NEW t \in Threads, pc[t] = "replaced", loc[t].new = NoPtr, TypeOK',
         counter' = [counter EXCEPT ![Me(t)] = @ - 1], Return(t),
         UNCHANGED <<tableVars, clientVars, slot>>
  PROVE  Inv'
<1> SUFFICES ASSUME NEW l, l = loc[t], NEW n, n = counter[Me(t)]
             PROVE  Inv'
  OBVIOUS
<1>1. /\ hpc[t] = "has" /\ LocalsFit(t) /\ SlotsInOrder(t)
      /\ Me(t) \in Ids /\ l \in LocType /\ n \in 0 .. MaxProtections
  BY InOperation
<1>2. /\ l.then = "replaced" /\ Tentative(t) /\ ~Dropping(t)
      /\ l.pos \in Positions /\ l.pos = n - 1 /\ slot[Me(t)][l.pos].ptr = NoPtr
  BY <1>1 DEF LocalsFit, SlotsInOrder, Tentative, Dropping, TopPosition
<1>3. slot[Me(t)][l.pos] = NoSlot
  <2>1. slot[Me(t)][l.pos] \in SlotType /\ ~slot[Me(t)][l.pos].mark
    BY <1>1, <1>2 DEF Inv, TypeOK, HandlesInOrder, SlotType
  <2> QED
    BY <1>2, <2>1 DEF SlotType, NoSlot, Slot
<1>4. pc'[t] = "idle" /\ loc'[t] = NoLoc /\ OthersStay(t)
  BY ReturnMoves DEF Inv
<1>5. /\ OwnStep(t) /\ Me(t)' = Me(t) /\ UNCHANGED <<hpc, slot, cell, mem, held>>
      /\ counter'[Me(t)] = n - 1
  BY <1>1, <1>4 DEF OwnStep, tableVars, clientVars, Me, Inv, TypeOK
<1>6. LocalsFit(t)' /\ ~Tentative(t)' /\ ~Dropping(t)' /\ ~Moving(t)'
  BY <1>1, <1>4, <1>5 DEF LocalsFit, Tentative, Dropping, Moving, NoLoc, NoSlot, Slot
<1>7. \A i \in Positions : i >= n - 1 => slot[Me(t)][i] = NoSlot
  BY <1>1, <1>2, <1>3 DEF SlotsInOrder, Emptied, Positions
<1>8. SlotsInOrder(t)'
  BY <1>1, <1>4, <1>5, <1>6, <1>7 DEF SlotsInOrder, Emptied, NoLoc
<1>9. Given(t)' = Given(t)
  BY <1>1, <1>2, <1>4, <1>5, <1>6 DEF Given, Positions
<1>10. \A o \in Objects : Copies(t, o)' = Copies(t, o)
  BY <1>5, <1>9 DEF Copies
<1>11. \A o \in Objects : ~Inserting(t, o)'
  BY <1>4 DEF Inserting
<1>12. ProtectedExists'
  BY <1>1, <1>5, <1>11, ExistsKeep
<1>13. pc'[t] \in QuietPc /\ pc[t] \in QuietPc /\ ~loc'[t].marked
  BY <1>4 DEF QuietPc, NoLoc
<1> QED
  BY <1>1, <1>5, <1>6, <1>8, <1>10, <1>12, <1>13, CellsKeep, HeldAhead, QuietKeeps

LEMMA ReloadKeeps ==
  ASSUME Inv, NEW t \in Threads, Reload(t), TypeOK'
  PROVE  Inv'
<1> SUFFICES ASSUME NEW l, l = loc[t]
             PROVE  Inv'
  OBVIOUS
<1>1. /\ pc[t] = "reload" /\ UNCHANGED <<tableVars, cell, mem, slotVars>>
      /\ \/ cell[l.cell] = l.ptr /\ Hold(t, l.ptr) /\ Return(t)
         \/ Goto(t, "replace", [l EXCEPT !.new = cell[l.cell]]) /\ UNCHANGED held
  BY DEF Reload, StillThere
<1>2. LocalsFit(t) /\ SlotsInOrder(t) /\ l \in LocType
  BY <1>1, InOperation
<1>3. /\ Tentative(t) /\ l.ptr \in Objects /\ l.cell \in Cells
      /\ slot[Me(t)][l.pos].ptr = l.ptr /\ cell[l.cell] \in Pointers
  BY <1>1, <1>2 DEF Tentative, LocalsFit, SlotsInOrder, Inv, TypeOK
<1>4. CASE cell[l.cell] = l.ptr /\ Hold(t, l.ptr) /\ Return(t)
  BY <1>1, <1>3, <1>4, ProtectedKeeps
<1>5. CASE Goto(t, "replace", [l EXCEPT !.new = cell[l.cell]]) /\ UNCHANGED held
  <2> DEFINE k == [l EXCEPT !.new = cell[l.cell]]
  <2>1. /\ k \in LocType /\ k.ptr = l.ptr /\ k.pos = l.pos /\ k.cell = l.cell
        /\ k.then = l.then /\ k.marked = l.marked /\ k.last = l.last
    BY <1>2, <1>3 DEF LocType
  <2> HIDE DEF k
  <2>2. UNCHANGED <<tableVars, clientVars, slotVars>>
    BY <1>1, <1>5 DEF clientVars
  <2> QED
    BY <1>1, <1>3, <1>5, <2>1, <2>2, RetryKeeps DEF k
<1> QED
  BY <1>1, <1>4, <1>5

LEMMA ReplacedKeeps ==
  ASSUME Inv, NEW t \in Threads, Replaced(t), TypeOK'
  PROVE  Inv'
<1> SUFFICES ASSUME NEW l, l = loc[t]
             PROVE  Inv'
  OBVIOUS
<1>1. /\ pc[t] = "replaced" /\ UNCHANGED <<tableVars, cell, mem, slot>>
      /\ \/ /\ l.new = NoPtr /\ counter' = [counter EXCEPT ![Me(t)] = @ - 1]
            /\ Return(t) /\ UNCHANGED held
         \/ /\ l.new # NoPtr /\ cell[l.cell] = l.new
            /\ Hold(t, l.new) /\ Return(t) /\ UNCHANGED counter
         \/ /\ l.new # NoPtr /\ UNCHANGED <<held, counter>>
            /\ Goto(t, "replace", [l EXCEPT !.ptr = l.new, !.new = cell[l.cell]])
  BY DEF Replaced
<1>2. LocalsFit(t) /\ SlotsInOrder(t) /\ l \in LocType
  BY <1>1, InOperation
<1>3. /\ Tentative(t) /\ l.cell \in Cells /\ l.then = "replaced"
      /\ slot[Me(t)][l.pos].ptr = l.new /\ cell[l.cell] \in Pointers
      /\ l.new # NoPtr => l.new \in Objects
  BY <1>1, <1>2 DEF Tentative, LocalsFit, SlotsInOrder, Inv, TypeOK, LocType, Pointers
<1>4. CASE /\ l.new = NoPtr /\ counter' = [counter EXCEPT ![Me(t)] = @ - 1]
           /\ Return(t) /\ UNCHANGED held
  BY <1>1, <1>4, GiveUpKeeps DEF clientVars
<1>5. CASE /\ l.new # NoPtr /\ cell[l.cell] = l.new
           /\ Hold(t, l.new) /\ Return(t) /\ UNCHANGED counter
  BY <1>1, <1>3, <1>5, ProtectedKeeps DEF slotVars
<1>6. CASE /\ l.new # NoPtr /\ UNCHANGED <<held, counter>>
           /\ Goto(t, "replace", [l EXCEPT !.ptr = l.new, !.new = cell[l.cell]])
  <2> DEFINE k == [l EXCEPT !.ptr = l.new, !.new = cell[l.cell]]
  <2>1. /\ k \in LocType /\ k.ptr = l.new /\ k.pos = l.pos /\ k.cell = l.cell
        /\ k.then = l.then /\ k.marked = l.marked /\ k.last = l.last
    <3>1. l.new \in Pointers /\ cell[l.cell] \in Pointers
      BY <1>2, <1>3 DEF LocType
    <3> QED
      BY <1>2, <3>1 DEF LocType
  <2> HIDE DEF k
  <2>2. UNCHANGED <<tableVars, clientVars, slotVars>>
    BY <1>1, <1>6 DEF clientVars, slotVars
  <2> QED
    BY <1>1, <1>3, <1>6, <2>1, <2>2, RetryKeeps DEF k
<1> QED
  BY <1>1, <1>4, <1>5, <1>6

(* What is announced at a position is as safe at one below it.             *)
LEMMA AheadDown ==
  ASSUME Inv, NEW u \in Threads, NEW o \in Objects, NEW h \in Ids,
         NEW i \in Positions, NEW j \in Positions, j <= i, AheadOf(u, o, h, i)
  PROVE  AheadOf(u, o, h, j)
<1>1. loc[u].i \in Positions /\ loc[u].pos \in Positions \cup {-1}
  BY DEF Inv, TypeOK
<1>2. \A g : \A k \in Positions \cup {-1} : UpTo(h, i, g, k) => UpTo(h, j, g, k)
  BY DEF UpTo, Positions
<1> QED
  BY <1>1, <1>2 DEF AheadOf

LEMMA LosesCopy ==
  ASSUME Inv, NEW t \in Threads, NEW o \in Objects, NEW p \in Positions,
         Me(t) \in Ids, p \in Copies(t, o), \A j \in Copies(t, o) : j <= p,
         Copies(t, o)' = Copies(t, o) \ {p},
         held'[t][o] = held[t][o] - 1, held'[t][o] > 0
  PROVE  /\ held'[t][o] <= Cardinality(Copies(t, o)')
         /\ \E i \in Copies(t, o)' : \A u \in Threads : AheadOf(u, o, Me(t), i)
<1>1. Cardinality(Copies(t, o)') = Cardinality(Copies(t, o)) - 1
  BY CopiesFinite, FS_RemoveElement, ZenonT(60)
<1>2. held'[t][o] <= Cardinality(Copies(t, o)')
  BY <1>1, CopiesFinite
<1>3. Copies(t, o)' # {}
  <2>1. Copies(t, o)' = {} => Cardinality(Copies(t, o)') = 0
    BY FS_EmptySet
  <2>2. held'[t][o] \in Int /\ ~(held'[t][o] <= 0)
    BY CopiesFinite
  <2> QED
    BY <1>2, <2>1, <2>2
<1>4. PICK i \in Copies(t, o) : \A u \in Threads : AheadOf(u, o, Me(t), i)
  BY CopiesFinite, HeldAhead
<1>5. CASE i # p
  BY <1>2, <1>4, <1>5
<1>6. CASE i = p
  <2>1. PICK j \in Copies(t, o)' : TRUE
    BY <1>3
  <2>2. j \in Positions /\ j <= p
    BY <2>1 DEF Copies, Given
  <2> QED
    BY <1>2, <1>4, <1>6, <2>1, <2>2, AheadDown
<1> QED
  BY <1>5, <1>6

LEMMA UnprotectKeeps ==
  ASSUME Inv, NEW t \in Threads, NEW o \in Objects, Unprotect(t, o), TypeOK'
  PROVE  Inv'
<1> SUFFICES ASSUME NEW n, n = counter[Me(t)], NEW p, p = Find(Me(t), o),
                    NEW l, l = [NoLoc EXCEPT !.ptr = o, !.pos = p,
                                             !.last = slot[Me(t)][n - 1]]
             PROVE  Inv'
  OBVIOUS
<1>1. /\ Idle(t) /\ held[t][o] > 0 /\ held' = [held EXCEPT ![t][o] = @ - 1]
      /\ UNCHANGED <<tableVars, cell, mem, slot>>
      /\ \/ /\ p = n - 1 /\ counter' = [counter EXCEPT ![Me(t)] = n - 1]
            /\ Goto(t, "removeTop", l)
         \/ p # n - 1 /\ Goto(t, "moveDown", l) /\ UNCHANGED counter
  BY DEF Unprotect
<1>2. /\ hpc[t] = "has" /\ pc[t] = "idle" /\ loc[t] = NoLoc
      /\ Me(t) \in Ids /\ n \in 0 .. MaxProtections
      /\ \A i \in Positions : i >= n => slot[Me(t)][i] = NoSlot
      /\ Given(t) = {i \in Positions : i < n}
  BY <1>1, AtRest
<1>3. /\ p \in Positions /\ p < n /\ slot[Me(t)][p].ptr = o
      /\ \A j \in Positions : p < j /\ j < n => slot[Me(t)][j].ptr # o
  BY <1>1, FindGives
<1>4. /\ l.ptr = o /\ l.pos = p /\ l.last = slot[Me(t)][n - 1] /\ l.then = "idle"
      /\ ~l.marked /\ n - 1 \in Positions
  BY <1>2, <1>3 DEF NoLoc, Positions
<1>5. /\ pc'[t] \in {"removeTop", "moveDown"} /\ loc'[t] = l /\ OthersStay(t)
      /\ pc'[t] = "removeTop" => p = n - 1 /\ counter'[Me(t)] = n - 1
      /\ pc'[t] = "moveDown" => p # n - 1 /\ counter'[Me(t)] = n
  BY <1>1, <1>2, GotoMoves DEF Inv, TypeOK
<1>6. OwnStep(t) /\ Me(t)' = Me(t) /\ UNCHANGED <<hpc, slot, cell, mem>>
  BY <1>1, <1>2, <1>5 DEF OwnStep, tableVars, Me, Inv, TypeOK
<1>7. /\ held'[t][o] = held[t][o] - 1
      /\ \A q \in Objects \ {o} : held'[t][q] = held[t][q]
      /\ \A u \in Threads \ {t} : held'[u] = held[u]
  BY <1>1 DEF Inv, TypeOK
<1>8. l.last \in SlotType /\ (l.last.mark => l.last.ptr \in Objects)
  BY <1>2, <1>4 DEF Inv, TypeOK, HandlesInOrder
<1>9. LocalsFit(t)' /\ ~Tentative(t)' /\ ~Dropping(t)'
  BY <1>2, <1>4, <1>5, <1>6, <1>8 DEF LocalsFit, Tentative, Dropping
<1>10. SlotsInOrder(t)'
  <2>1. CASE pc'[t] = "removeTop"
    BY <1>2, <1>3, <1>4, <1>5, <1>6, <1>9, <2>1
       DEF SlotsInOrder, Emptied, Moving, Positions
  <2>2. CASE pc'[t] = "moveDown"
    <3>1. TopCopy(t)' = n - 1
      BY <1>5, <1>6, <2>2 DEF TopCopy, TopPosition
    <3>2. p < n - 1
      BY <1>2, <1>3, <1>5, <2>2 DEF Positions
    <3> QED
      BY <1>2, <1>3, <1>4, <1>5, <1>6, <1>9, <2>2, <3>1, <3>2
         DEF SlotsInOrder, Emptied, Moving
  <2> QED
    BY <1>5, <2>1, <2>2
<1>11. Given(t)' = Given(t) \ {p}
  <2>1. CASE pc'[t] = "removeTop"
    BY <1>2, <1>3, <1>4, <1>5, <1>6, <1>9, <2>1 DEF Given, Positions
  <2>2. CASE pc'[t] = "moveDown"
    BY <1>2, <1>3, <1>4, <1>5, <1>6, <1>9, <2>2 DEF Given
  <2> QED
    BY <1>5, <2>1, <2>2
<1>12. \A q \in Objects : Copies(t, q)' =
         IF q = o THEN Copies(t, q) \ {p} ELSE Copies(t, q)
  BY <1>3, <1>6, <1>11 DEF Copies
<1>13. p \in Copies(t, o) /\ \A j \in Copies(t, o) : j <= p
  BY <1>2, <1>3 DEF Copies, Positions
<1>14. ASSUME NEW q \in Objects, held'[t][q] > 0
       PROVE  /\ held'[t][q] <= Cardinality(Copies(t, q)')
              /\ \E i \in Copies(t, q)' : \A u \in Threads : AheadOf(u, q, Me(t), i)
  <2>1. CASE q = o
    BY <1>2, <1>3, <1>7, <1>12, <1>13, <1>14, <2>1, LosesCopy
  <2>2. CASE q # o
    BY <1>7, <1>12, <1>14, <2>2, HeldAhead
  <2> QED
    BY <2>1, <2>2
<1>15. \A q \in Objects : ~Inserting(t, q)' /\ (held'[t][q] > 0 => held[t][q] > 0)
  BY <1>1, <1>5, <1>7 DEF Inserting
<1>16. ProtectedExists'
  BY <1>2, <1>6, <1>7, <1>15, ExistsKeep
<1>17. pc'[t] \in QuietPc /\ pc[t] \in QuietPc /\ ~loc'[t].marked
  BY <1>2, <1>4, <1>5 DEF QuietPc
<1> QED
  BY <1>2, <1>6, <1>7, <1>9, <1>10, <1>14, <1>16, <1>17, CellsKeep, QuietKeeps

LEMMA DropHandleKeeps ==
  ASSUME Inv, NEW t \in Threads, DropHandle(t), TypeOK'
  PROVE  Inv'
<1> SUFFICES ASSUME NEW n, n = counter[Me(t)],
                    NEW l, l = [NoLoc EXCEPT !.pos = n - 1]
             PROVE  Inv'
  OBVIOUS
<1>1. /\ Idle(t) /\ held' = [held EXCEPT ![t] = [o \in Objects |-> 0]]
      /\ Goto(t, "dropSlots", l) /\ UNCHANGED <<tableVars, cell, mem, slotVars>>
  BY DEF DropHandle, TopPosition
<1>2. /\ hpc[t] = "has" /\ pc[t] = "idle" /\ Me(t) \in Ids /\ n \in 0 .. MaxProtections
      /\ \A i \in Positions : i >= n => slot[Me(t)][i] = NoSlot
  BY <1>1, AtRest
<1>3. pc'[t] = "dropSlots" /\ loc'[t] = l /\ OthersStay(t)
  BY <1>1, GotoMoves DEF Inv
<1>4. /\ OwnStep(t) /\ Me(t)' = Me(t) /\ UNCHANGED <<hpc, counter, slot, cell, mem>>
      /\ \A u \in Threads \ {t} : held'[u] = held[u]
      /\ \A o \in Objects : held'[t][o] = 0
  BY <1>1, <1>3 DEF OwnStep, tableVars, slotVars, Me, Inv, TypeOK
<1>5. l.pos = n - 1 /\ l.then = "idle" /\ ~l.marked /\ ~l.last.mark
  BY DEF NoLoc, NoSlot, Slot
<1>6. LocalsFit(t)' /\ ~Tentative(t)' /\ Dropping(t)' /\ ~Moving(t)'
  BY <1>2, <1>3, <1>4, <1>5 DEF LocalsFit, Tentative, Dropping, Moving
<1>7. SlotsInOrder(t)'
  BY <1>2, <1>3, <1>4, <1>5, <1>6 DEF SlotsInOrder, Emptied, Positions
<1>8. \A o \in Objects : ~Inserting(t, o)' /\ ~(held'[t][o] > 0)
  BY <1>3, <1>4 DEF Inserting
<1>9. ProtectedExists'
  BY <1>2, <1>4, <1>8, ExistsKeep
<1>10. pc'[t] \in QuietPc /\ pc[t] \in QuietPc /\ ~loc'[t].marked
  BY <1>2, <1>3, <1>5 DEF QuietPc
<1> QED
  BY <1>2, <1>4, <1>6, <1>7, <1>8, <1>9, <1>10, CellsKeep, QuietKeeps

(* A new object takes the place of the old one in a shared pointer.        *)
LEMMA ExchangeObjects ==
  ASSUME Inv, NEW t \in Threads, NEW c \in Cells, NEW p \in Pointers,
         Exchange(t, c, p), TypeOK', OwnStep(t)
  PROVE  /\ \A o \in Objects : mem'[o] = "retired" <=> mem[o] = "retired" \/ o = cell[c]
         /\ cell[c] \in Objects => mem[cell[c]] = "live"
         /\ CellsAreLive' /\ ProtectedExists'
<1>1. /\ Idle(t) /\ hpc[t] = "has" /\ cell[c] # p
      /\ p # NoPtr => mem[p] = "free" \/ (mem[p] = "private" /\ held[t][p] > 0)
      /\ cell' = [cell EXCEPT ![c] = p] /\ held' = held
      /\ \A o \in Objects : mem'[o] =
           IF o = p THEN "live" ELSE IF o = cell[c] THEN "retired" ELSE mem[o]
  BY DEF Exchange, Idle
<1>2. /\ p # NoPtr => p \in Objects /\ mem[p] \in {"free", "private"}
      /\ cell[c] # NoPtr => cell[c] \in Objects /\ mem[cell[c]] = "live"
  BY <1>1 DEF Pointers, Inv, TypeOK, CellsAreLive
<1>3. CellsAreLive'
  <2>1. \A d \in Cells : cell'[d] = IF d = c THEN p ELSE cell[d]
    BY <1>1 DEF Inv, TypeOK
  <2>2. ASSUME NEW d \in Cells, d # c, cell[d] # NoPtr
        PROVE  /\ cell[d] \in Objects /\ cell[d] # p /\ cell[d] # cell[c]
               /\ mem[cell[d]] = "live"
    <3>1. cell[d] \in Objects /\ mem[cell[d]] = "live" /\ cell[d] # cell[c]
      BY <2>2 DEF Pointers, Inv, TypeOK, CellsAreLive
    <3> QED
      BY <1>2, <2>2, <3>1
  <2>3. \A d, e \in Cells : cell[d] # NoPtr /\ cell[e] = cell[d] => d = e
    BY DEF Inv, CellsAreLive
  <2> QED
    BY <1>1, <1>2, <2>1, <2>2, <2>3 DEF CellsAreLive
<1>4. ProtectedExists'
  <2> SUFFICES ASSUME NEW o \in Objects
               PROVE  /\ Protected(o)' => mem'[o] # "free"
                      /\ \A v \in Threads : Inserting(v, o)' =>
                           \/ held'[v][o] > 0
                           \/ /\ mem'[o] = "private" /\ ~Protected(o)'
                              /\ \A u \in Threads : Inserting(u, o)' => u = v
    BY DEF ProtectedExists
  <2>1. \A u \in Threads \ {t} : Inserting(u, o)' <=> Inserting(u, o)
    BY <1>1, OthersKeep, OthersAnnounce
  <2>2. ~Inserting(t, o)' /\ ~Inserting(t, o)
    <3>1. pc[t] = "idle" /\ pc'[t] \in {"idle", "safeDelete"}
      BY <1>1, GotoMoves DEF Exchange, Idle, Inv
    <3> QED
      BY <3>1 DEF Inserting
  <2>3. /\ Protected(o) => mem[o] # "free"
        /\ \A v \in Threads : Inserting(v, o) =>
             \/ held[v][o] > 0
             \/ /\ mem[o] = "private" /\ ~Protected(o)
                /\ \A u \in Threads : Inserting(u, o) => u = v
    BY DEF Inv, ProtectedExists
  <2>4. Protected(o)' <=> Protected(o)
    BY <1>1 DEF Protected
  <2>5. o = p /\ mem[o] = "private" => Protected(o)
    BY <1>1, <1>2 DEF Protected
  <2>6. o = p \/ o = cell[c] => \A v \in Threads : Inserting(v, o) => held[v][o] > 0
    BY <1>1, <1>2, <2>3, <2>5
  <2> QED
    BY <1>1, <1>2, <2>1, <2>2, <2>3, <2>4, <2>6
<1> QED
  BY <1>1, <1>2, <1>3, <1>4

LEMMA ExchangeKeeps ==
  ASSUME Inv, NEW t \in Threads, NEW c \in Cells, NEW p \in Pointers,
         Exchange(t, c, p), TypeOK'
  PROVE  Inv'
<1>1. Idle(t) /\ UNCHANGED <<tableVars, held, slotVars>>
  BY DEF Exchange
<1>2. /\ hpc[t] = "has" /\ pc[t] = "idle" /\ loc[t] = NoLoc
      /\ Me(t) \in Ids /\ counter[Me(t)] \in 0 .. MaxProtections
      /\ \A i \in Positions : i >= counter[Me(t)] => slot[Me(t)][i] = NoSlot
      /\ Given(t) = {i \in Positions : i < counter[Me(t)]}
  BY <1>1, AtRest
<1>3. CASE cell[c] = NoPtr
  <2>1. UNCHANGED <<pc, loc>> /\ pc'[t] = "idle" /\ loc'[t] = NoLoc
    BY <1>2, <1>3 DEF Exchange
  <2>2. /\ OwnStep(t) /\ UNCHANGED <<hpc, counter, slot, held>> /\ Me(t)' = Me(t)
    BY <1>1, <2>1 DEF OwnStep, OthersStay, tableVars, slotVars, Me
  <2>3. /\ \A o \in Objects : mem'[o] = "retired" <=> mem[o] = "retired"
        /\ CellsAreLive' /\ ProtectedExists'
    BY <1>3, <2>2, ExchangeObjects
  <2>4. LocalsFit(t)' /\ SlotsInOrder(t)' /\ \A o \in Objects : Copies(t, o)' = Copies(t, o)
    <3>1. ~Tentative(t)' /\ ~Dropping(t)' /\ ~Moving(t)'
      BY <1>2, <2>1 DEF Tentative, Dropping, Moving, NoLoc
    <3>2. LocalsFit(t)'
      BY <1>2, <2>1, <2>2 DEF LocalsFit, NoLoc, NoSlot, Slot
    <3>3. SlotsInOrder(t)'
      <4>1. \A i \in Positions : Emptied(t, i)' => slot'[Me(t)'][i] = NoSlot
        BY <1>2, <2>1, <2>2, <3>1 DEF Emptied
      <4> QED
        BY <2>1, <3>1, <4>1 DEF SlotsInOrder, NoLoc
    <3>4. Given(t)' = Given(t)
      BY <1>2, <2>1, <2>2, <3>1 DEF Given
    <3> QED
      BY <2>2, <3>2, <3>3, <3>4 DEF Copies
  <2>5. pc'[t] \in QuietPc /\ pc[t] \in QuietPc /\ ~loc'[t].marked
    BY <1>2, <2>1 DEF QuietPc, NoLoc
  <2> QED
    BY <1>2, <2>2, <2>3, <2>4, <2>5, HeldAhead, QuietKeeps
<1>4. CASE cell[c] # NoPtr
  <2> DEFINE old == cell[c]
  <2>1. old \in Objects
    BY <1>4 DEF Inv, TypeOK, Pointers
  <2>2. /\ pc'[t] = "safeDelete" /\ loc'[t] = [NoLoc EXCEPT !.ptr = old] /\ OthersStay(t)
    BY <1>4, GotoMoves DEF Exchange, Inv
  <2>3. /\ loc'[t].ptr = old /\ loc'[t].then = "idle" /\ ~loc'[t].marked
        /\ ~loc'[t].last.mark
    BY <2>2 DEF NoLoc, NoSlot, Slot
  <2>4. /\ OwnStep(t) /\ UNCHANGED <<hpc, counter, slot, held>> /\ Me(t)' = Me(t)
    BY <1>1, <2>2 DEF OwnStep, tableVars, slotVars, Me
  <2>5. /\ \A o \in Objects : mem'[o] = "retired" <=> mem[o] = "retired" \/ o = old
        /\ mem[old] = "live" /\ CellsAreLive' /\ ProtectedExists'
    BY <2>1, <2>4, ExchangeObjects
  <2>6. ~Tentative(t)' /\ ~Dropping(t)' /\ ~Moving(t)'
    BY <2>2, <2>3 DEF Tentative, Dropping, Moving
  <2>7. LocalsFit(t)'
    BY <1>2, <2>1, <2>2, <2>3, <2>4 DEF LocalsFit
  <2>8. SlotsInOrder(t)'
    BY <1>2, <2>2, <2>3, <2>4, <2>6 DEF SlotsInOrder, Emptied
  <2>9. \A o \in Objects : Copies(t, o)' = Copies(t, o)
    BY <1>2, <2>2, <2>4, <2>6 DEF Given, Copies
  <2>10. ASSUME NEW o \in Objects
         PROVE  /\ ~Walking(t, o) /\ (Walking(t, o)' <=> o = old)
                /\ ~MarkInHand(t, o) /\ ~MarkInHand(t, o)'
                /\ \A i \in Positions : OwnMarked(t, i, o)' <=> OwnMarked(t, i, o)
    <3>1. ~Walking(t, o) /\ ~MarkInHand(t, o)
      BY <1>2 DEF Walking, MarkInHand, NoLoc
    <3>2. (Walking(t, o)' <=> o = old) /\ ~MarkInHand(t, o)'
      BY <2>2, <2>3 DEF Walking, MarkInHand
    <3>3. \A i \in Positions : OwnMarked(t, i, o)' <=> OwnMarked(t, i, o)
      BY <1>2, <2>2, <2>4 DEF OwnMarked
    <3> QED
      BY <3>1, <3>2, <3>3
  <2>11. \A i \in Positions : ~OwnMarked(t, i, old)
    BY <2>1, <2>5, NotRetired DEF Deletes
  <2>12. \A o \in Objects : InOnePlace(t, o)'
    BY <2>10, <2>11 DEF InOnePlace, Inv, OnePerThread
  <2>13. \A o \in Objects : Deletes(t, o)' <=> Deletes(t, o) \/ o = old
    BY <2>10 DEF Deletes
  <2>14. OnePerThread'
    BY <1>2, <2>4, <2>5, <2>12, <2>13, OneKeep
  <2>15. \A o \in Objects, h \in Ids, i \in Positions :
           AheadOf(t, o, h, i) => AheadOf(t, o, h, i)'
    BY <2>2, <2>4, <2>6, <2>10 DEF AheadOf
  <2>16. AheadOfAll'
    <3>1. ASSUME NEW o \in Objects, NEW u \in Threads \ {t}, NEW i \in Copies(u, o),
                 hpc[u] = "has", AheadOf(t, o, Me(u), i)
          PROVE  AheadOf(t, o, Me(u), i)'
      <4>1. Me(u)' = Me(u) /\ Me(u) \in Ids /\ i \in Positions
        BY <2>4, <3>1, OwnHandle DEF OwnStep, tableVars, Me, Copies, Given, Inv
      <4> QED
        BY <2>15, <3>1, <4>1
    <3>2. ASSUME NEW o \in Objects, held'[t][o] > 0
          PROVE  \E i \in Copies(t, o)' :
                   /\ \A u \in Threads \ {t} : AheadOf(u, o, Me(t), i)
                   /\ AheadOf(t, o, Me(t), i)'
      <4>1. PICK i \in Copies(t, o) : \A u \in Threads : AheadOf(u, o, Me(t), i)
        BY <2>4, <3>2, HeldAhead
      <4>2. AheadOf(t, o, Me(t), i)'
        BY <1>2, <2>4, <2>15, <4>1 DEF Copies, Given
      <4> QED
        BY <2>9, <4>1, <4>2
    <3> QED
      BY <1>2, <2>4, <3>1, <3>2, AheadKeep
  <2>17. ProtectionsAnnounced'
    BY <1>2, <2>4, <2>9, HeldAhead, AnnouncedKeep
  <2>18. MarksOfObjects(Me(t))'
    BY <1>2, <2>4 DEF MarksOfObjects, Inv, HandlesInOrder
  <2>19. HandlesInOrder'
    BY <1>2, <2>4, <2>7, <2>8, <2>18, HandlesKeep
  <2>20. TableInv'
    BY <1>1, TableKeeps DEF Inv
  <2> QED
    BY <2>5, <2>14, <2>16, <2>17, <2>19, <2>20 DEF Inv
<1> QED
  BY <1>3, <1>4

(* get_handle gives the thread a handle whose slots are empty.             *)
LEMMA HandleStepKeeps ==
  ASSUME Inv, NEW t \in Threads, HandleStep(t)
  PROVE  Inv'
<1>1. /\ UNCHANGED <<cell, mem, held, counter, slot, pc, loc>>
      /\ hpc[t] # "has" /\ hpc'[t] \in {"none", "look", "raise", "has"}
      /\ \A u \in Threads \ {t} : hpc'[u] = hpc[u] /\ Me(u)' = Me(u)
      /\ hpc'[t] = "has" => Me(t)' = Me(t) /\ (hpc[t] = "raise" \/ Free(Me(t)))
      /\ hpc'[t] = "has" => Me(t) \in 0 .. MaxHandles
  BY DEF HandleStep, GetHandle, Take, PassOver, Raise, clientVars, slotVars, Me,
     Inv, TypeOK, TableTypeOK
<1>2. TableInv'
  BY GetHandleTableInv, TakeTableInv, PassOverTableInv, RaiseTableInv
     DEF HandleStep, Inv
<1>3. TypeOK'
  BY <1>1, <1>2 DEF Inv, TypeOK, TableInv
<1>4. \A u \in Threads \ {t} : SameFor(u)
  BY <1>1 DEF SameFor
<1>5. pc[t] = "idle" /\ loc[t] = NoLoc
  BY <1>1 DEF Inv, HandlesInOrder, LocalsFit
<1>6. \A o \in Objects : ~(held[t][o] > 0)
  BY <1>1 DEF Inv, ProtectionsAnnounced
<1>7. ASSUME hpc'[t] = "has"
      PROVE  /\ Me(t) \in Ids /\ Me(t)' = Me(t) /\ counter[Me(t)] = 0
             /\ slot[Me(t)] = [i \in Positions |-> NoSlot]
  <2>1. Me(t)' = Me(t) /\ Me(t) \in Ids
    BY <1>1, <1>2, <1>7, OwnHandleNext
  <2>2. ASSUME NEW u \in Threads, hpc[u] = "has", Me(u) = Me(t)
        PROVE  FALSE
    <3>1. u # t /\ hpc'[u] = "has" /\ Me(u)' = Me(t)'
      BY <1>1, <2>1, <2>2
    <3> QED
      BY <1>2, <1>7, <3>1, OwnHandleNext
  <2> QED
    BY <2>1, <2>2 DEF Inv, HandlesInOrder
<1>8. LocalsFit(t)' /\ ~Tentative(t)' /\ ~Dropping(t)' /\ ~Moving(t)'
  BY <1>1, <1>5 DEF LocalsFit, Tentative, Dropping, Moving, NoLoc, NoSlot, Slot
<1>9. ASSUME hpc'[t] = "has"
      PROVE  SlotsInOrder(t)'
  <2>1. pc'[t] = "idle" /\ loc'[t] = NoLoc /\ \A i \in Positions : slot'[Me(t)'][i] = NoSlot
    BY <1>1, <1>5, <1>7, <1>9
  <2> QED
    BY <1>8, <2>1 DEF SlotsInOrder, NoLoc
<1>10. HandlesInOrder'
  <2>1. \A u \in Threads : LocalsFit(u)' /\ (hpc'[u] = "has" => SlotsInOrder(u)')
    BY <1>1, <1>4, <1>8, <1>9, OthersInOrder
  <2>2. ASSUME NEW h \in Ids
        PROVE  \/ \E u \in Threads : hpc'[u] = "has" /\ Me(u)' = h
               \/ counter'[h] = 0 /\ slot'[h] = [i \in Positions |-> NoSlot]
    BY <1>1 DEF Inv, HandlesInOrder
  <2> QED
    BY <1>1, <2>1, <2>2 DEF HandlesInOrder, Inv
<1>11. CellsAreLive'
  BY <1>1, CellsKeep
<1>12. \A u \in Threads, o \in Objects : Inserting(u, o)' <=> Inserting(u, o)
  BY <1>1 DEF Inserting, IsRaw
<1>13. ProtectedExists'
  BY <1>1, <1>12 DEF ProtectedExists, Protected, Inv
<1>14. \A u \in Threads \ {t}, o \in Objects :
         hpc[u] = "has" => Copies(u, o)' = Copies(u, o)
  BY <1>4, OthersAnnounce
<1>15. ProtectionsAnnounced'
  BY <1>1, <1>6, <1>14 DEF ProtectionsAnnounced, Inv
<1>16. \A o \in Objects :
         /\ ~Walking(t, o)' /\ ~MarkInHand(t, o)' /\ ~Deletes(t, o) /\ ~Deletes(t, o)'
         /\ \A i \in Positions : ~OwnMarked(t, i, o)'
  <2>1. \A o \in Objects, i \in Positions : ~OwnMarked(t, i, o) /\ ~OwnMarked(t, i, o)'
    BY <1>1, <1>7 DEF OwnMarked, NoSlot, Slot
  <2> QED
    BY <1>1, <1>5, <2>1 DEF Walking, MarkInHand, Deletes, NoLoc
<1>17. \A u \in Threads \ {t}, o \in Objects :
         (Deletes(u, o)' <=> Deletes(u, o)) /\ (InOnePlace(u, o)' <=> InOnePlace(u, o))
  BY <1>4, OthersDelete
<1>18. OnePerThread'
  <2>1. \A o \in Objects : InOnePlace(t, o)'
    BY <1>16 DEF InOnePlace
  <2> QED
    BY <1>1, <1>16, <1>17, <2>1 DEF OnePerThread, Inv
<1>19. AheadOfAll'
  <2> SUFFICES ASSUME NEW v \in Threads, NEW o \in Objects, held'[v][o] > 0
               PROVE  \E i \in Copies(v, o)' :
                        \A u \in Threads : AheadOf(u, o, Me(v), i)'
    BY DEF AheadOfAll, Me
  <2>1. v # t /\ held[v][o] > 0 /\ hpc[v] = "has"
    BY <1>1, <1>6 DEF Inv, ProtectionsAnnounced
  <2>2. PICK i \in Copies(v, o) : \A u \in Threads : AheadOf(u, o, Me(v), i)
    BY <2>1, HeldAhead
  <2>3. i \in Copies(v, o)' /\ i \in Positions /\ Me(v)' = Me(v) /\ Me(v) \in Ids
    BY <1>1, <1>14, <2>1, <2>2, OwnHandle DEF Copies, Given, Inv
  <2>4. ASSUME NEW u \in Threads
        PROVE  AheadOf(u, o, Me(v), i)'
    <3>1. CASE u = t
      BY <1>16, <3>1 DEF AheadOf
    <3>2. CASE u # t
      BY <1>4, <2>2, <2>3, <3>2, OthersDelete
    <3> QED
      BY <3>1, <3>2
  <2> QED
    BY <2>3, <2>4
<1> QED
  BY <1>2, <1>3, <1>10, <1>11, <1>13, <1>15, <1>18, <1>19 DEF Inv

(* Steps of remove and of the walk: nothing changes for the program.       *)
LEMMA OwnKeeps ==
  ASSUME Inv, NEW t \in Threads, hpc[t] = "has", OwnStep(t), TypeOK',
         UNCHANGED clientVars, LocalsFit(t)', SlotsInOrder(t)', MarksOfObjects(Me(t))',
         pc'[t] \notin {"insertCount", "insertStore"},
         \A o \in Objects : InOnePlace(t, o)' /\ (Deletes(t, o)' <=> Deletes(t, o)),
         \A o \in Objects, u \in Threads \ {t} : \A i \in Copies(u, o) :
           hpc[u] = "has" /\ AheadOf(t, o, Me(u), i) => AheadOf(t, o, Me(u), i)',
         \A o \in Objects : held[t][o] > 0 =>
           /\ Cardinality(Copies(t, o)') = Cardinality(Copies(t, o))
           /\ \E i \in Copies(t, o)' :
                /\ \A u \in Threads \ {t} : AheadOf(u, o, Me(t), i)
                /\ AheadOf(t, o, Me(t), i)'
  PROVE  Inv'
<1>1. UNCHANGED <<cell, mem, held>>
  BY DEF clientVars
<1>2. TableInv'
  BY TableKeeps DEF OwnStep, Inv
<1>3. HandlesInOrder'
  BY HandlesKeep
<1>4. \A o \in Objects : ~Inserting(t, o)'
  BY DEF Inserting
<1>5. CellsAreLive' /\ ProtectedExists'
  BY <1>1, <1>4, CellsKeep, ExistsKeep
<1>6. OnePerThread'
  BY <1>1, OneKeep
<1>7. ProtectionsAnnounced'
  BY <1>1, HeldAhead, AnnouncedKeep
<1>8. AheadOfAll'
  BY <1>1, AheadKeep
<1> QED
  BY <1>2, <1>3, <1>5, <1>6, <1>7, <1>8 DEF Inv

LEMMA SamePlaceKeeps ==
  ASSUME Inv, NEW t \in Threads, hpc[t] = "has", OwnStep(t), TypeOK',
         UNCHANGED clientVars, LocalsFit(t)', SlotsInOrder(t)', MarksOfObjects(Me(t))',
         pc'[t] \notin {"insertCount", "insertStore"},
         \A o \in Objects : InOnePlace(t, o)' /\ (Deletes(t, o)' <=> Deletes(t, o)),
         \A o \in Objects, h \in Ids, i \in Positions :
           AheadOf(t, o, h, i) => AheadOf(t, o, h, i)',
         \A o \in Objects : Copies(t, o)' = Copies(t, o)
  PROVE  Inv'
<1>1. \A u \in Threads : Me(u)' = Me(u) /\ (hpc[u] = "has" => Me(u) \in Ids)
  BY OwnHandle DEF OwnStep, tableVars, Me, Inv
<1>2. ASSUME NEW o \in Objects, NEW u \in Threads \ {t}, NEW i \in Copies(u, o),
             hpc[u] = "has", AheadOf(t, o, Me(u), i)
      PROVE  AheadOf(t, o, Me(u), i)'
  <2>1. i \in Positions
    BY <1>2 DEF Copies, Given
  <2> QED
    BY <1>1, <1>2, <2>1
<1>3. ASSUME NEW o \in Objects, held[t][o] > 0
      PROVE  /\ Cardinality(Copies(t, o)') = Cardinality(Copies(t, o))
             /\ \E i \in Copies(t, o)' :
                  /\ \A u \in Threads \ {t} : AheadOf(u, o, Me(t), i)
                  /\ AheadOf(t, o, Me(t), i)'
  <2>1. PICK i \in Copies(t, o) : \A u \in Threads : AheadOf(u, o, Me(t), i)
    BY <1>3, HeldAhead
  <2>2. i \in Positions
    BY <2>1 DEF Copies, Given
  <2>3. AheadOf(t, o, Me(t), i)'
    BY <1>1, <2>1, <2>2
  <2> QED
    BY <2>1, <2>3
<1> QED
  BY <1>2, <1>3, OwnKeeps

LEMMA MarkedSlot ==
  ASSUME NEW s \in SlotType, NEW o
  PROVE  s = Slot(o, TRUE) <=> s.mark /\ s.ptr = o
BY DEF SlotType, Slot

(* A marked slot is cleared: its owner goes on with the deletion from      *)
(* there.                                                                  *)
LEMMA TakesOver ==
  ASSUME Inv, NEW t \in Threads, hpc[t] = "has", OwnStep(t), NEW p \in Positions,
         pc[t] \in QuietPc, ~loc'[t].marked, ~slot'[Me(t)][p].mark,
         \A j \in Positions \ {p} : slot'[Me(t)][j] = slot[Me(t)][j],
         ~slot[Me(t)][p].mark => pc'[t] \in QuietPc,
         slot[Me(t)][p].mark =>
           /\ pc'[t] = "markSlot" /\ loc'[t].h = Me(t) /\ loc'[t].i = p
           /\ loc'[t].ptr = slot[Me(t)][p].ptr,
         NEW o \in Objects
  PROVE  /\ InOnePlace(t, o)' /\ (Deletes(t, o)' <=> Deletes(t, o))
         /\ \A h \in Ids, i \in Positions : AheadOf(t, o, h, i) => AheadOf(t, o, h, i)'
<1>1. Me(t) \in Ids /\ Me(t)' = Me(t) /\ hpc' = hpc
  BY OwnHandle DEF OwnStep, tableVars, Me, Inv
<1>2. ~loc[t].marked
  BY DEF Inv, HandlesInOrder, LocalsFit, QuietPc
<1>4. ~MarkInHand(t, o) /\ ~MarkInHand(t, o)' /\ ~Walking(t, o)
  BY <1>2 DEF Walking, MarkInHand, QuietPc
<1>5. /\ OwnMarked(t, p, o) <=> slot[Me(t)][p].mark /\ slot[Me(t)][p].ptr = o
      /\ ~OwnMarked(t, p, o)'
  <2>1. slot[Me(t)][p] \in SlotType
    BY <1>1 DEF Inv, TypeOK
  <2>2. slot[Me(t)][p] = Slot(o, TRUE) <=> slot[Me(t)][p].mark /\ slot[Me(t)][p].ptr = o
    BY <2>1, MarkedSlot
  <2>3. slot'[Me(t)][p] # Slot(o, TRUE)
    BY DEF Slot
  <2> QED
    BY <1>1, <2>2, <2>3 DEF OwnMarked, QuietPc
<1>6. \A j \in Positions \ {p} : OwnMarked(t, j, o)' <=> OwnMarked(t, j, o)
  BY <1>1 DEF OwnMarked, QuietPc
<1>7. Walking(t, o)' <=> OwnMarked(t, p, o)
  BY <1>5 DEF Walking, QuietPc
<1>8. InOnePlace(t, o)
  BY DEF Inv, OnePerThread
<1>9. InOnePlace(t, o)' /\ (Deletes(t, o)' <=> Deletes(t, o))
  BY <1>4, <1>5, <1>6, <1>7, <1>8 DEF InOnePlace, Deletes
<1>10. Walking(t, o)' => pc'[t] = "markSlot" /\ loc'[t].h = Me(t) /\ loc'[t].i = p
  BY <1>5, <1>7
<1>11. \A h \in Ids, i \in Positions : AheadOf(t, o, h, i) => AheadOf(t, o, h, i)'
  BY <1>1, <1>4, <1>5, <1>6, <1>7, <1>10 DEF AheadOf, Moving
<1> QED
  BY <1>9, <1>11

LEMMA ReplaceKeeps ==
  ASSUME Inv, NEW t \in Threads, Replace(t), TypeOK'
  PROVE  Inv'
<1> SUFFICES ASSUME NEW l, l = loc[t], NEW n, n = counter[Me(t)],
                    NEW k, k = [l EXCEPT !.then = "replaced"]
             PROVE  Inv'
  OBVIOUS
<1>1. /\ pc[t] = "replace" /\ SetSlot(Me(t), l.pos, Slot(l.new, FALSE))
      /\ ContinueIf(slot[Me(t)][l.pos].mark, t, k, l.pos)
      /\ UNCHANGED <<tableVars, clientVars, counter>>
  BY DEF Replace, TakenOver
<1>2. /\ hpc[t] = "has" /\ LocalsFit(t) /\ SlotsInOrder(t)
      /\ Me(t) \in Ids /\ l \in LocType /\ n \in 0 .. MaxProtections
  BY <1>1, InOperation
<1>3. /\ Tentative(t) /\ ~Dropping(t) /\ l.ptr \in Objects /\ l.cell \in Cells
      /\ ~l.marked /\ (l.last.mark => l.last.ptr \in Objects)
      /\ l.pos \in Positions /\ l.pos = n - 1 /\ slot[Me(t)][l.pos].ptr = l.ptr
      /\ slot[Me(t)][l.pos] \in SlotType /\ l.new \in Pointers
  BY <1>1, <1>2 DEF Tentative, Dropping, LocalsFit, SlotsInOrder, TopPosition, Inv,
     TypeOK, LocType
<1>4. /\ slot'[Me(t)][l.pos] = Slot(l.new, FALSE)
      /\ \A j \in Positions \ {l.pos} : slot'[Me(t)][j] = slot[Me(t)][j]
      /\ \A g \in Ids \ {Me(t)} : slot'[g] = slot[g]
  <2>1. Slot(l.new, FALSE) \in SlotType
    BY <1>3 DEF Slot, SlotType
  <2> QED
    BY <1>1, <1>2, <1>3, <2>1, SetSlotGives, ZenonT(60) DEF Inv
<1>5. /\ k.ptr = l.ptr /\ k.pos = l.pos /\ k.new = l.new /\ k.last = l.last
      /\ k.marked = l.marked /\ k.cell = l.cell /\ k.then = "replaced"
      /\ k \in LocType
  BY <1>2 DEF LocType
<1>6. slot[Me(t)][l.pos].mark \in BOOLEAN
  BY <1>3 DEF SlotType
<1>7. /\ OthersStay(t)
      /\ IF slot[Me(t)][l.pos].mark
         THEN pc'[t] = "markSlot" /\ loc'[t] = [k EXCEPT !.h = Me(t), !.i = l.pos]
         ELSE pc'[t] = "replaced" /\ loc'[t] = k
  <2>1. CASE slot[Me(t)][l.pos].mark
    BY <1>1, <2>1, GotoMoves DEF ContinueIf, Inv
  <2>2. CASE ~slot[Me(t)][l.pos].mark
    BY <1>1, <1>5, <2>2, GotoMoves DEF ContinueIf, GoOn, Inv
  <2> QED
    BY <2>1, <2>2
<1>8. /\ loc'[t].ptr = l.ptr /\ loc'[t].pos = l.pos /\ loc'[t].new = l.new
      /\ loc'[t].last = l.last /\ ~loc'[t].marked /\ loc'[t].cell = l.cell
      /\ loc'[t].then = "replaced"
      /\ slot[Me(t)][l.pos].mark => loc'[t].h = Me(t) /\ loc'[t].i = l.pos
      /\ pc'[t] = "markSlot" => loc'[t].h = Me(t)
  BY <1>3, <1>5, <1>7, ZenonT(60) DEF LocType
<1>9. /\ OwnStep(t) /\ UNCHANGED <<hpc, counter>> /\ Me(t)' = Me(t)
  BY <1>1, <1>4, <1>7 DEF OwnStep, tableVars, Me
<1>10. pc'[t] \in {"markSlot", "replaced"}
  BY <1>7
<1>11. LocalsFit(t)'
  BY <1>2, <1>3, <1>8, <1>9, <1>10 DEF LocalsFit
<1>12. Tentative(t)' /\ ~Dropping(t)' /\ ~Moving(t)'
  BY <1>8, <1>10 DEF Tentative, Dropping, Moving
<1>13. \A i \in Positions : i >= n => slot[Me(t)][i] = NoSlot
  BY <1>1, <1>2, <1>3 DEF SlotsInOrder, Emptied
<1>14. SlotsInOrder(t)'
  <2>1. \A i \in Positions : Emptied(t, i)' => slot'[Me(t)'][i] = NoSlot
    BY <1>2, <1>3, <1>4, <1>8, <1>9, <1>10, <1>12, <1>13 DEF Emptied, Positions
  <2>2. slot'[Me(t)'][loc'[t].pos].ptr = loc'[t].new
    BY <1>4, <1>8, <1>9 DEF Slot
  <2> QED
    BY <1>3, <1>8, <1>9, <1>10, <1>12, <2>1, <2>2 DEF SlotsInOrder, TopPosition
<1>15. Given(t)' = Given(t)
  BY <1>1, <1>3, <1>8, <1>9, <1>10, <1>12 DEF Given
<1>16. \A o \in Objects : Copies(t, o)' = Copies(t, o)
  <2>1. l.pos \notin Given(t)
    BY <1>3 DEF Given
  <2> QED
    BY <1>4, <1>9, <1>15, <2>1 DEF Copies, Given
<1>17. MarksOfObjects(Me(t))'
  BY <1>2, <1>4, <1>9 DEF MarksOfObjects, Slot, Inv, HandlesInOrder
<1>18. \A o \in Objects :
         /\ InOnePlace(t, o)' /\ (Deletes(t, o)' <=> Deletes(t, o))
         /\ \A h \in Ids, i \in Positions : AheadOf(t, o, h, i) => AheadOf(t, o, h, i)'
  <2>1. ~slot'[Me(t)][l.pos].mark /\ pc[t] \in QuietPc
    BY <1>1, <1>4 DEF Slot, QuietPc
  <2>2. ~slot[Me(t)][l.pos].mark => pc'[t] \in QuietPc
    BY <1>7 DEF QuietPc
  <2>3. slot[Me(t)][l.pos].mark =>
          /\ pc'[t] = "markSlot" /\ loc'[t].h = Me(t) /\ loc'[t].i = l.pos
          /\ loc'[t].ptr = slot[Me(t)][l.pos].ptr
    BY <1>3, <1>7, <1>8
  <2> QED
    BY <1>2, <1>3, <1>4, <1>8, <1>9, <2>1, <2>2, <2>3, TakesOver
<1> QED
  BY <1>1, <1>2, <1>9, <1>10, <1>11, <1>14, <1>16, <1>17, <1>18, SamePlaceKeeps

LEMMA RemoveTopKeeps ==
  ASSUME Inv, NEW t \in Threads, RemoveTop(t), TypeOK'
  PROVE  Inv'
<1> SUFFICES ASSUME NEW l, l = loc[t], NEW n, n = counter[Me(t)]
             PROVE  Inv'
  OBVIOUS
<1>1. /\ pc[t] = "removeTop" /\ SetSlot(Me(t), l.pos, NoSlot)
      /\ ContinueIf(slot[Me(t)][l.pos].mark, t, l, l.pos)
      /\ UNCHANGED <<tableVars, clientVars, counter>>
  BY DEF RemoveTop, TakenOver
<1>2. /\ hpc[t] = "has" /\ LocalsFit(t) /\ SlotsInOrder(t)
      /\ Me(t) \in Ids /\ l \in LocType /\ n \in 0 .. MaxProtections
  BY <1>1, InOperation
<1>3. /\ ~Tentative(t) /\ ~Dropping(t) /\ l.ptr \in Objects /\ l.then = "idle"
      /\ ~l.marked /\ (l.last.mark => l.last.ptr \in Objects)
      /\ l.pos \in Positions /\ l.pos = n /\ slot[Me(t)][l.pos].ptr = l.ptr
      /\ slot[Me(t)][l.pos] \in SlotType
  BY <1>1, <1>2 DEF Tentative, Dropping, LocalsFit, SlotsInOrder, Inv, TypeOK, LocType
<1>4. /\ slot'[Me(t)][l.pos] = NoSlot
      /\ \A j \in Positions \ {l.pos} : slot'[Me(t)][j] = slot[Me(t)][j]
      /\ \A g \in Ids \ {Me(t)} : slot'[g] = slot[g]
  <2>1. NoSlot \in SlotType
    BY DEF NoSlot, Slot, SlotType, Pointers
  <2> QED
    BY <1>1, <1>2, <1>3, <2>1, SetSlotGives DEF Inv
<1>5. slot[Me(t)][l.pos].mark \in BOOLEAN
  BY <1>3 DEF SlotType
<1>6. /\ OthersStay(t)
      /\ IF slot[Me(t)][l.pos].mark
         THEN pc'[t] = "markSlot" /\ loc'[t] = [l EXCEPT !.h = Me(t), !.i = l.pos]
         ELSE pc'[t] = "idle" /\ loc'[t] = NoLoc
  <2>1. CASE slot[Me(t)][l.pos].mark
    BY <1>1, <2>1, GotoMoves DEF ContinueIf, Inv
  <2>2. CASE ~slot[Me(t)][l.pos].mark
    BY <1>1, <1>3, <2>2, ReturnMoves DEF ContinueIf, GoOn, Inv
  <2> QED
    BY <2>1, <2>2
<1>7. /\ pc'[t] = "markSlot" =>
           /\ slot[Me(t)][l.pos].mark /\ loc'[t].ptr = l.ptr
           /\ loc'[t].h = Me(t) /\ loc'[t].i = l.pos
      /\ pc'[t] = "idle" => loc'[t] = NoLoc
      /\ ~loc'[t].marked /\ loc'[t].then = "idle"
      /\ loc'[t].last.mark => loc'[t].last.ptr \in Objects
      /\ pc'[t] \in {"idle", "markSlot"}
  <2>1. CASE slot[Me(t)][l.pos].mark
    <3> DEFINE k == [l EXCEPT !.h = Me(t), !.i = l.pos]
    <3>1. /\ k.ptr = l.ptr /\ k.h = Me(t) /\ k.i = l.pos /\ k.marked = l.marked
          /\ k.then = l.then /\ k.last = l.last
      BY <1>2 DEF LocType
    <3> HIDE DEF k
    <3> QED
      BY <1>3, <1>6, <2>1, <3>1 DEF k
  <2>2. CASE ~slot[Me(t)][l.pos].mark
    <3>1. ~NoLoc.marked /\ NoLoc.then = "idle" /\ ~NoLoc.last.mark
      BY DEF NoLoc, NoSlot, Slot
    <3> QED
      BY <1>6, <2>2, <3>1
  <2> QED
    BY <2>1, <2>2
<1>8. /\ OwnStep(t) /\ UNCHANGED <<hpc, counter>> /\ Me(t)' = Me(t)
  BY <1>1, <1>4, <1>6 DEF OwnStep, tableVars, Me
<1>9. LocalsFit(t)'
  BY <1>2, <1>3, <1>7, <1>8 DEF LocalsFit
<1>10. ~Tentative(t)' /\ ~Dropping(t)' /\ ~Moving(t)'
  BY <1>7 DEF Tentative, Dropping, Moving
<1>11. \A i \in Positions : i >= n => slot'[Me(t)][i] = NoSlot
  BY <1>1, <1>2, <1>3, <1>4 DEF SlotsInOrder, Emptied
<1>12. SlotsInOrder(t)'
  <2>1. \A i \in Positions : Emptied(t, i)' => slot'[Me(t)'][i] = NoSlot
    BY <1>7, <1>8, <1>10, <1>11 DEF Emptied
  <2> QED
    BY <1>7, <1>10, <2>1 DEF SlotsInOrder
<1>13. Given(t)' = Given(t)
  BY <1>1, <1>3, <1>7, <1>8, <1>10 DEF Given
<1>14. \A o \in Objects : Copies(t, o)' = Copies(t, o)
  <2>1. l.pos \notin Given(t)
    BY <1>2, <1>3 DEF Given
  <2> QED
    BY <1>4, <1>8, <1>13, <2>1 DEF Copies, Given
<1>15. MarksOfObjects(Me(t))'
  BY <1>2, <1>4, <1>8 DEF MarksOfObjects, NoSlot, Slot, Inv, HandlesInOrder
<1>16. \A o \in Objects :
         /\ InOnePlace(t, o)' /\ (Deletes(t, o)' <=> Deletes(t, o))
         /\ \A h \in Ids, i \in Positions : AheadOf(t, o, h, i) => AheadOf(t, o, h, i)'
  <2>1. ~slot'[Me(t)][l.pos].mark /\ pc[t] \in QuietPc
    BY <1>1, <1>4 DEF NoSlot, Slot, QuietPc
  <2>2. ~slot[Me(t)][l.pos].mark => pc'[t] \in QuietPc
    BY <1>6 DEF QuietPc
  <2>3. slot[Me(t)][l.pos].mark =>
          /\ pc'[t] = "markSlot" /\ loc'[t].h = Me(t) /\ loc'[t].i = l.pos
          /\ loc'[t].ptr = slot[Me(t)][l.pos].ptr
    BY <1>3, <1>6, <1>7
  <2> QED
    BY <1>2, <1>3, <1>4, <1>7, <1>8, <2>1, <2>2, <2>3, TakesOver
<1>17. pc'[t] \notin {"insertCount", "insertStore"}
  BY <1>7
<1> QED
  BY <1>1, <1>2, <1>8, <1>9, <1>12, <1>14, <1>15, <1>16, <1>17, SamePlaceKeeps

LEMMA DropSlotKeeps ==
  ASSUME Inv, NEW t \in Threads, DropSlot(t), TypeOK'
  PROVE  Inv'
<1> SUFFICES ASSUME NEW p, p = loc[t].pos, NEW s, s = slot[Me(t)][p],
                    NEW k, k = [NoLoc EXCEPT !.ptr = s.ptr, !.pos = p - 1,
                                             !.then = "dropSlots"]
             PROVE  Inv'
  OBVIOUS
<1>1. /\ pc[t] = "dropSlots" /\ p >= 0 /\ SetSlot(Me(t), p, NoSlot)
      /\ ContinueIf(s.mark, t, k, p) /\ UNCHANGED <<tableVars, clientVars, counter>>
  BY DEF DropSlot, TakenOver
<1>2. /\ hpc[t] = "has" /\ SlotsInOrder(t) /\ Me(t) \in Ids /\ loc[t] \in LocType
  BY <1>1, InOperation
<1>3. /\ p \in Positions /\ Dropping(t) /\ s \in SlotType /\ s.mark \in BOOLEAN
      /\ s.mark => s.ptr \in Objects
  BY <1>1, <1>2 DEF LocType, Dropping, Inv, TypeOK, HandlesInOrder, SlotType
<1>4. /\ slot'[Me(t)][p] = NoSlot
      /\ \A j \in Positions \ {p} : slot'[Me(t)][j] = slot[Me(t)][j]
      /\ \A g \in Ids \ {Me(t)} : slot'[g] = slot[g]
  <2>1. NoSlot \in SlotType
    BY DEF NoSlot, Slot, SlotType, Pointers
  <2> QED
    BY <1>1, <1>2, <1>3, <2>1, SetSlotGives DEF Inv
<1>5. /\ k.ptr = s.ptr /\ k.pos = p - 1 /\ k.then = "dropSlots" /\ ~k.marked
      /\ ~k.last.mark
  BY DEF NoLoc, NoSlot, Slot
<1>6. /\ OthersStay(t)
      /\ IF s.mark THEN pc'[t] = "markSlot" /\ loc'[t] = [k EXCEPT !.h = Me(t), !.i = p]
         ELSE pc'[t] = "dropSlots" /\ loc'[t] = k
  <2>1. CASE s.mark
    BY <1>1, <2>1, GotoMoves DEF ContinueIf, Inv
  <2>2. CASE ~s.mark
    BY <1>1, <1>5, <2>2, GotoMoves DEF ContinueIf, GoOn, Inv
  <2> QED
    BY <2>1, <2>2
<1>7. /\ pc'[t] = "markSlot" => s.mark /\ loc'[t].h = Me(t) /\ loc'[t].i = p
      /\ pc'[t] \in {"markSlot", "dropSlots"}
      /\ loc'[t].ptr = s.ptr /\ loc'[t].pos = p - 1 /\ loc'[t].then = "dropSlots"
      /\ ~loc'[t].marked /\ ~loc'[t].last.mark
  BY <1>5, <1>6, ZenonT(60) DEF NoLoc
<1>8. /\ OwnStep(t) /\ UNCHANGED <<hpc, counter>> /\ Me(t)' = Me(t)
  BY <1>1, <1>4, <1>6 DEF OwnStep, tableVars, Me
<1>9. LocalsFit(t)'
  BY <1>2, <1>3, <1>7, <1>8 DEF LocalsFit
<1>10. ~Tentative(t)' /\ Dropping(t)' /\ ~Moving(t)'
  BY <1>7 DEF Tentative, Dropping, Moving
<1>11. \A i \in Positions : i > p - 1 => slot'[Me(t)][i] = NoSlot
  BY <1>2, <1>3, <1>4 DEF SlotsInOrder, Emptied, Positions
<1>12. SlotsInOrder(t)'
  <2>1. \A i \in Positions : Emptied(t, i)' => slot'[Me(t)'][i] = NoSlot
    BY <1>7, <1>8, <1>10, <1>11 DEF Emptied
  <2> QED
    BY <1>7, <1>10, <2>1 DEF SlotsInOrder
<1>13. \A o \in Objects : Copies(t, o)' = Copies(t, o)
  BY <1>3, <1>10 DEF Copies, Given
<1>14. MarksOfObjects(Me(t))'
  BY <1>2, <1>4, <1>8 DEF MarksOfObjects, NoSlot, Slot, Inv, HandlesInOrder
<1>15. \A o \in Objects :
         /\ InOnePlace(t, o)' /\ (Deletes(t, o)' <=> Deletes(t, o))
         /\ \A h \in Ids, i \in Positions : AheadOf(t, o, h, i) => AheadOf(t, o, h, i)'
  <2>1. ~slot'[Me(t)][p].mark /\ pc[t] \in QuietPc
    BY <1>1, <1>4 DEF NoSlot, Slot, QuietPc
  <2>2. ~s.mark => pc'[t] \in QuietPc
    BY <1>6 DEF QuietPc
  <2>3. s.mark => /\ pc'[t] = "markSlot" /\ loc'[t].h = Me(t) /\ loc'[t].i = p
                  /\ loc'[t].ptr = s.ptr
    BY <1>6, <1>7
  <2> QED
    BY <1>2, <1>3, <1>4, <1>7, <1>8, <2>1, <2>2, <2>3, TakesOver
<1>16. pc'[t] \notin {"insertCount", "insertStore"}
  BY <1>7
<1> QED
  BY <1>1, <1>2, <1>8, <1>9, <1>12, <1>13, <1>14, <1>15, <1>16, SamePlaceKeeps

(* A mark that moves from the last slot down to position p: what protects  *)
(* the object is now p itself, unless it was below p before.               *)
LEMMA MovesDownKeeps ==
  ASSUME Inv, NEW t \in Threads, hpc[t] = "has", OwnStep(t), TypeOK',
         UNCHANGED clientVars, LocalsFit(t)', SlotsInOrder(t)', MarksOfObjects(Me(t))',
         pc'[t] \notin {"insertCount", "insertStore"},
         \A o \in Objects : InOnePlace(t, o)' /\ (Deletes(t, o)' <=> Deletes(t, o)),
         NEW p \in Positions, NEW q,
         \A o \in Objects, h \in Ids \ {Me(t)}, i \in Positions :
           AheadOf(t, o, h, i) => AheadOf(t, o, h, i)',
         \A o \in Objects \ {q}, i \in Positions :
           /\ Copies(t, o)' = Copies(t, o)
           /\ AheadOf(t, o, Me(t), i) => AheadOf(t, o, Me(t), i)',
         q \in Objects =>
           /\ p \in Copies(t, q)' /\ \A i \in Copies(t, q) : i < p => i \in Copies(t, q)'
           /\ Cardinality(Copies(t, q)') = Cardinality(Copies(t, q))
           /\ \A i, j \in Positions : AheadOf(t, q, Me(t), i) /\ j <= i /\ j <= p =>
                AheadOf(t, q, Me(t), j)'
  PROVE  Inv'
<1>1. Me(t) \in Ids /\ \A u \in Threads : Me(u)' = Me(u)
  BY OwnHandle DEF OwnStep, tableVars, Me, Inv
<1>2. ASSUME NEW o \in Objects, NEW u \in Threads \ {t}, NEW i \in Copies(u, o),
             hpc[u] = "has", AheadOf(t, o, Me(u), i)
      PROVE  AheadOf(t, o, Me(u), i)'
  <2>1. i \in Positions /\ Me(u) \in Ids \ {Me(t)}
    BY <1>2, OthersKeep DEF Copies, Given
  <2> QED
    BY <1>1, <1>2, <2>1
<1>3. ASSUME NEW o \in Objects, held[t][o] > 0
      PROVE  /\ Cardinality(Copies(t, o)') = Cardinality(Copies(t, o))
             /\ \E i \in Copies(t, o)' :
                  /\ \A u \in Threads \ {t} : AheadOf(u, o, Me(t), i)
                  /\ AheadOf(t, o, Me(t), i)'
  <2>1. PICK i \in Copies(t, o) : \A u \in Threads : AheadOf(u, o, Me(t), i)
    BY <1>3, HeldAhead
  <2>2. i \in Positions
    BY <2>1 DEF Copies, Given
  <2>3. CASE o # q
    BY <2>1, <2>2, <2>3
  <2>4. CASE o = q /\ i < p
    <3>1. i <= i /\ i <= p
      BY <2>2, <2>4 DEF Positions
    <3> QED
      BY <2>1, <2>2, <2>4, <3>1
  <2>5. CASE o = q /\ ~(i < p)
    <3>1. p <= i /\ p <= p
      BY <2>2, <2>5 DEF Positions
    <3>2. \A u \in Threads : AheadOf(u, o, Me(t), p)
      BY <1>1, <2>1, <2>2, <3>1, AheadDown
    <3>3. AheadOf(t, o, Me(t), p)'
      BY <2>1, <2>2, <2>5, <3>1
    <3> QED
      BY <2>5, <3>2, <3>3
  <2> QED
    BY <2>3, <2>4, <2>5
<1> QED
  BY <1>2, <1>3, OwnKeeps

(* remove, while it overwrites a slot with the last one.                   *)
LEMMA InRemove ==
  ASSUME Inv, NEW t \in Threads, Moving(t)
  PROVE  /\ hpc[t] = "has" /\ LocalsFit(t) /\ SlotsInOrder(t) /\ Me(t) \in Ids
         /\ loc[t] \in LocType /\ counter[Me(t)] \in 0 .. MaxProtections
         /\ loc[t].ptr \in Objects /\ loc[t].then = "idle"
         /\ loc[t].pos \in Positions /\ loc[t].pos < counter[Me(t)]
         /\ loc[t].last \in SlotType /\ (loc[t].last.mark => loc[t].last.ptr \in Objects)
         /\ ~Tentative(t) /\ ~Dropping(t)
         /\ \A i \in Positions : slot[Me(t)][i] \in SlotType
<1>1. /\ hpc[t] = "has" /\ LocalsFit(t) /\ SlotsInOrder(t) /\ Me(t) \in Ids
      /\ loc[t] \in LocType /\ counter[Me(t)] \in 0 .. MaxProtections
  BY InOperation DEF Moving
<1>2. loc[t].ptr \in Objects /\ loc[t].then = "idle" /\ ~Tentative(t) /\ ~Dropping(t)
  BY <1>1 DEF Moving, LocalsFit, LocType, Tentative, Dropping
<1>3. loc[t].pos \in Positions /\ loc[t].pos < counter[Me(t)]
  BY <1>1 DEF SlotsInOrder
<1>4. loc[t].last \in SlotType /\ (loc[t].last.mark => loc[t].last.ptr \in Objects)
  BY <1>1 DEF LocType, LocalsFit
<1>5. \A i \in Positions : slot[Me(t)][i] \in SlotType
  BY <1>1 DEF Inv, TypeOK
<1> QED
  BY <1>1, <1>2, <1>3, <1>4, <1>5

LEMMA MoveDownKeeps ==
  ASSUME Inv, NEW t \in Threads, MoveDown(t), TypeOK'
  PROVE  Inv'
<1> SUFFICES ASSUME NEW l, l = loc[t], NEW n, n = counter[Me(t)], NEW p, p = l.pos,
                    NEW q, q = l.last.ptr, NEW top, top = n - 1,
                    NEW k, k = [l EXCEPT !.marked = slot[Me(t)][p].mark]
             PROVE  Inv'
  OBVIOUS
<1>1. /\ pc[t] = "moveDown" /\ SetSlot(Me(t), p, l.last) /\ Goto(t, "dropTop", k)
      /\ UNCHANGED <<tableVars, clientVars, counter>>
  BY DEF MoveDown
<1>2. /\ hpc[t] = "has" /\ LocalsFit(t) /\ SlotsInOrder(t) /\ Me(t) \in Ids
      /\ l \in LocType /\ n \in 0 .. MaxProtections /\ l.ptr \in Objects
      /\ l.then = "idle" /\ p \in Positions /\ p < n /\ l.last \in SlotType
      /\ l.last.mark => q \in Objects
      /\ ~Tentative(t) /\ ~Dropping(t) /\ \A i \in Positions : slot[Me(t)][i] \in SlotType
  BY <1>1, InRemove DEF Moving
<1>3. /\ ~l.marked /\ slot[Me(t)][p].ptr = l.ptr
      /\ p < top /\ top \in Positions /\ TopCopy(t) = top
      /\ slot[Me(t)][top] \in {l.last, Slot(q, TRUE)}
      /\ \A i \in Positions : i >= n => slot[Me(t)][i] = NoSlot
  BY <1>1, <1>2 DEF LocalsFit, SlotsInOrder, TopCopy, TopPosition, Emptied
<1>4. slot[Me(t)][top].ptr = q
  BY <1>3 DEF Slot
<1>5. /\ slot'[Me(t)][p] = l.last
      /\ \A j \in Positions \ {p} : slot'[Me(t)][j] = slot[Me(t)][j]
      /\ \A g \in Ids \ {Me(t)} : slot'[g] = slot[g]
  BY <1>1, <1>2, SetSlotGives DEF Inv
<1>6. /\ k.ptr = l.ptr /\ k.pos = p /\ k.last = l.last /\ k.then = "idle"
      /\ k.marked = slot[Me(t)][p].mark
  BY <1>2 DEF LocType
<1>7. pc'[t] = "dropTop" /\ loc'[t] = k /\ OthersStay(t)
  BY <1>1, GotoMoves DEF Inv
<1>8. OwnStep(t) /\ UNCHANGED <<hpc, counter>> /\ Me(t)' = Me(t)
  BY <1>1, <1>5, <1>7 DEF OwnStep, tableVars, Me
<1>9. LocalsFit(t)'
  BY <1>2, <1>6, <1>7, <1>8 DEF LocalsFit
<1>10. ~Tentative(t)' /\ ~Dropping(t)' /\ Moving(t)' /\ TopCopy(t)' = top
  BY <1>6, <1>7, <1>8 DEF Tentative, Dropping, Moving, TopCopy, TopPosition
<1>11. SlotsInOrder(t)'
  <2>1. \A i \in Positions : Emptied(t, i)' => slot'[Me(t)'][i] = NoSlot
    BY <1>2, <1>3, <1>5, <1>7, <1>8, <1>10 DEF Emptied, Positions
  <2>2. /\ loc'[t].pos = p /\ loc'[t].last = l.last /\ loc'[t].then = "idle"
        /\ slot'[Me(t)'][p] = l.last /\ slot'[Me(t)'][top] = slot[Me(t)][top]
        /\ counter'[Me(t)'] = n
    BY <1>2, <1>3, <1>5, <1>6, <1>7, <1>8 DEF Positions
  <2> QED
    BY <1>2, <1>3, <1>7, <1>10, <2>1, <2>2 DEF SlotsInOrder
<1>12. MarksOfObjects(Me(t))'
  BY <1>2, <1>5, <1>8 DEF MarksOfObjects, Inv, HandlesInOrder
<1>13. ASSUME NEW o \in Objects
       PROVE  /\ ~Walking(t, o) /\ ~MarkInHand(t, o) /\ ~MarkInHand(t, o)'
              /\ Walking(t, o)' <=> OwnMarked(t, p, o)
              /\ OwnMarked(t, p, o)' \/ OwnMarked(t, top, o)' <=> OwnMarked(t, top, o)
              /\ ~(OwnMarked(t, p, o)' /\ OwnMarked(t, top, o)')
              /\ OwnMarked(t, top, o) => o = q
              /\ \A j \in Positions \ {p, top} : OwnMarked(t, j, o)' <=> OwnMarked(t, j, o)
  <2>1. ~Walking(t, o) /\ ~MarkInHand(t, o) /\ ~MarkInHand(t, o)'
    BY <1>1, <1>3, <1>7 DEF Walking, MarkInHand
  <2>2. \A j \in Positions : OwnMarked(t, j, o) <=> slot[Me(t)][j] = Slot(o, TRUE)
    BY <1>1, <1>2 DEF OwnMarked
  <2>3. Walking(t, o)' <=> OwnMarked(t, p, o)
    <3>1. Walking(t, o)' <=> k.ptr = o /\ k.marked
      BY <1>7 DEF Walking
    <3>2. slot[Me(t)][p] = Slot(o, TRUE) <=> slot[Me(t)][p].mark /\ slot[Me(t)][p].ptr = o
      BY <1>2, MarkedSlot
    <3>3. OwnMarked(t, p, o) <=> slot[Me(t)][p] = Slot(o, TRUE)
      BY <1>2, <2>2
    <3> QED
      BY <1>3, <1>6, <3>1, <3>2, <3>3
  <2>9. \A j \in Positions : OwnMarked(t, j, o)' <=>
          slot'[Me(t)][j] = Slot(o, TRUE) /\ ~(j = top /\ l.last = slot'[Me(t)][j])
    <3>1. hpc'[t] = "has" /\ Me(t)' = Me(t) /\ pc'[t] = "dropTop" /\ loc'[t].pos = p
      BY <1>2, <1>6, <1>7, <1>8
    <3> QED
      BY <1>5, <1>10, <3>1 DEF OwnMarked
  <2>4. OwnMarked(t, p, o)' <=> l.last = Slot(o, TRUE)
    <3>1. p # top
      BY <1>2, <1>3 DEF Positions
    <3> QED
      BY <1>2, <1>5, <2>9, <3>1
  <2>5. OwnMarked(t, top, o)' <=> slot[Me(t)][top] = Slot(o, TRUE) /\ l.last # Slot(o, TRUE)
    <3>1. slot'[Me(t)][top] = slot[Me(t)][top]
      BY <1>2, <1>3, <1>5 DEF Positions
    <3> QED
      BY <1>3, <2>9, <3>1
  <2>6. l.last = Slot(o, TRUE) => slot[Me(t)][top] = Slot(o, TRUE)
    BY <1>3 DEF Slot
  <2>7. ASSUME NEW j \in Positions \ {p, top}
        PROVE  OwnMarked(t, j, o)' <=> OwnMarked(t, j, o)
    <3>1. OwnMarked(t, j, o)' <=> slot'[Me(t)][j] = Slot(o, TRUE)
      BY <2>9
    <3>2. slot'[Me(t)][j] = slot[Me(t)][j]
      BY <1>5
    <3> QED
      BY <2>2, <3>1, <3>2
  <2>8. slot[Me(t)][top] = Slot(o, TRUE) => o = q
    BY <1>4 DEF Slot
  <2> QED
    BY <1>3, <2>1, <2>2, <2>3, <2>4, <2>5, <2>6, <2>7, <2>8
<1>14. \A o \in Objects : InOnePlace(t, o)' /\ (Deletes(t, o)' <=> Deletes(t, o))
  <2> SUFFICES ASSUME NEW o \in Objects
               PROVE  InOnePlace(t, o)' /\ (Deletes(t, o)' <=> Deletes(t, o))
    OBVIOUS
  <2>1. InOnePlace(t, o) /\ p # top
    BY <1>2, <1>3 DEF Inv, OnePerThread, Positions
  <2> QED
    BY <1>2, <1>3, <1>13, <2>1 DEF InOnePlace, Deletes
<1>15. ASSUME NEW o \in Objects, NEW h \in Ids, NEW i \in Positions, NEW j \in Positions,
              AheadOf(t, o, h, i), j = i \/ (h = Me(t) /\ j <= i), 
              h = Me(t) => o # q \/ j <= p
       PROVE  AheadOf(t, o, h, j)'
  <2>1. \A g \in Positions : OwnMarked(t, g, o) => UpTo(h, i, Me(t), g)
    BY <1>15 DEF AheadOf
  <2>2. \A g \in Positions : OwnMarked(t, g, o) => UpTo(h, j, Me(t), g)
    BY <1>15, <2>1 DEF UpTo, Positions
  <2>3. Walking(t, o)' => UpTo(h, j, Me(t), p)
    BY <1>2, <1>13, <2>2
  <2>4. OwnMarked(t, p, o)' => UpTo(h, j, Me(t), p)
    BY <1>2, <1>3, <1>13, <1>15, <2>2 DEF UpTo, Positions
  <2>5. \A g \in Positions : OwnMarked(t, g, o)' => UpTo(h, j, Me(t), g)
    BY <1>3, <1>13, <2>2, <2>4
  <2> QED
    BY <1>6, <1>7, <1>8, <1>13, <2>3, <2>5 DEF AheadOf
<1>16. Given(t) = {i \in Positions : i < n /\ i # p}
       /\ Given(t)' = {i \in Positions : i < n /\ i # top}
  BY <1>1, <1>2, <1>6, <1>7, <1>8, <1>10 DEF Given
<1>17. \A o \in Objects \ {q} : Copies(t, o)' = Copies(t, o)
  <2> SUFFICES ASSUME NEW o \in Objects \ {q}
               PROVE  Copies(t, o)' = Copies(t, o)
    OBVIOUS
  <2>1. \A i \in Positions : i \in Copies(t, o)' <=> i \in Copies(t, o)
    BY <1>3, <1>4, <1>5, <1>8, <1>16 DEF Copies
  <2> QED
    BY <2>1, <1>16 DEF Copies
<1>18. ASSUME q \in Objects
       PROVE  /\ p \in Copies(t, q)' /\ \A i \in Copies(t, q) : i < p => i \in Copies(t, q)'
              /\ Cardinality(Copies(t, q)') = Cardinality(Copies(t, q))
  <2>1. /\ p \notin Copies(t, q) /\ top \in Copies(t, q)
        /\ p # top /\ top < n
    BY <1>2, <1>3, <1>4, <1>16 DEF Copies, Positions
  <2>2. Copies(t, q)' = (Copies(t, q) \ {top}) \cup {p}
    <3>1. \A i \in Positions : i \in Copies(t, q)' <=> i \in (Copies(t, q) \ {top}) \cup {p}
      BY <1>2, <1>4, <1>5, <1>8, <1>16, <2>1 DEF Copies
    <3> QED
      BY <1>2, <1>16, <3>1 DEF Copies
  <2>3. /\ IsFiniteSet(Copies(t, q) \ {top})
        /\ Cardinality(Copies(t, q) \ {top}) = Cardinality(Copies(t, q)) - 1
    BY <1>18, <2>1, CopiesFinite, FS_RemoveElement
  <2>4. Cardinality(Copies(t, q)') = Cardinality(Copies(t, q) \ {top}) + 1
    <3> SUFFICES ASSUME NEW R, R = Copies(t, q) \ {top}
                 PROVE  Cardinality(Copies(t, q)') = Cardinality(R) + 1
      OBVIOUS
    <3>1. Copies(t, q)' = R \cup {p} /\ p \notin R /\ IsFiniteSet(R)
      BY <2>1, <2>2, <2>3
    <3>2. Cardinality(R \cup {p}) = Cardinality(R) + 1
      BY <3>1, FS_AddElement
    <3> QED
      BY <3>1, <3>2
  <2>5. \A i \in Copies(t, q) : i < p => i \in Copies(t, q)'
    BY <1>2, <1>3, <1>16, <2>2 DEF Copies, Positions
  <2>6. Cardinality(Copies(t, q)) \in Nat
    BY <1>18, CopiesFinite
  <2> QED
    BY <2>2, <2>3, <2>4, <2>5, <2>6
<1>19. \A o \in Objects, h \in Ids \ {Me(t)}, i \in Positions :
         AheadOf(t, o, h, i) => AheadOf(t, o, h, i)'
  BY <1>15
<1>20. \A o \in Objects \ {q}, i \in Positions :
         AheadOf(t, o, Me(t), i) => AheadOf(t, o, Me(t), i)'
  BY <1>2, <1>8, <1>15
<1>21. q \in Objects => \A i, j \in Positions :
         AheadOf(t, q, Me(t), i) /\ j <= i /\ j <= p => AheadOf(t, q, Me(t), j)'
  BY <1>2, <1>8, <1>15
<1>22. pc'[t] \notin {"insertCount", "insertStore"}
  BY <1>7
<1> QED
  BY <1>1, <1>2, <1>8, <1>9, <1>11, <1>12, <1>14, <1>17, <1>18, <1>19, <1>20, <1>21,
     <1>22, MovesDownKeeps

LEMMA DropTopKeeps ==
  ASSUME Inv, NEW t \in Threads, DropTop(t), TypeOK'
  PROVE  Inv'
<1> SUFFICES ASSUME NEW l, l = loc[t], NEW n, n = counter[Me(t)], NEW p, p = l.pos,
                    NEW top, top = n - 1
             PROVE  Inv'
  OBVIOUS
<1>1. /\ pc[t] = "dropTop" /\ counter' = [counter EXCEPT ![Me(t)] = n - 1]
      /\ Goto(t, "clearTop", l) /\ UNCHANGED <<tableVars, clientVars, slot>>
  BY DEF DropTop
<1>2. /\ hpc[t] = "has" /\ LocalsFit(t) /\ SlotsInOrder(t) /\ Me(t) \in Ids
      /\ l \in LocType /\ n \in 0 .. MaxProtections /\ l.ptr \in Objects
      /\ l.then = "idle" /\ p \in Positions /\ p < n
      /\ ~Tentative(t) /\ ~Dropping(t) /\ Moving(t)
  BY <1>1, InRemove DEF Moving
<1>3. /\ p < top /\ top \in Positions /\ TopCopy(t) = top
      /\ \A i \in Positions : i >= n => slot[Me(t)][i] = NoSlot
  BY <1>1, <1>2 DEF SlotsInOrder, TopCopy, TopPosition, Emptied
<1>4. pc'[t] = "clearTop" /\ loc'[t] = l /\ OthersStay(t)
  BY <1>1, GotoMoves DEF Inv
<1>5. /\ OwnStep(t) /\ UNCHANGED <<hpc, slot>> /\ Me(t)' = Me(t) /\ counter'[Me(t)] = top
  BY <1>1, <1>2, <1>4 DEF OwnStep, tableVars, Me, Inv, TypeOK
<1>6. LocalsFit(t)'
  BY <1>1, <1>2, <1>4, <1>5 DEF LocalsFit
<1>7. ~Tentative(t)' /\ ~Dropping(t)' /\ Moving(t)' /\ TopCopy(t)' = top
  BY <1>2, <1>4, <1>5 DEF Tentative, Dropping, Moving, TopCopy
<1>8. SlotsInOrder(t)'
  <2>1. \A i \in Positions : Emptied(t, i)' => slot'[Me(t)'][i] = NoSlot
    BY <1>2, <1>3, <1>4, <1>5, <1>7 DEF Emptied, Positions
  <2>2. /\ loc'[t] = l /\ slot'[Me(t)'] = slot[Me(t)] /\ counter'[Me(t)'] = top
    BY <1>4, <1>5
  <2> QED
    BY <1>1, <1>2, <1>3, <1>4, <1>7, <2>1, <2>2 DEF SlotsInOrder
<1>9. MarksOfObjects(Me(t))'
  BY <1>2, <1>5 DEF MarksOfObjects, Inv, HandlesInOrder
<1>10. \A o \in Objects :
         /\ Walking(t, o)' <=> Walking(t, o)
         /\ ~MarkInHand(t, o) /\ ~MarkInHand(t, o)'
  BY <1>1, <1>4 DEF Walking, MarkInHand
<1>11. \A o \in Objects, i \in Positions : OwnMarked(t, i, o)' <=> OwnMarked(t, i, o)
  BY <1>1, <1>3, <1>4, <1>5, <1>7 DEF OwnMarked
<1>12. \A o \in Objects : InOnePlace(t, o)' /\ (Deletes(t, o)' <=> Deletes(t, o))
  <2>1. \A o \in Objects : InOnePlace(t, o)
    BY DEF Inv, OnePerThread
  <2> QED
    BY <1>10, <1>11, <2>1 DEF InOnePlace, Deletes
<1>13. \A o \in Objects, h \in Ids, i \in Positions :
         AheadOf(t, o, h, i) => AheadOf(t, o, h, i)'
  BY <1>2, <1>4, <1>5, <1>7, <1>10, <1>11 DEF AheadOf
<1>14. Given(t)' = Given(t)
  BY <1>1, <1>2, <1>3, <1>4, <1>5, <1>7 DEF Given, Positions
<1>15. \A o \in Objects : Copies(t, o)' = Copies(t, o)
  BY <1>5, <1>14 DEF Copies
<1>16. pc'[t] \notin {"insertCount", "insertStore"}
  BY <1>4
<1> QED
  BY <1>1, <1>2, <1>5, <1>6, <1>8, <1>9, <1>12, <1>13, <1>15, <1>16, SamePlaceKeeps

(* remove goes on with the deletion it took over, or is done.              *)
LEMMA RemoveEnds ==
  ASSUME Inv, NEW t \in Threads, Moving(t), pc[t] \in {"clearTop", "moveMark"},
         ContinueIf(loc[t].marked, t, loc[t], loc[t].pos)
  PROVE  /\ OthersStay(t) /\ pc'[t] \in {"idle", "markSlot"}
         /\ pc'[t] = "idle" => loc'[t] = NoLoc /\ ~loc[t].marked
         /\ pc'[t] = "markSlot" =>
              /\ loc[t].marked /\ loc'[t].ptr = loc[t].ptr
              /\ loc'[t].h = Me(t) /\ loc'[t].i = loc[t].pos
         /\ loc'[t].marked => pc'[t] = "markSlot"
         /\ loc'[t].then = "idle" /\ (loc'[t].last.mark => loc'[t].last.ptr \in Objects)
<1> SUFFICES ASSUME NEW l, l = loc[t]
             PROVE  /\ OthersStay(t) /\ pc'[t] \in {"idle", "markSlot"}
                    /\ pc'[t] = "idle" => loc'[t] = NoLoc /\ ~l.marked
                    /\ pc'[t] = "markSlot" =>
                         /\ l.marked /\ loc'[t].ptr = l.ptr
                         /\ loc'[t].h = Me(t) /\ loc'[t].i = l.pos
                    /\ loc'[t].marked => pc'[t] = "markSlot"
                    /\ loc'[t].then = "idle"
                    /\ loc'[t].last.mark => loc'[t].last.ptr \in Objects
  OBVIOUS
<1>1. /\ ContinueIf(l.marked, t, l, l.pos) /\ l \in LocType /\ l.then = "idle"
      /\ l.last.mark => l.last.ptr \in Objects
  BY InRemove
<1>2. CASE l.marked
  <2> DEFINE k == [l EXCEPT !.h = Me(t), !.i = l.pos]
  <2>1. /\ k.ptr = l.ptr /\ k.h = Me(t) /\ k.i = l.pos
        /\ k.then = l.then /\ k.last = l.last
    BY <1>1 DEF LocType
  <2>2. pc'[t] = "markSlot" /\ loc'[t] = k /\ OthersStay(t)
    BY <1>1, <1>2, GotoMoves DEF ContinueIf, Inv
  <2> HIDE DEF k
  <2> QED
    BY <1>1, <1>2, <2>1, <2>2
<1>3. CASE ~l.marked
  <2>1. pc'[t] = "idle" /\ loc'[t] = NoLoc /\ OthersStay(t)
    BY <1>1, <1>3, ReturnMoves DEF ContinueIf, GoOn, Inv
  <2>2. ~NoLoc.marked /\ NoLoc.then = "idle" /\ ~NoLoc.last.mark
    BY DEF NoLoc, NoSlot, Slot
  <2> QED
    BY <1>3, <2>1, <2>2
<1> QED
  BY <1>2, <1>3

LEMMA SlotIs ==
  ASSUME NEW o, NEW q
  PROVE  /\ Slot(o, TRUE).ptr = o /\ Slot(o, TRUE).mark
         /\ Slot(o, TRUE) = Slot(q, TRUE) <=> o = q
<1>1. Slot(o, TRUE).ptr = o /\ Slot(o, TRUE).mark /\ Slot(q, TRUE).ptr = q
  BY DEF Slot
<1> QED
  BY <1>1

LEMMA SlotHas ==
  ASSUME NEW o
  PROVE  Slot(o, TRUE).ptr = o /\ Slot(o, TRUE).mark
BY DEF Slot

LEMMA MarksFit ==
  ASSUME Inv, NEW h \in Ids, NEW i \in Positions, slot[h][i].mark
  PROVE  slot[h][i].ptr \in Objects
BY DEF Inv, HandlesInOrder

LEMMA ClearTopEnds ==
  ASSUME Inv, NEW t \in Threads, ClearTop(t), TypeOK',
         slot[Me(t)][counter[Me(t)]] = loc[t].last
  PROVE  Inv'
<1> SUFFICES ASSUME NEW l, l = loc[t], NEW n, n = counter[Me(t)], NEW p, p = l.pos,
                    NEW s, s = slot[Me(t)][n], s = l.last
             PROVE  Inv'
  OBVIOUS
<1>1. /\ pc[t] = "clearTop" /\ SetSlot(Me(t), n, NoSlot)
      /\ ContinueIf(l.marked, t, l, p) /\ UNCHANGED <<tableVars, clientVars, counter>>
  BY DEF ClearTop
<1>2. /\ hpc[t] = "has" /\ LocalsFit(t) /\ SlotsInOrder(t) /\ Me(t) \in Ids
      /\ l \in LocType /\ n \in 0 .. MaxProtections /\ l.ptr \in Objects
      /\ l.then = "idle" /\ p \in Positions /\ p < n /\ l.last \in SlotType
      /\ ~Tentative(t) /\ ~Dropping(t) /\ Moving(t)
  BY <1>1, InRemove DEF Moving
<1>3. /\ n \in Positions /\ TopCopy(t) = n /\ slot[Me(t)][p] \in {l.last, Slot(l.last.ptr, TRUE)}
      /\ \A i \in Positions : i > n => slot[Me(t)][i] = NoSlot
  <2>1. TopCopy(t) = n /\ n \in Positions /\ slot[Me(t)][p] \in {l.last, Slot(l.last.ptr, TRUE)}
    BY <1>1, <1>2 DEF SlotsInOrder, TopCopy
  <2>2. \A i \in Positions : i > n => Emptied(t, i)
    BY <1>1, <1>2 DEF Emptied, Positions
  <2> QED
    BY <1>2, <2>1, <2>2 DEF SlotsInOrder
<1>4. /\ slot'[Me(t)][n] = NoSlot
      /\ \A j \in Positions \ {n} : slot'[Me(t)][j] = slot[Me(t)][j]
      /\ \A g \in Ids \ {Me(t)} : slot'[g] = slot[g]
  <2>1. NoSlot \in SlotType
    BY DEF NoSlot, Slot, SlotType, Pointers
  <2> QED
    BY <1>1, <1>2, <1>3, <2>1, SetSlotGives DEF Inv
<1>5. /\ OthersStay(t) /\ pc'[t] \in {"idle", "markSlot"}
      /\ pc'[t] = "idle" => loc'[t] = NoLoc /\ ~l.marked
      /\ pc'[t] = "markSlot" =>
           /\ l.marked /\ loc'[t].ptr = l.ptr /\ loc'[t].h = Me(t) /\ loc'[t].i = p
      /\ loc'[t].marked => pc'[t] = "markSlot"
      /\ loc'[t].then = "idle" /\ (loc'[t].last.mark => loc'[t].last.ptr \in Objects)
  BY <1>1, <1>2, RemoveEnds
<1>6. OwnStep(t) /\ UNCHANGED <<hpc, counter>> /\ Me(t)' = Me(t)
  BY <1>1, <1>4, <1>5 DEF OwnStep, tableVars, Me
<1>7. LocalsFit(t)'
  BY <1>2, <1>5, <1>6 DEF LocalsFit
<1>8. ~Tentative(t)' /\ ~Dropping(t)' /\ ~Moving(t)'
  BY <1>5 DEF Tentative, Dropping, Moving
<1>9. SlotsInOrder(t)'
  <2>1. \A i \in Positions : Emptied(t, i)' => slot'[Me(t)'][i] = NoSlot
    BY <1>2, <1>3, <1>4, <1>5, <1>6, <1>8 DEF Emptied, Positions
  <2> QED
    BY <1>5, <1>8, <2>1 DEF SlotsInOrder
<1>10. MarksOfObjects(Me(t))'
  BY <1>2, <1>4, <1>6 DEF MarksOfObjects, NoSlot, Slot, Inv, HandlesInOrder
<1>11. ASSUME NEW o \in Objects
       PROVE  /\ Walking(t, o)' <=> Walking(t, o)
              /\ ~MarkInHand(t, o) /\ ~MarkInHand(t, o)'
              /\ \A i \in Positions : OwnMarked(t, i, o)' <=> OwnMarked(t, i, o)
  <2>1. ~MarkInHand(t, o) /\ ~MarkInHand(t, o)'
    BY <1>1, <1>5 DEF MarkInHand
  <2>2. Walking(t, o) <=> l.ptr = o /\ l.marked
    BY <1>1 DEF Walking
  <2>3. Walking(t, o)' <=> pc'[t] = "markSlot" /\ loc'[t].ptr = o
    BY <1>5 DEF Walking
  <2>4. ASSUME NEW i \in Positions \ {n}
        PROVE  OwnMarked(t, i, o)' <=> OwnMarked(t, i, o)
    <3>1. OwnMarked(t, i, o) <=> slot[Me(t)][i] = Slot(o, TRUE)
      BY <1>2, <1>3 DEF OwnMarked
    <3>2. OwnMarked(t, i, o)' <=> slot'[Me(t)][i] = Slot(o, TRUE)
      BY <1>2, <1>5, <1>6 DEF OwnMarked
    <3> QED
      BY <1>4, <3>1, <3>2
  <2>5. ~OwnMarked(t, n, o)
    <3>1. OwnMarked(t, n, o) <=> s = Slot(o, TRUE) /\ slot[Me(t)][p] # s
      BY <1>1, <1>2, <1>3 DEF OwnMarked
    <3>2. s = Slot(o, TRUE) => l.last.ptr = o
      BY SlotIs
    <3>3. s = Slot(o, TRUE) => slot[Me(t)][p] = s
      BY <1>3, <3>2
    <3> QED
      BY <3>1, <3>3
  <2>6. ~OwnMarked(t, n, o)'
    <3>1. OwnMarked(t, n, o)' => slot'[Me(t)][n] = Slot(o, TRUE)
      BY <1>6 DEF OwnMarked
    <3> QED
      BY <1>4, <3>1 DEF NoSlot, Slot
  <2> QED
    BY <1>3, <1>5, <2>1, <2>2, <2>3, <2>4, <2>5, <2>6
<1>12. \A o \in Objects : InOnePlace(t, o)' /\ (Deletes(t, o)' <=> Deletes(t, o))
  <2>1. \A o \in Objects : InOnePlace(t, o)
    BY DEF Inv, OnePerThread
  <2> QED
    BY <1>11, <2>1 DEF InOnePlace, Deletes
<1>13. ASSUME NEW o \in Objects, NEW h \in Ids, NEW i \in Positions, AheadOf(t, o, h, i)
       PROVE  AheadOf(t, o, h, i)'
  <2>1. Walking(t, o)' => UpTo(h, i, Me(t), p)
    BY <1>2, <1>11, <1>13 DEF AheadOf
  <2>2. Walking(t, o)' => pc'[t] = "markSlot" /\ loc'[t].h = Me(t) /\ loc'[t].i = p
    BY <1>5 DEF Walking
  <2>3. \A j \in Positions : OwnMarked(t, j, o)' => UpTo(h, i, Me(t), j)
    BY <1>11, <1>13 DEF AheadOf
  <2> QED
    BY <1>6, <1>8, <1>11, <2>1, <2>2, <2>3 DEF AheadOf
<1>14. Given(t)' = Given(t)
  BY <1>1, <1>2, <1>5, <1>6, <1>8 DEF Given
<1>15. \A o \in Objects : Copies(t, o)' = Copies(t, o)
  <2>1. n \notin Given(t)
    BY <1>2 DEF Given
  <2> QED
    BY <1>4, <1>6, <1>14, <2>1 DEF Copies, Given
<1>16. pc'[t] \notin {"insertCount", "insertStore"}
  BY <1>5
<1> QED
  BY <1>1, <1>2, <1>6, <1>7, <1>9, <1>10, <1>12, <1>13, <1>15, <1>16, SamePlaceKeeps

LEMMA ClearTopFindsMark ==
  ASSUME Inv, NEW t \in Threads, ClearTop(t), TypeOK',
         slot[Me(t)][counter[Me(t)]] # loc[t].last
  PROVE  Inv'
<1> SUFFICES ASSUME NEW l, l = loc[t], NEW n, n = counter[Me(t)], NEW p, p = l.pos,
                    NEW s, s = slot[Me(t)][n], s # l.last, NEW q, q = l.last.ptr,
                    NEW k, k = [l EXCEPT !.last = s]
             PROVE  Inv'
  OBVIOUS
<1>1. /\ pc[t] = "clearTop" /\ SetSlot(Me(t), n, NoSlot) /\ Goto(t, "moveMark", k)
      /\ UNCHANGED <<tableVars, clientVars, counter>>
  BY DEF ClearTop
<1>2. /\ hpc[t] = "has" /\ LocalsFit(t) /\ SlotsInOrder(t) /\ Me(t) \in Ids
      /\ l \in LocType /\ n \in 0 .. MaxProtections /\ l.ptr \in Objects
      /\ l.then = "idle" /\ p \in Positions /\ p < n /\ l.last \in SlotType
      /\ ~Tentative(t) /\ ~Dropping(t) /\ Moving(t)
  BY <1>1, InRemove DEF Moving
<1>3. /\ n \in Positions /\ TopCopy(t) = n /\ s = Slot(q, TRUE)
      /\ slot[Me(t)][p] \in {l.last, Slot(q, TRUE)}
      /\ slot[Me(t)][p].mark /\ s.mark => l.last.mark
      /\ \A i \in Positions : i > n => slot[Me(t)][i] = NoSlot
  <2>1. TopCopy(t) = n
    BY <1>1 DEF TopCopy
  <2>2. /\ n \in Positions /\ slot[Me(t)][n] \in {l.last, Slot(q, TRUE)}
        /\ slot[Me(t)][p] \in {l.last, Slot(q, TRUE)}
        /\ slot[Me(t)][p].mark /\ slot[Me(t)][n].mark => l.last.mark
    BY <1>1, <1>2, <2>1 DEF SlotsInOrder
  <2>3. \A i \in Positions : i > n => Emptied(t, i)
    BY <1>1, <1>2 DEF Emptied, Positions
  <2> QED
    BY <1>2, <2>1, <2>2, <2>3 DEF SlotsInOrder
<1>4. /\ s.mark /\ s.ptr = q /\ slot[Me(t)][p] = l.last /\ ~l.last.mark
      /\ slot[Me(t)][p].ptr = q
  <2>1. s.mark /\ s.ptr = q
    BY <1>3 DEF Slot
  <2>2. ~l.last.mark
    <3>1. l.last = Slot(q, TRUE) <=> l.last.mark /\ l.last.ptr = q
      BY <1>2, MarkedSlot
    <3> QED
      BY <1>3, <3>1
  <2>3. slot[Me(t)][p] # Slot(q, TRUE)
    BY <1>3, <2>1, <2>2 DEF Slot
  <2> QED
    BY <1>3, <2>1, <2>2, <2>3
<1>5. q \in Objects
  BY <1>2, <1>3, <1>4, MarksFit
<1>6. /\ slot'[Me(t)][n] = NoSlot
      /\ \A j \in Positions \ {n} : slot'[Me(t)][j] = slot[Me(t)][j]
      /\ \A g \in Ids \ {Me(t)} : slot'[g] = slot[g]
  <2>1. NoSlot \in SlotType
    BY DEF NoSlot, Slot, SlotType, Pointers
  <2> QED
    BY <1>1, <1>2, <1>3, <2>1, SetSlotGives DEF Inv
<1>7. /\ k.ptr = l.ptr /\ k.pos = p /\ k.last = s /\ k.then = "idle"
      /\ k.marked = l.marked
  BY <1>2 DEF LocType
<1>8. pc'[t] = "moveMark" /\ loc'[t] = k /\ OthersStay(t)
  BY <1>1, GotoMoves DEF Inv
<1>9. OwnStep(t) /\ UNCHANGED <<hpc, counter>> /\ Me(t)' = Me(t)
  BY <1>1, <1>6, <1>8 DEF OwnStep, tableVars, Me
<1>10. LocalsFit(t)'
  BY <1>2, <1>4, <1>5, <1>7, <1>8, <1>9 DEF LocalsFit
<1>11. ~Tentative(t)' /\ ~Dropping(t)' /\ Moving(t)'
  BY <1>7, <1>8 DEF Tentative, Dropping, Moving
<1>12. SlotsInOrder(t)'
  <2>1. \A i \in Positions : Emptied(t, i)' => slot'[Me(t)'][i] = NoSlot
    BY <1>2, <1>3, <1>6, <1>8, <1>9, <1>11 DEF Emptied, Positions
  <2>2. /\ loc'[t].pos = p /\ loc'[t].last = s /\ loc'[t].then = "idle"
        /\ slot'[Me(t)'][p] = slot[Me(t)][p] /\ counter'[Me(t)'] = n
    <3>1. p # n
      BY <1>2 DEF Positions
    <3> QED
      BY <1>2, <1>6, <1>7, <1>8, <1>9, <3>1
  <2> QED
    BY <1>2, <1>4, <1>8, <1>11, <2>1, <2>2 DEF SlotsInOrder
<1>13. MarksOfObjects(Me(t))'
  BY <1>2, <1>6, <1>9 DEF MarksOfObjects, NoSlot, Slot, Inv, HandlesInOrder
<1>14. ASSUME NEW o \in Objects
       PROVE  /\ Walking(t, o)' <=> Walking(t, o)
              /\ ~MarkInHand(t, o) /\ (MarkInHand(t, o)' <=> OwnMarked(t, n, o))
              /\ ~OwnMarked(t, n, o)' /\ (OwnMarked(t, n, o) => o = q)
              /\ \A i \in Positions \ {n} : OwnMarked(t, i, o)' <=> OwnMarked(t, i, o)
  <2>1. Walking(t, o)' <=> Walking(t, o)
    BY <1>1, <1>7, <1>8 DEF Walking
  <2>2. OwnMarked(t, n, o) <=> s = Slot(o, TRUE)
    <3>1. OwnMarked(t, n, o) <=> s = Slot(o, TRUE) /\ slot[Me(t)][p] # s
      BY <1>1, <1>2, <1>3 DEF OwnMarked
    <3> QED
      BY <1>4, <3>1
  <2>3. ~MarkInHand(t, o) /\ (MarkInHand(t, o)' <=> s = Slot(o, TRUE))
    BY <1>1, <1>7, <1>8 DEF MarkInHand
  <2>4. s = Slot(o, TRUE) => o = q
    BY <1>4 DEF Slot
  <2>5. ~OwnMarked(t, n, o)'
    <3>1. OwnMarked(t, n, o)' => slot'[Me(t)][n] = Slot(o, TRUE)
      BY <1>9 DEF OwnMarked
    <3> QED
      BY <1>6, <3>1 DEF NoSlot, Slot
  <2>6. ASSUME NEW i \in Positions \ {n}
        PROVE  OwnMarked(t, i, o)' <=> OwnMarked(t, i, o)
    <3>1. OwnMarked(t, i, o) <=> slot[Me(t)][i] = Slot(o, TRUE)
      BY <1>2, <1>3 DEF OwnMarked
    <3>2. OwnMarked(t, i, o)' <=> slot'[Me(t)][i] = Slot(o, TRUE)
      BY <1>2, <1>8, <1>9 DEF OwnMarked
    <3> QED
      BY <1>6, <3>1, <3>2
  <2> QED
    BY <2>1, <2>2, <2>3, <2>4, <2>5, <2>6
<1>15. \A o \in Objects : InOnePlace(t, o)' /\ (Deletes(t, o)' <=> Deletes(t, o))
  <2>1. \A o \in Objects : InOnePlace(t, o)
    BY DEF Inv, OnePerThread
  <2> QED
    BY <1>3, <1>14, <2>1 DEF InOnePlace, Deletes
<1>16. ASSUME NEW o \in Objects, NEW h \in Ids, NEW i \in Positions, NEW j \in Positions,
              AheadOf(t, o, h, i), j = i \/ (h = Me(t) /\ j <= i),
              h = Me(t) => o # q \/ j <= p
       PROVE  AheadOf(t, o, h, j)'
  <2>1. /\ Walking(t, o) => UpTo(h, i, Me(t), p)
        /\ \A g \in Positions : OwnMarked(t, g, o) => UpTo(h, i, Me(t), g)
    BY <1>2, <1>16 DEF AheadOf
  <2>2. /\ Walking(t, o) => UpTo(h, j, Me(t), p)
        /\ \A g \in Positions : OwnMarked(t, g, o) => UpTo(h, j, Me(t), g)
    BY <1>2, <1>16, <2>1 DEF UpTo, Positions
  <2>3. OwnMarked(t, n, o) => UpTo(h, j, Me(t), p)
    BY <1>2, <1>3, <1>14, <1>16, <2>2 DEF UpTo, Positions
  <2> QED
    BY <1>7, <1>8, <1>9, <1>14, <2>2, <2>3 DEF AheadOf
<1>17. Given(t)' = Given(t) /\ Given(t) = {i \in Positions : i < n}
  BY <1>1, <1>2, <1>8, <1>9, <1>11 DEF Given
<1>18. \A o \in Objects : Copies(t, o)' = Copies(t, o)
  <2>1. n \notin Given(t)
    BY <1>2 DEF Given
  <2> QED
    BY <1>6, <1>9, <1>17, <2>1 DEF Copies, Given
<1>19. /\ p \in Copies(t, q)' /\ \A i \in Copies(t, q) : i < p => i \in Copies(t, q)'
       /\ Cardinality(Copies(t, q)') = Cardinality(Copies(t, q))
  <2>1. p \in Copies(t, q)
    BY <1>2, <1>4, <1>17 DEF Copies
  <2> QED
    BY <1>5, <1>18, <2>1
<1>20. \A o \in Objects, h \in Ids \ {Me(t)}, i \in Positions :
         AheadOf(t, o, h, i) => AheadOf(t, o, h, i)'
  BY <1>16
<1>21. \A o \in Objects \ {q}, i \in Positions :
         AheadOf(t, o, Me(t), i) => AheadOf(t, o, Me(t), i)'
  BY <1>2, <1>9, <1>16
<1>22. \A i, j \in Positions :
         AheadOf(t, q, Me(t), i) /\ j <= i /\ j <= p => AheadOf(t, q, Me(t), j)'
  BY <1>2, <1>5, <1>9, <1>16
<1>23. pc'[t] \notin {"insertCount", "insertStore"}
  BY <1>8
<1> QED
  BY <1>1, <1>2, <1>9, <1>10, <1>12, <1>13, <1>15, <1>18, <1>19, <1>20, <1>21, <1>22,
     <1>23, MovesDownKeeps

LEMMA ClearTopKeeps ==
  ASSUME Inv, NEW t \in Threads, ClearTop(t), TypeOK'
  PROVE  Inv'
BY ClearTopEnds, ClearTopFindsMark

LEMMA MoveMarkKeeps ==
  ASSUME Inv, NEW t \in Threads, MoveMark(t), TypeOK'
  PROVE  Inv'
<1> SUFFICES ASSUME NEW l, l = loc[t], NEW n, n = counter[Me(t)], NEW p, p = l.pos,
                    NEW q, q = l.last.ptr
             PROVE  Inv'
  OBVIOUS
<1>1. /\ pc[t] = "moveMark" /\ SetSlot(Me(t), p, l.last)
      /\ ContinueIf(l.marked, t, l, p) /\ UNCHANGED <<tableVars, clientVars, counter>>
  BY DEF MoveMark, MovedBack
<1>2. /\ hpc[t] = "has" /\ LocalsFit(t) /\ SlotsInOrder(t) /\ Me(t) \in Ids
      /\ l \in LocType /\ n \in 0 .. MaxProtections /\ l.ptr \in Objects
      /\ l.then = "idle" /\ p \in Positions /\ p < n /\ l.last \in SlotType
      /\ ~Tentative(t) /\ ~Dropping(t) /\ Moving(t)
  BY <1>1, InRemove DEF Moving
<1>3. /\ l.last.mark /\ q \in Objects /\ slot[Me(t)][p].ptr = q /\ l.last = Slot(q, TRUE)
      /\ \A i \in Positions : i >= n => slot[Me(t)][i] = NoSlot
  <2>1. l.last.mark /\ slot[Me(t)][p].ptr = q
    BY <1>1, <1>2 DEF SlotsInOrder
  <2>2. q \in Objects /\ l.last = Slot(q, TRUE)
    BY <1>2, <2>1, MarkedSlot DEF LocalsFit
  <2>3. \A i \in Positions : i >= n => slot[Me(t)][i] = NoSlot
    BY <1>1, <1>2 DEF SlotsInOrder, Emptied
  <2> QED
    BY <2>1, <2>2, <2>3
<1>4. /\ slot'[Me(t)][p] = l.last
      /\ \A j \in Positions \ {p} : slot'[Me(t)][j] = slot[Me(t)][j]
      /\ \A g \in Ids \ {Me(t)} : slot'[g] = slot[g]
  BY <1>1, <1>2, SetSlotGives DEF Inv
<1>5. /\ OthersStay(t) /\ pc'[t] \in {"idle", "markSlot"}
      /\ pc'[t] = "idle" => loc'[t] = NoLoc /\ ~l.marked
      /\ pc'[t] = "markSlot" =>
           /\ l.marked /\ loc'[t].ptr = l.ptr /\ loc'[t].h = Me(t) /\ loc'[t].i = p
      /\ loc'[t].marked => pc'[t] = "markSlot"
      /\ loc'[t].then = "idle" /\ (loc'[t].last.mark => loc'[t].last.ptr \in Objects)
  BY <1>1, <1>2, RemoveEnds
<1>6. OwnStep(t) /\ UNCHANGED <<hpc, counter>> /\ Me(t)' = Me(t)
  BY <1>1, <1>4, <1>5 DEF OwnStep, tableVars, Me
<1>7. LocalsFit(t)'
  BY <1>2, <1>5, <1>6 DEF LocalsFit
<1>8. ~Tentative(t)' /\ ~Dropping(t)' /\ ~Moving(t)'
  BY <1>5 DEF Tentative, Dropping, Moving
<1>9. SlotsInOrder(t)'
  <2>1. \A i \in Positions : Emptied(t, i)' => slot'[Me(t)'][i] = NoSlot
    BY <1>2, <1>3, <1>4, <1>5, <1>6, <1>8 DEF Emptied, Positions
  <2> QED
    BY <1>5, <1>8, <2>1 DEF SlotsInOrder
<1>10. MarksOfObjects(Me(t))'
  <2> SUFFICES ASSUME NEW i \in Positions, slot'[Me(t)][i].mark
               PROVE  slot'[Me(t)][i].ptr \in Objects
    BY <1>6 DEF MarksOfObjects
  <2>1. CASE i = p
    BY <1>3, <1>4, <2>1
  <2>2. CASE i # p
    BY <1>2, <1>4, <2>2, MarksFit
  <2> QED
    BY <2>1, <2>2
<1>11. ASSUME NEW o \in Objects
       PROVE  /\ Walking(t, o)' <=> Walking(t, o)
              /\ MarkInHand(t, o) <=> o = q
              /\ ~MarkInHand(t, o)' /\ (OwnMarked(t, p, o)' <=> o = q)
              /\ ~OwnMarked(t, p, o)
              /\ \A i \in Positions \ {p} : OwnMarked(t, i, o)' <=> OwnMarked(t, i, o)
  <2>1. MarkInHand(t, o) <=> o = q
    BY <1>1, <1>3, SlotIs DEF MarkInHand
  <2>2. Walking(t, o) <=> l.ptr = o /\ l.marked
    BY <1>1 DEF Walking
  <2>3. Walking(t, o)' <=> pc'[t] = "markSlot" /\ loc'[t].ptr = o
    BY <1>5 DEF Walking
  <2>4. \A i \in Positions : OwnMarked(t, i, o) <=> slot[Me(t)][i] = Slot(o, TRUE)
    BY <1>1, <1>2 DEF OwnMarked
  <2>5. \A i \in Positions : OwnMarked(t, i, o)' <=> slot'[Me(t)][i] = Slot(o, TRUE)
    BY <1>2, <1>5, <1>6 DEF OwnMarked
  <2>6. OwnMarked(t, p, o)' <=> o = q
    <3>1. slot'[Me(t)][p] = Slot(q, TRUE)
      BY <1>3, <1>4
    <3>2. Slot(q, TRUE) = Slot(o, TRUE) <=> q = o
      BY SlotIs
    <3> QED
      BY <1>2, <2>5, <3>1, <3>2
  <2>7. ~OwnMarked(t, p, o)
    <3>1. OwnMarked(t, p, o) => o = q
      BY <1>2, <1>3, <2>4 DEF Slot
    <3>2. InOnePlace(t, o)
      BY DEF Inv, OnePerThread
    <3> QED
      BY <1>2, <2>1, <3>1, <3>2 DEF InOnePlace
  <2>8. ~MarkInHand(t, o)'
    BY <1>5 DEF MarkInHand
  <2>9. ASSUME NEW i \in Positions \ {p}
        PROVE  OwnMarked(t, i, o)' <=> OwnMarked(t, i, o)
    BY <1>4, <2>4, <2>5
  <2> QED
    BY <1>5, <2>1, <2>2, <2>3, <2>6, <2>7, <2>8, <2>9
<1>12. \A o \in Objects : InOnePlace(t, o)' /\ (Deletes(t, o)' <=> Deletes(t, o))
  <2>1. \A o \in Objects : InOnePlace(t, o)
    BY DEF Inv, OnePerThread
  <2> QED
    BY <1>2, <1>11, <2>1 DEF InOnePlace, Deletes
<1>13. ASSUME NEW o \in Objects, NEW h \in Ids, NEW i \in Positions, AheadOf(t, o, h, i)
       PROVE  AheadOf(t, o, h, i)'
  <2>1. Walking(t, o)' \/ OwnMarked(t, p, o)' => UpTo(h, i, Me(t), p)
    BY <1>2, <1>11, <1>13 DEF AheadOf
  <2>2. Walking(t, o)' => pc'[t] = "markSlot" /\ loc'[t].h = Me(t) /\ loc'[t].i = p
    BY <1>5 DEF Walking
  <2>3. \A j \in Positions : OwnMarked(t, j, o)' => UpTo(h, i, Me(t), j)
    BY <1>11, <1>13, <2>1 DEF AheadOf
  <2> QED
    BY <1>6, <1>8, <1>11, <2>1, <2>2, <2>3 DEF AheadOf
<1>14. Given(t)' = Given(t)
  BY <1>1, <1>2, <1>5, <1>6, <1>8 DEF Given
<1>15. \A o \in Objects : Copies(t, o)' = Copies(t, o)
  <2> SUFFICES ASSUME NEW o \in Objects
               PROVE  Copies(t, o)' = Copies(t, o)
    OBVIOUS
  <2>1. \A i \in Positions : slot'[Me(t)][i].ptr = slot[Me(t)][i].ptr
    BY <1>2, <1>3, <1>4
  <2> QED
    BY <1>6, <1>14, <2>1 DEF Copies, Given
<1>16. pc'[t] \notin {"insertCount", "insertStore"}
  BY <1>5
<1> QED
  BY <1>1, <1>2, <1>6, <1>7, <1>9, <1>10, <1>12, <1>13, <1>15, <1>16, SamePlaceKeeps

(* A step of the walk that leaves the slots alone.                         *)
LEMMA WalkKeeps ==
  ASSUME Inv, NEW t \in Threads, TypeOK',
         pc[t] \in {"safeDelete", "markHandle", "markSlot"},
         pc'[t] \in {"markHandle", "markSlot"}, OthersStay(t),
         NEW l, l = loc[t], NEW h, NEW i, loc'[t] = [l EXCEPT !.h = h, !.i = i],
         pc'[t] = "markSlot" => h \in Ids,
         UNCHANGED <<tableVars, clientVars, slotVars>>,
         \A u \in Threads : \A j \in Copies(u, l.ptr) :
           hpc[u] = "has" /\ AheadOf(t, l.ptr, Me(u), j) =>
             /\ pc'[t] = "markHandle" => Me(u) <= h
             /\ pc'[t] = "markSlot" => UpTo(Me(u), j, h, i)
  PROVE  Inv'
<1>1. /\ hpc[t] = "has" /\ LocalsFit(t) /\ SlotsInOrder(t)
      /\ Me(t) \in Ids /\ l \in LocType
  BY InOperation
<1>2. /\ loc'[t].ptr = l.ptr /\ loc'[t].pos = l.pos /\ loc'[t].new = l.new
      /\ loc'[t].last = l.last /\ loc'[t].marked = l.marked /\ loc'[t].cell = l.cell
      /\ loc'[t].then = l.then /\ loc'[t].h = h /\ loc'[t].i = i
  BY <1>1 DEF LocType
<1>3. /\ OwnStep(t) /\ UNCHANGED <<hpc, counter, slot, cell, mem, held>>
      /\ \A u \in Threads : Me(u)' = Me(u)
  BY DEF OwnStep, tableVars, slotVars, clientVars, Me
<1>4. l.ptr \in Objects
  BY <1>1 DEF LocalsFit
<1>5. LocalsFit(t)'
  BY <1>1, <1>2, <1>3 DEF LocalsFit
<1>6. /\ Tentative(t)' <=> Tentative(t)
      /\ Dropping(t)' <=> Dropping(t)
      /\ ~Moving(t) /\ ~Moving(t)'
  BY <1>2 DEF Tentative, Dropping, Moving
<1>7. SlotsInOrder(t)'
  <2>1. \A j \in Positions : Emptied(t, j)' <=> Emptied(t, j)
    BY <1>2, <1>3, <1>6 DEF Emptied
  <2>2. \A j \in Positions : Emptied(t, j)' => slot'[Me(t)'][j] = NoSlot
    BY <1>1, <1>3, <2>1 DEF SlotsInOrder
  <2>3. Tentative(t)' => l.pos \in Positions /\ l.pos = TopPosition(Me(t))'
    BY <1>1, <1>3, <1>6 DEF SlotsInOrder, TopPosition
  <2>4. loc'[t].then = "replaced" => slot'[Me(t)'][l.pos].ptr = l.new
    BY <1>1, <1>2, <1>3 DEF SlotsInOrder
  <2> QED
    BY <1>2, <1>6, <2>2, <2>3, <2>4 DEF SlotsInOrder
<1>8. MarksOfObjects(Me(t))'
  BY <1>1, <1>3 DEF MarksOfObjects, Inv, HandlesInOrder
<1>9. \A o \in Objects :
        /\ Walking(t, o) <=> l.ptr = o
        /\ Walking(t, o)' <=> l.ptr = o
        /\ ~MarkInHand(t, o) /\ ~MarkInHand(t, o)'
        /\ \A j \in Positions : OwnMarked(t, j, o)' <=> OwnMarked(t, j, o)
  <2>1. \A o \in Objects : ~MarkInHand(t, o) /\ ~MarkInHand(t, o)'
    BY DEF MarkInHand
  <2>2. \A o \in Objects : (Walking(t, o) <=> l.ptr = o) /\ (Walking(t, o)' <=> l.ptr = o)
    BY <1>2 DEF Walking
  <2>3. \A o \in Objects, j \in Positions : OwnMarked(t, j, o)' <=> OwnMarked(t, j, o)
    BY <1>3 DEF OwnMarked
  <2> QED
    BY <2>1, <2>2, <2>3
<1>10. \A o \in Objects : InOnePlace(t, o)' /\ (Deletes(t, o)' <=> Deletes(t, o))
  <2>1. \A o \in Objects : InOnePlace(t, o)
    BY DEF Inv, OnePerThread
  <2> QED
    BY <1>9, <2>1 DEF InOnePlace, Deletes
<1>11. Given(t)' = Given(t)
  BY <1>2, <1>3, <1>6 DEF Given
<1>12. \A o \in Objects : Copies(t, o)' = Copies(t, o)
  BY <1>3, <1>11 DEF Copies
<1>13. ASSUME NEW o \in Objects, NEW u \in Threads, NEW j \in Copies(u, o),
              hpc[u] = "has", AheadOf(t, o, Me(u), j)
       PROVE  AheadOf(t, o, Me(u), j)'
  <2>1. Walking(t, o)' => /\ pc'[t] = "markHandle" => Me(u) <= loc'[t].h
                          /\ pc'[t] = "markSlot" => UpTo(Me(u), j, loc'[t].h, loc'[t].i)
    BY <1>2, <1>9, <1>13
  <2>2. \A k \in Positions : OwnMarked(t, k, o)' => UpTo(Me(u), j, Me(t), k)
    BY <1>9, <1>13 DEF AheadOf
  <2> QED
    BY <1>3, <1>6, <1>9, <2>1, <2>2 DEF AheadOf
<1>14. ASSUME NEW o \in Objects, held[t][o] > 0
       PROVE  /\ Cardinality(Copies(t, o)') = Cardinality(Copies(t, o))
              /\ \E j \in Copies(t, o)' :
                   /\ \A u \in Threads \ {t} : AheadOf(u, o, Me(t), j)
                   /\ AheadOf(t, o, Me(t), j)'
  <2>1. PICK j \in Copies(t, o) : \A u \in Threads : AheadOf(u, o, Me(t), j)
    BY <1>14, HeldAhead
  <2>2. AheadOf(t, o, Me(t), j)'
    BY <1>1, <1>13, <2>1
  <2> QED
    BY <1>12, <2>1, <2>2
<1>15. UNCHANGED clientVars /\ pc'[t] \notin {"insertCount", "insertStore"}
  OBVIOUS
<1> QED
  BY <1>1, <1>3, <1>5, <1>7, <1>8, <1>10, <1>13, <1>14, <1>15, OwnKeeps

LEMMA SafeDeleteKeeps ==
  ASSUME Inv, NEW t \in Threads, SafeDelete(t), TypeOK'
  PROVE  Inv'
<1> SUFFICES ASSUME NEW l, l = loc[t]
             PROVE  Inv'
  OBVIOUS
<1>1. /\ pc[t] = "safeDelete" /\ Goto(t, "markHandle", [l EXCEPT !.h = handleCounter])
      /\ UNCHANGED <<tableVars, clientVars, slotVars>>
  BY DEF SafeDelete
<1>2. l \in LocType
  BY <1>1, InOperation
<1>3. [l EXCEPT !.h = handleCounter] = [l EXCEPT !.h = handleCounter, !.i = l.i]
  BY <1>2 DEF LocType
<1>4. /\ pc'[t] = "markHandle" /\ OthersStay(t)
      /\ loc'[t] = [l EXCEPT !.h = handleCounter, !.i = l.i]
  BY <1>1, <1>3, GotoMoves DEF Inv
<1>5. ASSUME NEW u \in Threads, NEW j \in Copies(u, l.ptr), hpc[u] = "has",
             AheadOf(t, l.ptr, Me(u), j)
      PROVE  Me(u) <= handleCounter
  BY <1>5, OwnHandle DEF Inv
<1> QED
  BY <1>1, <1>4, <1>5, WalkKeeps

(* The slots in which a thread announces an object.                        *)
LEMMA CopiesInUse ==
  ASSUME Inv, NEW u \in Threads, hpc[u] = "has", NEW o \in Objects, NEW j \in Copies(u, o)
  PROVE  /\ Me(u) \in Ids /\ j \in Positions /\ j < counter[Me(u)]
         /\ slot[Me(u)][j].ptr = o /\ handles[Me(u)] = "active"
         /\ counter[Me(u)] \in 0 .. MaxProtections
BY OwnHandle DEF Copies, Given, Inv, TypeOK

LEMMA MarkHandleKeeps ==
  ASSUME Inv, NEW t \in Threads, MarkHandle(t), TypeOK'
  PROVE  Inv'
<1> SUFFICES ASSUME NEW l, l = loc[t], NEW h, h = l.h, NEW top, top = counter[h] - 1
             PROVE  Inv'
  OBVIOUS
<1>1. /\ pc[t] = "markHandle" /\ h >= 0 /\ UNCHANGED <<tableVars, clientVars, slotVars>>
      /\ \/ /\ handles[h] = "marked" \/ top < 0
            /\ Goto(t, "markHandle", [l EXCEPT !.h = h - 1, !.i = 0])
         \/ /\ ~(top < 0)
            /\ Goto(t, "markSlot", [l EXCEPT !.i = top])
  BY DEF MarkHandle, NextHandle, TopPosition
<1>2. /\ l \in LocType /\ h \in Ids /\ l.ptr \in Objects
  <2>1. l \in LocType /\ LocalsFit(t)
    BY <1>1, InOperation
  <2> QED
    BY <1>1, <2>1 DEF LocType, LocalsFit
<1>3. counter[h] \in 0 .. MaxProtections
  BY <1>2 DEF Inv, TypeOK
<1>4. \A u \in Threads, j \in Positions :
        AheadOf(t, l.ptr, Me(u), j) => Me(u) <= h
  BY <1>1 DEF AheadOf, Walking
<1>5. CASE /\ handles[h] = "marked" \/ top < 0
           /\ Goto(t, "markHandle", [l EXCEPT !.h = h - 1, !.i = 0])
  <2>1. /\ pc'[t] = "markHandle" /\ OthersStay(t)
        /\ loc'[t] = [l EXCEPT !.h = h - 1, !.i = 0]
    BY <1>5, GotoMoves DEF Inv
  <2>2. ASSUME NEW u \in Threads, NEW j \in Copies(u, l.ptr), hpc[u] = "has",
               AheadOf(t, l.ptr, Me(u), j)
        PROVE  Me(u) <= h - 1
    <3>1. /\ Me(u) \in Ids /\ j \in Positions /\ j < counter[Me(u)]
          /\ handles[Me(u)] = "active"
      BY <1>2, <2>2, CopiesInUse
    <3>2. Me(u) # h
      BY <1>3, <1>5, <3>1 DEF Positions
    <3>3. Me(u) <= h
      BY <1>4, <2>2, <3>1
    <3> QED
      BY <1>2, <3>1, <3>2, <3>3 DEF Ids
  <2> QED
    BY <1>1, <2>1, <2>2, WalkKeeps, ZenonT(60)
<1>6. CASE ~(top < 0) /\ Goto(t, "markSlot", [l EXCEPT !.i = top])
  <2>1. [l EXCEPT !.i = top] = [l EXCEPT !.h = h, !.i = top]
    BY <1>2 DEF LocType
  <2>2. /\ pc'[t] = "markSlot" /\ OthersStay(t)
        /\ loc'[t] = [l EXCEPT !.h = h, !.i = top]
    BY <1>6, <2>1, GotoMoves DEF Inv
  <2>3. ASSUME NEW u \in Threads, NEW j \in Copies(u, l.ptr), hpc[u] = "has",
               AheadOf(t, l.ptr, Me(u), j)
        PROVE  UpTo(Me(u), j, h, top)
    <3>1. Me(u) \in Ids /\ j \in Positions /\ j < counter[Me(u)]
      BY <1>2, <2>3, CopiesInUse
    <3>2. Me(u) <= h
      BY <1>4, <2>3, <3>1
    <3> QED
      BY <1>2, <1>3, <3>1, <3>2 DEF UpTo, Ids, Positions
  <2> QED
    BY <1>1, <1>2, <2>2, <2>3, WalkKeeps
<1> QED
  BY <1>1, <1>5, <1>6

LEMMA MarkSlotPassesKeeps ==
  ASSUME Inv, NEW t \in Threads, MarkSlot(t), TypeOK',
         slot[loc[t].h][loc[t].i].ptr # loc[t].ptr
  PROVE  Inv'
<1> SUFFICES ASSUME NEW l, l = loc[t], NEW h, h = l.h, NEW i, i = l.i
             PROVE  Inv'
  OBVIOUS
<1>1. /\ pc[t] = "markSlot" /\ UNCHANGED <<tableVars, clientVars, slotVars>>
      /\ \/ i = 0 /\ Goto(t, "markHandle", [l EXCEPT !.h = h - 1, !.i = 0])
         \/ i # 0 /\ Goto(t, "markSlot", [l EXCEPT !.i = i - 1])
  BY DEF MarkSlot, NextHandle, slotVars
<1>2. /\ l \in LocType /\ h \in Ids /\ l.ptr \in Objects /\ i \in Positions
  <2>1. l \in LocType /\ LocalsFit(t)
    BY <1>1, InOperation
  <2> QED
    BY <1>1, <2>1 DEF LocType, LocalsFit
<1>3. ASSUME NEW u \in Threads, NEW j \in Copies(u, l.ptr), hpc[u] = "has",
             AheadOf(t, l.ptr, Me(u), j)
      PROVE  Me(u) <= h - 1 \/ (Me(u) = h /\ j <= i - 1)
  <2>1. /\ Me(u) \in Ids /\ j \in Positions /\ slot[Me(u)][j].ptr = l.ptr
    BY <1>2, <1>3, CopiesInUse
  <2>2. UpTo(Me(u), j, h, i)
    BY <1>1, <1>3 DEF AheadOf, Walking
  <2>3. ~(Me(u) = h /\ j = i)
    BY <2>1
  <2> QED
    BY <1>2, <2>1, <2>2, <2>3 DEF UpTo, Ids, Positions
<1>4. CASE i = 0 /\ Goto(t, "markHandle", [l EXCEPT !.h = h - 1, !.i = 0])
  <2>1. /\ pc'[t] = "markHandle" /\ OthersStay(t)
        /\ loc'[t] = [l EXCEPT !.h = h - 1, !.i = 0]
    BY <1>4, GotoMoves DEF Inv
  <2>2. ASSUME NEW u \in Threads, NEW j \in Copies(u, l.ptr), hpc[u] = "has",
               AheadOf(t, l.ptr, Me(u), j)
        PROVE  Me(u) <= h - 1
    <3>1. j \in Positions
      BY DEF Copies, Given
    <3> QED
      BY <1>3, <1>4, <2>2, <3>1 DEF Positions
  <2> QED
    BY <1>1, <2>1, <2>2, WalkKeeps, ZenonT(60)
<1>5. CASE i # 0 /\ Goto(t, "markSlot", [l EXCEPT !.i = i - 1])
  <2>1. [l EXCEPT !.i = i - 1] = [l EXCEPT !.h = h, !.i = i - 1]
    BY <1>2 DEF LocType
  <2>2. /\ pc'[t] = "markSlot" /\ OthersStay(t)
        /\ loc'[t] = [l EXCEPT !.h = h, !.i = i - 1]
    BY <1>5, <2>1, GotoMoves DEF Inv
  <2>3. ASSUME NEW u \in Threads, NEW j \in Copies(u, l.ptr), hpc[u] = "has",
               AheadOf(t, l.ptr, Me(u), j)
        PROVE  UpTo(Me(u), j, h, i - 1)
    <3>1. Me(u) \in Ids
      BY <2>3, OwnHandle DEF Inv
    <3> QED
      BY <1>2, <1>3, <2>3, <3>1 DEF UpTo, Ids
  <2> QED
    BY <1>1, <1>2, <2>2, <2>3, WalkKeeps
<1> QED
  BY <1>1, <1>4, <1>5

(* The end of a walk: the operation in which it was goes on, or is over.   *)
LEMMA GoOnFits ==
  ASSUME Inv, NEW t \in Threads, pc[t] \in {"markHandle", "markSlot"},
         GoOn(t, loc[t]), UNCHANGED <<tableVars, counter>>,
         \A i \in Positions :
           /\ slot'[Me(t)][i].ptr = slot[Me(t)][i].ptr
           /\ slot[Me(t)][i] = NoSlot => slot'[Me(t)][i] = NoSlot
  PROVE  /\ OthersStay(t) /\ pc'[t] \in {"idle", "replaced", "dropSlots"}
         /\ ~loc'[t].marked /\ LocalsFit(t)' /\ SlotsInOrder(t)' /\ Given(t)' = Given(t)
<1> SUFFICES ASSUME NEW l, l = loc[t], NEW n, n = counter[Me(t)]
             PROVE  /\ OthersStay(t) /\ pc'[t] \in {"idle", "replaced", "dropSlots"}
                    /\ ~loc'[t].marked /\ LocalsFit(t)' /\ SlotsInOrder(t)'
                    /\ Given(t)' = Given(t)
  OBVIOUS
<1>1. /\ hpc[t] = "has" /\ LocalsFit(t) /\ SlotsInOrder(t) /\ Me(t) \in Ids
      /\ l \in LocType /\ GoOn(t, l)
  BY InOperation
<1>2. Me(t)' = Me(t) /\ UNCHANGED <<hpc, counter>>
  BY DEF tableVars, Me
<1>3. /\ l.ptr \in Objects /\ (l.last.mark => l.last.ptr \in Objects)
      /\ l.then \in {"idle", "replaced", "dropSlots"}
      /\ l.marked => l.then = "idle"
      /\ l.then = "replaced" => l.cell \in Cells
  BY <1>1 DEF LocalsFit, LocType
<1>4. CASE l.then = "idle"
  <2>1. pc'[t] = "idle" /\ loc'[t] = NoLoc /\ OthersStay(t)
    BY <1>1, <1>4, ReturnMoves DEF GoOn, Inv
  <2>2. ~loc'[t].marked /\ loc'[t].then = "idle" /\ ~loc'[t].last.mark
    BY <2>1 DEF NoLoc, NoSlot, Slot
  <2>3. LocalsFit(t)'
    BY <1>1, <1>2, <2>1, <2>2 DEF LocalsFit
  <2>4. /\ ~Tentative(t) /\ ~Dropping(t)
        /\ ~Tentative(t)' /\ ~Dropping(t)' /\ ~Moving(t)'
    BY <1>4, <2>1, <2>2 DEF Tentative, Dropping, Moving
  <2>5. \A i \in Positions : Emptied(t, i)' => slot'[Me(t)'][i] = NoSlot
    BY <1>1, <1>2, <2>1, <2>4 DEF Emptied, SlotsInOrder
  <2>6. SlotsInOrder(t)'
    BY <2>1, <2>2, <2>4, <2>5 DEF SlotsInOrder
  <2>7. Given(t)' = Given(t)
    BY <1>2, <2>1, <2>4 DEF Given
  <2> QED
    BY <2>1, <2>2, <2>3, <2>6, <2>7
<1>5. CASE l.then # "idle"
  <2>1. pc'[t] = l.then /\ loc'[t] = l /\ OthersStay(t) /\ ~l.marked
    BY <1>1, <1>3, <1>5, GotoMoves DEF GoOn, Inv
  <2>2. pc'[t] \in {"replaced", "dropSlots"}
    BY <1>3, <1>5, <2>1
  <2>3. LocalsFit(t)'
    BY <1>1, <1>2, <1>3, <2>1, <2>2 DEF LocalsFit
  <2>4. /\ Tentative(t) <=> l.then = "replaced"
        /\ Tentative(t)' <=> l.then = "replaced"
        /\ Dropping(t) <=> l.then = "dropSlots"
        /\ Dropping(t)' <=> l.then = "dropSlots"
        /\ ~Moving(t)'
    BY <2>1, <2>2 DEF Tentative, Dropping, Moving
  <2>5. ASSUME NEW i \in Positions, Emptied(t, i)'
        PROVE  slot'[Me(t)'][i] = NoSlot
    <3>1. Emptied(t, i)
      BY <1>2, <2>1, <2>2, <2>4, <2>5 DEF Emptied
    <3> QED
      BY <1>1, <1>2, <3>1 DEF SlotsInOrder
  <2>6. Tentative(t)' => l.pos \in Positions /\ l.pos = TopPosition(Me(t))'
    BY <1>1, <1>2, <2>4 DEF SlotsInOrder, TopPosition
  <2>7. l.then = "replaced" => l.pos \in Positions /\ slot'[Me(t)'][l.pos].ptr = l.new
    BY <1>1, <1>2, <2>4 DEF SlotsInOrder
  <2>8. SlotsInOrder(t)'
    BY <2>1, <2>2, <2>4, <2>5, <2>6, <2>7 DEF SlotsInOrder
  <2>9. Given(t)' = Given(t)
    BY <1>2, <2>1, <2>2, <2>4 DEF Given
  <2> QED
    BY <2>1, <2>2, <2>3, <2>8, <2>9
<1> QED
  BY <1>4, <1>5

(* Whoever comes to the end of the walk finds nobody who protects it.      *)
LEMMA DestroyUnprotected ==
  ASSUME Inv, NEW t \in Threads, Destroy(t)
  PROVE  /\ loc[t].ptr \in Objects /\ mem[loc[t].ptr] = "retired"
         /\ ~Protected(loc[t].ptr) /\ Walking(t, loc[t].ptr)
         /\ \A u \in Threads : ~Inserting(u, loc[t].ptr)
<1>1. pc[t] = "markHandle" /\ loc[t].h < 0
  BY DEF Destroy
<1>2. loc[t].ptr \in Objects /\ loc[t].h \in Ids \cup {-1}
  <2>1. LocalsFit(t) /\ loc[t] \in LocType
    BY <1>1, InOperation
  <2> QED
    BY <1>1, <2>1 DEF LocalsFit, LocType
<1>3. Walking(t, loc[t].ptr)
  BY <1>1 DEF Walking
<1>4. mem[loc[t].ptr] = "retired"
  BY <1>2, <1>3 DEF Deletes, Inv, OnePerThread
<1>5. ASSUME NEW u \in Threads, held[u][loc[t].ptr] > 0
      PROVE  FALSE
  <2>1. PICK i \in Copies(u, loc[t].ptr) : AheadOf(t, loc[t].ptr, Me(u), i)
    BY <1>2, <1>5, HeldAhead
  <2>2. hpc[u] = "has" /\ Me(u) \in Ids
    BY <1>2, <1>5, OwnHandle DEF Inv, ProtectionsAnnounced
  <2>3. Me(u) <= loc[t].h
    BY <1>1, <1>3, <2>1 DEF AheadOf
  <2> QED
    BY <1>1, <1>2, <2>2, <2>3 DEF Ids
<1>6. ~Protected(loc[t].ptr)
  BY <1>5 DEF Protected
<1>7. \A u \in Threads : ~Inserting(u, loc[t].ptr)
  BY <1>2, <1>4, <1>5 DEF Inv, ProtectedExists
<1> QED
  BY <1>2, <1>3, <1>4, <1>6, <1>7

LEMMA DestroyKeeps ==
  ASSUME Inv, NEW t \in Threads, Destroy(t), TypeOK'
  PROVE  Inv'
<1> SUFFICES ASSUME NEW l, l = loc[t], NEW q, q = l.ptr
             PROVE  Inv'
  OBVIOUS
<1>1. /\ pc[t] = "markHandle" /\ mem' = [mem EXCEPT ![q] = "free"] /\ GoOn(t, l)
      /\ UNCHANGED <<tableVars, cell, held, slotVars>>
  BY DEF Destroy
<1>2. /\ q \in Objects /\ mem[q] = "retired" /\ ~Protected(q) /\ Walking(t, q)
      /\ \A u \in Threads : ~Inserting(u, q)
  BY DestroyUnprotected
<1>3. hpc[t] = "has" /\ Me(t) \in Ids
  BY <1>1, InOperation
<1>4. UNCHANGED <<counter, slot, hpc>> /\ \A u \in Threads : Me(u)' = Me(u)
  BY <1>1 DEF slotVars, tableVars, Me
<1>5. /\ OthersStay(t) /\ pc'[t] \in {"idle", "replaced", "dropSlots"}
      /\ ~loc'[t].marked /\ LocalsFit(t)' /\ SlotsInOrder(t)' /\ Given(t)' = Given(t)
  <2>1. \A i \in Positions :
          /\ slot'[Me(t)][i].ptr = slot[Me(t)][i].ptr
          /\ slot[Me(t)][i] = NoSlot => slot'[Me(t)][i] = NoSlot
    BY <1>4
  <2> QED
    BY <1>1, <1>4, <2>1, GoOnFits
<1>6. OwnStep(t)
  BY <1>1, <1>4, <1>5 DEF OwnStep
<1>7. \A o \in Objects : mem'[o] = IF o = q THEN "free" ELSE mem[o]
  BY <1>1 DEF Inv, TypeOK
<1>8. MarksOfObjects(Me(t))'
  BY <1>3, <1>4 DEF MarksOfObjects, Inv, HandlesInOrder
<1>9. HandlesInOrder'
  BY <1>3, <1>5, <1>6, <1>8, HandlesKeep
<1>10. CellsAreLive'
  <2>1. \A c \in Cells : cell[c] # NoPtr => cell[c] \in Objects
    BY DEF Inv, TypeOK, Pointers
  <2> QED
    BY <1>1, <1>2, <1>7, <2>1 DEF Inv, CellsAreLive
<1>11. ProtectedExists'
  <2> SUFFICES ASSUME NEW o \in Objects
               PROVE  /\ Protected(o)' => mem'[o] # "free"
                      /\ \A v \in Threads : Inserting(v, o)' =>
                           \/ held'[v][o] > 0
                           \/ /\ mem'[o] = "private" /\ ~Protected(o)'
                              /\ \A u \in Threads : Inserting(u, o)' => u = v
    BY DEF ProtectedExists
  <2>1. /\ Protected(o) => mem[o] # "free"
        /\ \A v \in Threads : Inserting(v, o) =>
             \/ held[v][o] > 0
             \/ /\ mem[o] = "private" /\ ~Protected(o)
                /\ \A u \in Threads : Inserting(u, o) => u = v
    BY DEF Inv, ProtectedExists
  <2>2. Protected(o)' <=> Protected(o)
    BY <1>1 DEF Protected
  <2>3. ~Inserting(t, o)' /\ \A u \in Threads \ {t} : Inserting(u, o)' <=> Inserting(u, o)
    BY <1>3, <1>5, <1>6, OthersKeep, OthersAnnounce DEF Inserting
  <2> QED
    BY <1>1, <1>2, <1>7, <2>1, <2>2, <2>3
<1>12. \A o \in Objects :
         /\ Walking(t, o) <=> o = q
         /\ ~Walking(t, o)' /\ ~MarkInHand(t, o) /\ ~MarkInHand(t, o)'
         /\ \A i \in Positions : OwnMarked(t, i, o)' <=> OwnMarked(t, i, o)
  <2>1. \A o \in Objects : (Walking(t, o) <=> o = q) /\ ~Walking(t, o)'
    BY <1>1, <1>5 DEF Walking
  <2>2. \A o \in Objects : ~MarkInHand(t, o) /\ ~MarkInHand(t, o)'
    BY <1>1, <1>5 DEF MarkInHand
  <2>3. \A o \in Objects, i \in Positions : OwnMarked(t, i, o)' <=> OwnMarked(t, i, o)
    BY <1>1, <1>3, <1>4, <1>5 DEF OwnMarked
  <2> QED
    BY <2>1, <2>2, <2>3
<1>13. OnePerThread'
  <2>1. \A o \in Objects : InOnePlace(t, o)
    BY DEF Inv, OnePerThread
  <2>2. \A o \in Objects : InOnePlace(t, o)'
    BY <1>12, <2>1 DEF InOnePlace
  <2>3. Deletes(t, q) /\ ~Deletes(t, q)' /\ mem'[q] # "retired"
    BY <1>2, <1>7, <1>12, <2>1 DEF Deletes, InOnePlace
  <2>4. \A o \in Objects \ {q} : mem'[o] = mem[o] /\ (Deletes(t, o)' <=> Deletes(t, o))
    BY <1>7, <1>12 DEF Deletes
  <2> QED
    BY <1>3, <1>6, <2>2, <2>3, <2>4, OneKeep
<1>14. \A o \in Objects : Copies(t, o)' = Copies(t, o)
  BY <1>4, <1>5 DEF Copies
<1>15. ProtectionsAnnounced'
  BY <1>1, <1>3, <1>6, <1>14, HeldAhead, AnnouncedKeep
<1>16. ASSUME NEW o \in Objects, NEW u \in Threads, NEW i, AheadOf(t, o, Me(u), i)
       PROVE  AheadOf(t, o, Me(u), i)'
  BY <1>4, <1>12, <1>16 DEF AheadOf
<1>17. AheadOfAll'
  <2>1. ASSUME NEW o \in Objects, held'[t][o] > 0
        PROVE  \E i \in Copies(t, o)' :
                 /\ \A u \in Threads \ {t} : AheadOf(u, o, Me(t), i)
                 /\ AheadOf(t, o, Me(t), i)'
    <3>1. PICK i \in Copies(t, o) : \A u \in Threads : AheadOf(u, o, Me(t), i)
      BY <1>1, <2>1, HeldAhead
    <3>2. AheadOf(t, o, Me(t), i)'
      BY <1>16, <3>1
    <3> QED
      BY <1>14, <3>1, <3>2
  <2> QED
    BY <1>1, <1>3, <1>6, <1>16, <2>1, AheadKeep
<1>18. TableInv'
  BY <1>1, TableKeeps DEF Inv
<1> QED
  BY <1>9, <1>10, <1>11, <1>13, <1>15, <1>17, <1>18 DEF Inv

(* The walk finds its object in a slot: the slot is marked.                *)
LEMMA NoOtherMark ==
  ASSUME Inv, NEW t \in Threads, NEW q \in Objects, Walking(t, q),
         NEW u \in Threads, hpc[u] = "has", NEW j \in Positions
  PROVE  slot[Me(u)][j] # Slot(q, TRUE)
<1> SUFFICES ASSUME slot[Me(u)][j] = Slot(q, TRUE)
             PROVE  FALSE
  OBVIOUS
<1>1. \A k \in Positions : ~OwnMarked(u, k, q)
  <2>1. \A k \in Positions : OwnMarked(u, k, q) => u = t
    BY DEF Inv, OnePerThread, Deletes
  <2> QED
    BY <2>1 DEF Inv, OnePerThread, InOnePlace
<1>2. /\ pc[u] \in {"dropTop", "clearTop"} /\ j = TopCopy(u)
      /\ slot[Me(u)][loc[u].pos] = slot[Me(u)][j]
  BY <1>1 DEF OwnMarked
<1>3. loc[u].pos \in Positions /\ loc[u].pos < TopCopy(u) /\ TopCopy(u) \in Positions
  <2>1. SlotsInOrder(u) /\ Moving(u)
    BY <1>2, InOperation DEF Moving
  <2> QED
    BY <1>2, <2>1 DEF SlotsInOrder
<1>4. loc[u].pos # TopCopy(u)
  BY <1>3 DEF Positions
<1> QED
  BY <1>1, <1>2, <1>3, <1>4 DEF OwnMarked

LEMMA MarkedInOrder ==
  ASSUME Inv, NEW u \in Threads, hpc[u] = "has", NEW i \in Positions, NEW q \in Objects,
         slot[Me(u)][i].ptr = q,
         \A j \in Positions : slot[Me(u)][j] # Slot(q, TRUE),
         hpc'[u] = "has", Me(u)' = Me(u), pc'[u] = pc[u], loc'[u] = loc[u],
         counter' = counter, slot'[Me(u)][i] = Slot(q, TRUE),
         \A j \in Positions \ {i} : slot'[Me(u)][j] = slot[Me(u)][j]
  PROVE  SlotsInOrder(u)'
<1>1. SlotsInOrder(u) /\ Me(u) \in Ids
  BY OwnHandle DEF Inv, HandlesInOrder
<1>2. /\ Tentative(u)' <=> Tentative(u)
      /\ Moving(u)' <=> Moving(u)
      /\ TopPosition(Me(u))' = TopPosition(Me(u))
      /\ TopCopy(u)' = TopCopy(u) /\ (HasRoom(u)' <=> HasRoom(u))
      /\ \A j \in Positions : Emptied(u, j)' <=> Emptied(u, j)
  BY DEF Tentative, Moving, TopPosition, TopCopy, HasRoom, Emptied, Dropping
<1>3. \A j \in Positions : slot'[Me(u)][j].ptr = slot[Me(u)][j].ptr
  <2>1. slot'[Me(u)][i].ptr = q
    BY SlotHas
  <2> QED
    BY <2>1
<1>4. ASSUME NEW j \in Positions, Emptied(u, j)'
      PROVE  slot'[Me(u)'][j] = NoSlot
  <2>1. slot[Me(u)][j] = NoSlot
    BY <1>1, <1>2, <1>4 DEF SlotsInOrder
  <2>2. j # i
    BY <2>1 DEF NoSlot, Slot
  <2> QED
    BY <2>1, <2>2
<1>5. ASSUME pc[u] \in {"moveDown", "dropTop", "clearTop"}, NEW j \in Positions,
             slot[Me(u)][j] \in {loc[u].last, Slot(loc[u].last.ptr, TRUE)}
      PROVE  slot'[Me(u)][j] \in {loc[u].last, Slot(loc[u].last.ptr, TRUE)}
  <2>1. CASE j = i
    <3>1. Slot(loc[u].last.ptr, TRUE).ptr = loc[u].last.ptr
      BY SlotHas
    <3>2. loc[u].last.ptr = q
      BY <1>5, <2>1, <3>1
    <3> QED
      BY <2>1, <3>2
  <2>2. CASE j # i
    BY <1>5, <2>2
  <2> QED
    BY <2>1, <2>2
<1>6. ASSUME pc[u] \in {"dropTop", "clearTop"},
             slot'[Me(u)][loc[u].pos].mark, slot'[Me(u)][TopCopy(u)].mark
      PROVE  loc[u].last.mark
  <2> SUFFICES ASSUME NEW last, last = loc[u].last, NEW p, p = loc[u].pos,
                      NEW top, top = TopCopy(u)
               PROVE  last.mark
    OBVIOUS
  <2>1. /\ p \in Positions /\ top \in Positions /\ p < top
        /\ slot[Me(u)][p] \in {last, Slot(last.ptr, TRUE)}
        /\ slot[Me(u)][top] \in {last, Slot(last.ptr, TRUE)}
        /\ slot[Me(u)][p].mark /\ slot[Me(u)][top].mark => last.mark
    BY <1>1, <1>6 DEF SlotsInOrder, Moving
  <2>2. p # top
    BY <2>1 DEF Positions
  <2>3. ASSUME NEW j \in Positions, NEW k \in Positions, j # k, k = i,
               slot[Me(u)][j] \in {last, Slot(last.ptr, TRUE)},
               slot[Me(u)][k] \in {last, Slot(last.ptr, TRUE)},
               slot'[Me(u)][j].mark
        PROVE  last.mark
    <3>1. last.ptr = q
      BY <2>3, SlotIs, ZenonT(60)
    <3>2. slot[Me(u)][j] = last
      BY <2>3, <3>1
    <3> QED
      BY <2>3, <3>2
  <2>4. CASE i = p
    BY <1>6, <2>1, <2>2, <2>3, <2>4
  <2>5. CASE i = top
    BY <1>6, <2>1, <2>2, <2>3, <2>5
  <2>6. CASE i # p /\ i # top
    BY <1>6, <2>1, <2>6
  <2> QED
    BY <2>4, <2>5, <2>6
<1> SUFFICES ASSUME NEW mine, mine = slot[Me(u)], NEW next, next = slot'[Me(u)]
             PROVE  SlotsInOrder(u)'
  OBVIOUS
<1>7. /\ pc[u] \in {"moveDown", "dropTop", "clearTop"} =>
           next[TopCopy(u)] \in {loc[u].last, Slot(loc[u].last.ptr, TRUE)}
      /\ pc[u] \in {"dropTop", "clearTop"} =>
           /\ next[loc[u].pos] \in {loc[u].last, Slot(loc[u].last.ptr, TRUE)}
           /\ next[loc[u].pos].mark /\ next[TopCopy(u)].mark => loc[u].last.mark
  BY <1>1, <1>5, <1>6 DEF SlotsInOrder, Moving
<1>8. slot'[Me(u)'] = next /\ counter'[Me(u)'] = counter[Me(u)]
  OBVIOUS
<1>9. /\ Tentative(u) \/ Moving(u) \/ pc[u] \in {"reload", "replace"}
           \/ loc[u].then = "replaced" \/ pc[u] = "removeTop" => loc[u].pos \in Positions
  BY <1>1 DEF SlotsInOrder, Tentative
<1>10. loc[u].pos \in Positions => next[loc[u].pos].ptr = mine[loc[u].pos].ptr
  BY <1>3
<1> QED
  BY <1>1, <1>2, <1>4, <1>7, <1>8, <1>9, <1>10, ZenonT(60) DEF SlotsInOrder, Moving

LEMMA MarkSlotFindsKeeps ==
  ASSUME Inv, NEW t \in Threads, MarkSlot(t), TypeOK',
         slot[loc[t].h][loc[t].i].ptr = loc[t].ptr
  PROVE  Inv'
<1> SUFFICES ASSUME NEW l, l = loc[t], NEW q, q = l.ptr, NEW h, h = l.h, NEW i, i = l.i
             PROVE  Inv'
  OBVIOUS
<1>1. /\ pc[t] = "markSlot" /\ slot[h][i].ptr = q /\ SetSlot(h, i, Slot(q, TRUE))
      /\ GoOn(t, l) /\ UNCHANGED <<tableVars, clientVars, counter>>
  BY DEF MarkSlot
<1>2. /\ hpc[t] = "has" /\ Me(t) \in Ids /\ h \in Ids /\ i \in Positions /\ q \in Objects
      /\ Walking(t, q)
  <2>1. l \in LocType /\ LocalsFit(t) /\ hpc[t] = "has" /\ Me(t) \in Ids
    BY <1>1, InOperation
  <2> QED
    BY <1>1, <2>1 DEF LocType, LocalsFit, Walking
<1>3. PICK u \in Threads : hpc[u] = "has" /\ Me(u) = h
  <2>1. slot[h] # [j \in Positions |-> NoSlot]
    BY <1>1, <1>2 DEF NoSlot, Slot
  <2> QED
    BY <1>2, <2>1 DEF Inv, HandlesInOrder
<1>4. \A v \in Threads : hpc[v] = "has" /\ Me(v) = h => v = u
  BY <1>3, OwnHandle DEF Inv
<1>5. \A j \in Positions : slot[h][j] # Slot(q, TRUE)
  BY <1>2, <1>3, NoOtherMark
<1>6. /\ slot'[h][i] = Slot(q, TRUE)
      /\ \A j \in Positions \ {i} : slot'[h][j] = slot[h][j]
      /\ \A g \in Ids \ {h} : slot'[g] = slot[g]
  <2>1. Slot(q, TRUE) \in SlotType
    BY <1>2 DEF Slot, SlotType, Pointers
  <2> QED
    <3>1. TypeOK
      BY DEF Inv
    <3>2. SetSlot(h, i, Slot(q, TRUE)) /\ h \in Ids /\ i \in Positions
      BY <1>1, <1>2
    <3>3. slot \in [Ids -> [Positions -> SlotType]]
      BY <3>1 DEF TypeOK
    <3>4. slot' = [slot EXCEPT ![h] = [slot[h] EXCEPT ![i] = Slot(q, TRUE)]]
      BY <3>2, <3>3 DEF SetSlot
    <3>5. \A g \in Ids \ {h} : slot'[g] = slot[g]
      BY <3>2, <3>3, <3>4
    <3>6. slot'[h] = [slot[h] EXCEPT ![i] = Slot(q, TRUE)]
      BY <3>2, <3>3, <3>4
    <3>7. slot[h] \in [Positions -> SlotType]
      BY <3>2, <3>3
    <3> QED
      BY <3>2, <3>5, <3>6, <3>7
<1>7. \A g \in Ids, j \in Positions :
        /\ slot'[g][j].ptr = slot[g][j].ptr
        /\ slot[g][j] = NoSlot => slot'[g][j] = NoSlot
  <2>1. ASSUME NEW g \in Ids, NEW j \in Positions, ~(g = h /\ j = i)
        PROVE  slot'[g][j] = slot[g][j]
    BY <1>6, <2>1
  <2>2. slot'[h][i].ptr = slot[h][i].ptr
    <3>1. Slot(q, TRUE).ptr = q
      BY SlotHas
    <3> QED
      BY <1>1, <1>6, <3>1
  <2>3. slot[h][i] # NoSlot
    BY <1>1, <1>2 DEF NoSlot, Slot
  <2> QED
    BY <2>1, <2>2, <2>3
<1>8. /\ OthersStay(t) /\ pc'[t] \in {"idle", "replaced", "dropSlots"}
      /\ ~loc'[t].marked /\ LocalsFit(t)' /\ SlotsInOrder(t)' /\ Given(t)' = Given(t)
  BY <1>1, <1>2, <1>7, GoOnFits
<1>9. /\ UNCHANGED <<hpc, at, counter, cell, mem, held>> /\ \A v \in Threads : Me(v)' = Me(v)
      /\ \A v \in Threads \ {t} : pc'[v] = pc[v] /\ loc'[v] = loc[v]
  BY <1>1, <1>8 DEF tableVars, clientVars, Me, OthersStay
<1>10. \A v \in Threads : hpc[v] = "has" => Me(v) \in Ids /\ (v # u => Me(v) # h)
  BY <1>4, OwnHandle DEF Inv
<1>11. \A v \in Threads \ {t, u} : SameFor(v)
  BY <1>6, <1>9, <1>10 DEF SameFor
<1>12. ASSUME NEW v \in Threads
       PROVE  LocalsFit(v)' /\ (hpc'[v] = "has" => SlotsInOrder(v)')
  <2>1. CASE v = t
    BY <1>8, <2>1
  <2>2. CASE v # t /\ v = u
    <3>1. LocalsFit(v)'
      BY <1>9, <2>2 DEF Inv, HandlesInOrder, LocalsFit
    <3>2. SlotsInOrder(v)'
      <4>1. /\ hpc[v] = "has" /\ Me(v) = h /\ hpc'[v] = "has" /\ Me(v)' = Me(v)
            /\ pc'[v] = pc[v] /\ loc'[v] = loc[v] /\ counter' = counter
        BY <1>3, <1>9, <2>2
      <4>2. /\ slot[Me(v)][i].ptr = q /\ slot'[Me(v)][i] = Slot(q, TRUE)
            /\ \A j \in Positions : slot[Me(v)][j] # Slot(q, TRUE)
            /\ \A j \in Positions \ {i} : slot'[Me(v)][j] = slot[Me(v)][j]
        BY <1>1, <1>5, <1>6, <4>1
      <4> QED
        BY <1>2, <4>1, <4>2, MarkedInOrder
    <3> QED
      BY <3>1, <3>2
  <2>3. CASE v # t /\ v # u
    BY <1>9, <1>11, <2>3, OthersInOrder
  <2> QED
    BY <2>1, <2>2, <2>3
<1>13. HandlesInOrder'
  <2>1. ASSUME NEW g \in Ids
        PROVE  \/ \E v \in Threads : hpc'[v] = "has" /\ Me(v)' = g
               \/ counter'[g] = 0 /\ slot'[g] = [j \in Positions |-> NoSlot]
    <3>1. CASE g = h
      BY <1>3, <1>9, <3>1
    <3>2. CASE g # h
      BY <1>6, <1>9, <3>2 DEF Inv, HandlesInOrder
    <3> QED
      BY <3>1, <3>2
  <2>2. ASSUME NEW g \in Ids, NEW j \in Positions, slot'[g][j].mark
        PROVE  slot'[g][j].ptr \in Objects
    <3>1. CASE g = h /\ j = i
      BY <1>1, <1>2, <1>7, <3>1
    <3>2. CASE ~(g = h /\ j = i)
      <4>1. slot'[g][j] = slot[g][j]
        BY <1>6, <3>2
      <4> QED
        BY <2>2, <4>1, MarksFit
    <3> QED
      BY <3>1, <3>2
  <2> QED
    BY <1>12, <2>1, <2>2 DEF HandlesInOrder
<1>14. ASSUME NEW v \in Threads, NEW o \in Objects
       PROVE  /\ Walking(v, o)' <=> Walking(v, o) /\ v # t
              /\ MarkInHand(v, o)' <=> MarkInHand(v, o)
              /\ Walking(t, o) => o = q
              /\ \A j \in Positions :
                   OwnMarked(v, j, o)' <=> OwnMarked(v, j, o) \/ (v = u /\ j = i /\ o = q)
  <2>1. Walking(t, o) => o = q
    BY DEF Walking
  <2>2. Walking(v, o)' <=> Walking(v, o) /\ v # t
    BY <1>8, <1>9 DEF Walking
  <2>3. MarkInHand(v, o)' <=> MarkInHand(v, o)
    BY <1>1, <1>8, <1>9 DEF MarkInHand
  <2>4. ASSUME NEW j \in Positions
        PROVE  OwnMarked(v, j, o)' <=> OwnMarked(v, j, o) \/ (v = u /\ j = i /\ o = q)
    <3>1. CASE hpc[v] # "has"
      BY <1>3, <1>9, <3>1 DEF OwnMarked
    <3>2. CASE hpc[v] = "has" /\ v # u
      <4>1. slot'[Me(v)] = slot[Me(v)]
        BY <1>6, <1>10, <3>2
      <4>2. TopCopy(v)' = TopCopy(v) \/ v = t
        BY <1>9 DEF TopCopy, TopPosition
      <4>3. CASE v = t
        BY <1>1, <1>8, <1>9, <3>2, <4>1, <4>3 DEF OwnMarked
      <4>4. CASE v # t
        BY <1>9, <3>2, <4>1, <4>2, <4>4 DEF OwnMarked
      <4> QED
        BY <4>3, <4>4
    <3>3. CASE v = u
      <4>1. /\ OwnMarked(v, j, o) <=>
                 /\ slot[h][j] = Slot(o, TRUE)
                 /\ ~(/\ pc[v] \in {"dropTop", "clearTop"} /\ j = TopCopy(v)
                      /\ slot[h][loc[v].pos] = slot[h][j])
        BY <1>3, <3>3 DEF OwnMarked
      <4>2. OwnMarked(v, j, o)' <=>
              /\ slot'[h][j] = Slot(o, TRUE)
              /\ ~(/\ pc[v] \in {"dropTop", "clearTop"} /\ j = TopCopy(v)
                   /\ slot'[h][loc[v].pos] = slot'[h][j])
        <5>1. CASE v = t
          BY <1>1, <1>3, <1>8, <1>9, <3>3, <5>1 DEF OwnMarked
        <5>2. CASE v # t
          <6>1. TopCopy(v)' = TopCopy(v) /\ pc'[v] = pc[v] /\ loc'[v] = loc[v]
            BY <1>9, <5>2 DEF TopCopy, TopPosition
          <6> QED
            BY <1>3, <1>9, <3>3, <6>1 DEF OwnMarked
        <5> QED
          BY <5>1, <5>2
      <4>3. ASSUME pc[v] \in {"dropTop", "clearTop"}
            PROVE  /\ loc[v].pos \in Positions /\ TopCopy(v) \in Positions
                   /\ loc[v].pos # TopCopy(v)
        <5>1. SlotsInOrder(v) /\ Moving(v)
          BY <4>3, InOperation DEF Moving
        <5>2. /\ loc[v].pos \in Positions /\ TopCopy(v) \in Positions
              /\ loc[v].pos < TopCopy(v)
          BY <4>3, <5>1 DEF SlotsInOrder
        <5> QED
          BY <5>2 DEF Positions
      <4>4. CASE o = q
        <5>1. ~OwnMarked(v, j, o)
          BY <1>5, <4>1, <4>4
        <5>2. CASE j # i
          BY <1>5, <1>6, <4>2, <4>4, <5>1, <5>2
        <5>3. CASE j = i
          <6>1. ASSUME pc[v] \in {"dropTop", "clearTop"}, i = TopCopy(v)
                PROVE  slot'[h][loc[v].pos] # Slot(q, TRUE)
            BY <1>5, <1>6, <4>3, <6>1
          <6> QED
            BY <1>6, <3>3, <4>2, <4>4, <5>3, <6>1
        <5> QED
          BY <5>2, <5>3
      <4>5. CASE o # q
        <5>1. slot'[h][i] # Slot(o, TRUE) /\ slot[h][i] # Slot(o, TRUE)
          <6>1. Slot(q, TRUE).ptr = q /\ Slot(o, TRUE).ptr = o
            BY SlotHas
          <6> QED
            BY <1>1, <1>6, <4>5, <6>1
        <5>2. CASE j = i
          BY <4>1, <4>2, <4>5, <5>1, <5>2
        <5>3. CASE j # i
          <6>1. slot'[h][j] = slot[h][j]
            BY <1>6, <5>3
          <6>2. ASSUME pc[v] \in {"dropTop", "clearTop"}, slot[h][j] = Slot(o, TRUE)
                PROVE  slot'[h][loc[v].pos] = slot[h][j] <=> slot[h][loc[v].pos] = slot[h][j]
            BY <1>6, <4>3, <5>1, <6>2
          <6> QED
            BY <4>1, <4>2, <4>5, <6>1, <6>2
        <5> QED
          BY <5>2, <5>3
      <4> QED
        BY <4>4, <4>5
    <3> QED
      BY <3>1, <3>2, <3>3
  <2> QED
    BY <2>1, <2>2, <2>3, <2>4
<1>15. OnePerThread'
  <2> SUFFICES ASSUME NEW o \in Objects
               PROVE  /\ mem'[o] = "retired" <=> \E v \in Threads : Deletes(v, o)'
                      /\ \A v, w \in Threads : Deletes(v, o)' /\ Deletes(w, o)' => v = w
                      /\ \A v \in Threads : InOnePlace(v, o)'
    BY DEF OnePerThread
  <2>1. /\ mem[o] = "retired" <=> \E v \in Threads : Deletes(v, o)
        /\ \A v, w \in Threads : Deletes(v, o) /\ Deletes(w, o) => v = w
        /\ \A v \in Threads : InOnePlace(v, o)
    BY DEF Inv, OnePerThread
  <2>2. CASE o # q
    <3>1. \A v \in Threads : Walking(v, o)' <=> Walking(v, o)
      BY <1>14, <2>2
    <3>2. \A v \in Threads, j \in Positions : OwnMarked(v, j, o)' <=> OwnMarked(v, j, o)
      BY <1>14, <2>2
    <3>3. \A v \in Threads : /\ Deletes(v, o)' <=> Deletes(v, o)
                             /\ InOnePlace(v, o)' <=> InOnePlace(v, o)
      BY <1>14, <3>1, <3>2 DEF Deletes, InOnePlace
    <3> QED
      BY <1>9, <2>1, <3>3
  <2>3. CASE o = q
    <3>1. Deletes(t, q) /\ \A j \in Positions : ~OwnMarked(t, j, q)
      BY <1>2, <2>1, <2>3 DEF Deletes, InOnePlace
    <3>2. \A v \in Threads : v # t => ~Deletes(v, q)
      BY <2>1, <2>3, <3>1
    <3>3. ~MarkInHand(t, q)
      BY <1>1 DEF MarkInHand
    <3>4. \A v \in Threads : /\ ~Walking(v, q)' /\ ~MarkInHand(v, q)'
                             /\ \A j \in Positions : OwnMarked(v, j, q)' <=> v = u /\ j = i
      BY <1>2, <1>14, <3>1, <3>2, <3>3 DEF Deletes
    <3>5. \A v \in Threads : (Deletes(v, q)' <=> v = u) /\ InOnePlace(v, q)'
      BY <1>2, <3>4 DEF Deletes, InOnePlace
    <3>6. mem'[q] = "retired"
      BY <1>9, <2>1, <2>3, <3>1
    <3> QED
      BY <1>3, <2>3, <3>5, <3>6
  <2> QED
    BY <2>2, <2>3
<1>16. \A v \in Threads : Given(v)' = Given(v)
  <2> SUFFICES ASSUME NEW v \in Threads, v # t
               PROVE  Given(v)' = Given(v)
    BY <1>8
  <2>1. /\ Tentative(v)' <=> Tentative(v)
        /\ TopCopy(v)' = TopCopy(v) /\ (Dropping(v)' <=> Dropping(v))
    BY <1>9 DEF Tentative, TopPosition, TopCopy, Dropping
  <2> QED
    BY <1>9, <2>1 DEF Given
<1>17. \A v \in Threads, o \in Objects : hpc[v] = "has" => Copies(v, o)' = Copies(v, o)
  <2> SUFFICES ASSUME NEW v \in Threads, NEW o \in Objects, hpc[v] = "has"
               PROVE  Copies(v, o)' = Copies(v, o)
    OBVIOUS
  <2>1. \A j \in Given(v) : slot'[Me(v)][j].ptr = slot[Me(v)][j].ptr
    BY <1>7, <1>10 DEF Given
  <2> QED
    BY <1>9, <1>16, <2>1 DEF Copies
<1>18. ProtectionsAnnounced'
  BY <1>9, <1>17 DEF ProtectionsAnnounced, Inv
<1>19. AheadOfAll'
  <2> SUFFICES ASSUME NEW v \in Threads, NEW o \in Objects, held'[v][o] > 0
               PROVE  \E j \in Copies(v, o)' :
                        \A w \in Threads : AheadOf(w, o, Me(v), j)'
    BY DEF AheadOfAll, Me
  <2>1. hpc[v] = "has" /\ held[v][o] > 0
    BY <1>9 DEF Inv, ProtectionsAnnounced
  <2>2. PICK j \in Copies(v, o) : \A w \in Threads : AheadOf(w, o, Me(v), j)
    BY <2>1, HeldAhead
  <2>3. ASSUME NEW w \in Threads
        PROVE  AheadOf(w, o, Me(v), j)'
    <3>1. \A k \in Positions : OwnMarked(w, k, o)' => UpTo(Me(v), j, Me(w), k)
      <4>1. ASSUME w = u, o = q
            PROVE  UpTo(Me(v), j, Me(w), i)
        <5>1. AheadOf(t, q, Me(v), j)
          BY <2>2, <4>1
        <5> QED
          BY <1>1, <1>2, <1>3, <4>1, <5>1 DEF AheadOf
      <4>2. \A k \in Positions : OwnMarked(w, k, o) => UpTo(Me(v), j, Me(w), k)
        BY <2>2 DEF AheadOf
      <4> QED
        BY <1>14, <4>1, <4>2
    <3>2. MarkInHand(w, o)' => w # t /\ UpTo(Me(v), j, Me(w), loc[w].pos)
      <4>1. AheadOf(w, o, Me(v), j)
        BY <2>2
      <4>2. MarkInHand(w, o)' => w # t
        BY <1>8 DEF MarkInHand
      <4> QED
        BY <1>14, <4>1, <4>2 DEF AheadOf
    <3>3. Walking(w, o)' =>
            /\ w # t
            /\ pc[w] = "markHandle" => Me(v) <= loc[w].h
            /\ pc[w] = "markSlot" => UpTo(Me(v), j, loc[w].h, loc[w].i)
            /\ Moving(w) => UpTo(Me(v), j, Me(w), loc[w].pos)
      <4>1. AheadOf(w, o, Me(v), j)
        BY <2>2
      <4> QED
        BY <1>14, <4>1 DEF AheadOf
    <3>4. w # t => (Moving(w)' <=> Moving(w))
      BY <1>9 DEF Moving
    <3> QED
      BY <1>9, <3>1, <3>2, <3>3, <3>4 DEF AheadOf
  <2> QED
    BY <1>17, <2>1, <2>2, <2>3
<1>20. CellsAreLive'
  BY <1>9, CellsKeep
<1>21. ProtectedExists'
  <2>1. \A v \in Threads, o \in Objects :
          Inserting(v, o)' <=> Inserting(v, o)
    BY <1>1, <1>8, <1>9 DEF Inserting, IsRaw
  <2> QED
    BY <1>9, <2>1 DEF ProtectedExists, Protected, Inv
<1>22. TableInv'
  BY <1>1, TableKeeps DEF Inv
<1> QED
  BY <1>13, <1>15, <1>18, <1>19, <1>20, <1>21, <1>22 DEF Inv

LEMMA MarkSlotKeeps ==
  ASSUME Inv, NEW t \in Threads, MarkSlot(t), TypeOK'
  PROVE  Inv'
BY MarkSlotPassesKeeps, MarkSlotFindsKeeps

(* The handle is given back with empty slots.                              *)
LEMMA DropDoneKeeps ==
  ASSUME Inv, NEW t \in Threads, DropDone(t), TypeOK'
  PROVE  Inv'
<1> SUFFICES ASSUME NEW h, h = Me(t)
             PROVE  Inv'
  OBVIOUS
<1>1. /\ pc[t] = "dropSlots" /\ loc[t].pos < 0
      /\ counter' = [counter EXCEPT ![h] = 0] /\ GiveBack(t) /\ Return(t)
      /\ UNCHANGED <<clientVars, slot>>
  BY DEF DropDone
<1>2. /\ hpc[t] = "has" /\ LocalsFit(t) /\ SlotsInOrder(t) /\ h \in Ids
      /\ loc[t] \in LocType
  BY <1>1, InOperation
<1>3. pc'[t] = "idle" /\ loc'[t] = NoLoc /\ OthersStay(t)
  BY <1>1, ReturnMoves DEF Inv
<1>4. /\ UNCHANGED <<slot, cell, mem, held>> /\ \A u \in Threads : Me(u)' = Me(u)
      /\ hpc'[t] = "none" /\ \A u \in Threads \ {t} : hpc'[u] = hpc[u]
      /\ counter'[h] = 0 /\ \A g \in Ids \ {h} : counter'[g] = counter[g]
  BY <1>1, <1>2 DEF GiveBack, clientVars, Me, Inv, TypeOK, TableTypeOK
<1>5. \A u \in Threads : hpc[u] = "has" => Me(u) \in Ids /\ (u # t => Me(u) # h)
  BY <1>2, OwnHandle DEF Inv
<1>6. \A u \in Threads \ {t} : SameFor(u)
  BY <1>3, <1>4, <1>5 DEF SameFor, OthersStay
<1>7. slot[h] = [i \in Positions |-> NoSlot]
  <2>1. \A i \in Positions : slot[h][i] = NoSlot
    <3>1. Dropping(t) /\ loc[t].pos \in Positions \cup {-1}
      BY <1>1, <1>2 DEF Dropping, LocType
    <3>2. \A i \in Positions : Emptied(t, i)
      BY <1>1, <3>1 DEF Emptied, Positions
    <3> QED
      BY <1>2, <3>2 DEF SlotsInOrder
  <2>2. slot[h] \in [Positions -> SlotType]
    BY <1>2 DEF Inv, TypeOK
  <2> QED
    BY <2>1, <2>2
<1>8. \A o \in Objects : ~(held[t][o] > 0)
  <2>1. \A o \in Objects : Copies(t, o) = {}
    BY <1>1 DEF Copies, Given, Dropping
  <2>2. \A o \in Objects : held[t][o] \in Nat /\ held[t][o] <= Cardinality(Copies(t, o))
    BY CopiesFinite
  <2>3. Cardinality({}) = 0
    BY FS_EmptySet
  <2> QED
    BY <2>1, <2>2, <2>3
<1>9. TableInv'
  BY <1>1, GiveBackTableInv DEF Inv
<1>10. LocalsFit(t)'
  BY <1>3 DEF LocalsFit, NoLoc, NoSlot, Slot
<1>11. HandlesInOrder'
  <2>1. \A u \in Threads : LocalsFit(u)' /\ (hpc'[u] = "has" => SlotsInOrder(u)')
    BY <1>4, <1>6, <1>10, OthersInOrder
  <2>2. ASSUME NEW g \in Ids
        PROVE  \/ \E u \in Threads : hpc'[u] = "has" /\ Me(u)' = g
               \/ counter'[g] = 0 /\ slot'[g] = [i \in Positions |-> NoSlot]
    <3>1. CASE g = h
      BY <1>4, <1>7, <3>1
    <3>2. CASE g # h
      <4>1. \/ \E u \in Threads : hpc[u] = "has" /\ Me(u) = g
            \/ counter[g] = 0 /\ slot[g] = [i \in Positions |-> NoSlot]
        BY DEF Inv, HandlesInOrder
      <4> QED
        BY <1>4, <3>2, <4>1
    <3> QED
      BY <3>1, <3>2
  <2>3. \A g \in Ids, i \in Positions : slot'[g][i].mark => slot'[g][i].ptr \in Objects
    BY <1>4, MarksFit
  <2> QED
    BY <2>1, <2>2, <2>3 DEF HandlesInOrder
<1>12. CellsAreLive'
  BY <1>4, CellsKeep
<1>13. \A u \in Threads, o \in Objects : Inserting(u, o)' => Inserting(u, o)
  BY <1>3 DEF Inserting, IsRaw, OthersStay
<1>14. ProtectedExists'
  BY <1>4, <1>13 DEF ProtectedExists, Protected, Inv
<1>15. \A u \in Threads \ {t}, o \in Objects :
         hpc[u] = "has" => Copies(u, o)' = Copies(u, o)
  BY <1>6, OthersAnnounce
<1>16. ProtectionsAnnounced'
  BY <1>4, <1>8, <1>15 DEF ProtectionsAnnounced, Inv
<1>17. \A o \in Objects :
         /\ ~Walking(t, o)' /\ ~MarkInHand(t, o)' /\ ~Deletes(t, o) /\ ~Deletes(t, o)'
         /\ \A i \in Positions : ~OwnMarked(t, i, o)'
  <2>1. \A o \in Objects, i \in Positions : ~OwnMarked(t, i, o) /\ ~OwnMarked(t, i, o)'
    BY <1>4, <1>7 DEF OwnMarked, NoSlot, Slot
  <2>2. ~loc[t].marked
    BY <1>1, <1>2 DEF LocalsFit
  <2> QED
    BY <1>1, <1>3, <2>1, <2>2 DEF Walking, MarkInHand, Deletes, NoLoc
<1>18. \A u \in Threads \ {t}, o \in Objects :
         (Deletes(u, o)' <=> Deletes(u, o)) /\ (InOnePlace(u, o)' <=> InOnePlace(u, o))
  BY <1>6, OthersDelete
<1>19. OnePerThread'
  <2>1. \A o \in Objects : InOnePlace(t, o)'
    BY <1>17 DEF InOnePlace
  <2> QED
    BY <1>4, <1>17, <1>18, <2>1 DEF OnePerThread, Inv
<1>20. AheadOfAll'
  <2> SUFFICES ASSUME NEW v \in Threads, NEW o \in Objects, held'[v][o] > 0
               PROVE  \E i \in Copies(v, o)' :
                        \A u \in Threads : AheadOf(u, o, Me(v), i)'
    BY DEF AheadOfAll, Me
  <2>1. v # t /\ held[v][o] > 0 /\ hpc[v] = "has"
    BY <1>4, <1>8 DEF Inv, ProtectionsAnnounced
  <2>2. PICK i \in Copies(v, o) : \A u \in Threads : AheadOf(u, o, Me(v), i)
    BY <2>1, HeldAhead
  <2>3. i \in Copies(v, o)' /\ i \in Positions /\ Me(v)' = Me(v) /\ Me(v) \in Ids
    BY <1>4, <1>5, <1>15, <2>1, <2>2 DEF Copies, Given
  <2>4. ASSUME NEW u \in Threads
        PROVE  AheadOf(u, o, Me(v), i)'
    <3>1. CASE u = t
      BY <1>17, <3>1 DEF AheadOf
    <3>2. CASE u # t
      BY <1>6, <2>2, <2>3, <3>2, OthersDelete
    <3> QED
      BY <3>1, <3>2
  <2> QED
    BY <2>3, <2>4
<1> QED
  BY <1>9, <1>11, <1>12, <1>14, <1>16, <1>19, <1>20 DEF Inv

LEMMA UnchangedInv == Inv /\ UNCHANGED vars => Inv'
<1> SUFFICES ASSUME Inv, UNCHANGED vars
             PROVE  Inv'
  OBVIOUS
<1>1. /\ UNCHANGED <<handles, handleCounter, hpc, at, cell, mem, held, counter, slot>>
      /\ UNCHANGED <<pc, loc>>
  BY DEF vars, tableVars, clientVars, slotVars
<1>2. TableInv'
  BY <1>1, TableKeeps DEF tableVars, Inv
<1>3. \A u \in Threads : SameFor(u)
  BY <1>1 DEF SameFor, Me
<1>4. TypeOK'
  BY <1>1, <1>2 DEF Inv, TypeOK, TableInv
<1>5. HandlesInOrder'
  <2>1. \A u \in Threads : LocalsFit(u)' /\ (hpc'[u] = "has" => SlotsInOrder(u)')
    BY <1>1, <1>3, OthersInOrder
  <2> QED
    BY <1>1, <2>1 DEF HandlesInOrder, Inv, Me
<1>6. CellsAreLive'
  BY <1>1, CellsKeep
<1>7. ProtectedExists'
  BY <1>1 DEF Inv, ProtectedExists, Protected, Inserting, IsRaw
<1>8. \A u \in Threads, o \in Objects :
        /\ hpc[u] = "has" => Copies(u, o)' = Copies(u, o)
        /\ Deletes(u, o)' <=> Deletes(u, o)
        /\ InOnePlace(u, o)' <=> InOnePlace(u, o)
        /\ \A h \in Ids, i \in Positions : AheadOf(u, o, h, i)' <=> AheadOf(u, o, h, i)
  BY <1>3, OthersAnnounce, OthersDelete
<1>9. ProtectionsAnnounced' /\ OnePerThread'
  BY <1>1, <1>8 DEF Inv, ProtectionsAnnounced, OnePerThread
<1>10. AheadOfAll'
  <2> SUFFICES ASSUME NEW v \in Threads, NEW o \in Objects, held[v][o] > 0
               PROVE  \E i \in Copies(v, o)' :
                        \A u \in Threads : AheadOf(u, o, Me(v), i)'
    BY <1>1 DEF AheadOfAll, Me
  <2>1. PICK i \in Copies(v, o) : \A u \in Threads : AheadOf(u, o, Me(v), i)
    BY HeldAhead
  <2>2. /\ hpc[v] = "has" /\ i \in Positions /\ Me(v) \in Ids /\ Me(v)' = Me(v)
    BY <1>1, <2>1, OwnHandle DEF Inv, ProtectionsAnnounced, Copies, Given, Me
  <2> QED
    BY <1>8, <2>1, <2>2
<1> QED
  BY <1>2, <1>4, <1>5, <1>6, <1>7, <1>9, <1>10 DEF Inv

LEMMA NextInv == Inv /\ [Next]_vars => Inv'
<1> SUFFICES ASSUME Inv, Next
             PROVE  Inv'
  BY UnchangedInv
<1>1. PICK t \in Threads : HandleStep(t) \/ Begin(t) \/ Step(t)
  BY DEF Next
<1>2. CASE HandleStep(t)
  BY <1>2, HandleStepKeeps
<1>3. CASE Begin(t)
  <2>1. TypeOK'
    BY <1>3, BeginTypeOK
  <2> QED
    BY <1>3, <2>1, ProtectLoadKeeps, ExchangeKeeps, ProtectRawKeeps, ProtectNewKeeps,
       UnprotectKeeps, DropHandleKeeps DEF Begin
<1>4. CASE Step(t)
  <2>1. TypeOK'
    BY <1>4, StepTypeOK
  <2> QED
    BY <1>4, <2>1, InsertCountKeeps, InsertStoreKeeps, ReloadKeeps, ReplaceKeeps,
       ReplacedKeeps, RemoveTopKeeps, MoveDownKeeps, DropTopKeeps, ClearTopKeeps,
       MoveMarkKeeps, SafeDeleteKeeps, MarkHandleKeeps, MarkSlotKeeps, DestroyKeeps,
       DropSlotKeeps, DropDoneKeeps DEF Step
<1> QED
  BY <1>1, <1>2, <1>3, <1>4

------------------------------------------------------------------------------
LEMMA InvHolds == Spec => []Inv
<1> USE InitInv, NextInv DEF Spec
<1> QED
  BY PTL

(* Theorem: the inductive invariant holds, so a thread has a handle of its *)
(* own, its slots are as its operation left them but for marks, and every  *)
(* protection is announced ahead of the deleter of its object.             *)
THEOREM IndInvHolds == Spec => []IndInv
BY InvHolds, InvIsIndInv, PTL

(* Theorem: the state of a handle, of the objects and of the shared        *)
(* pointers fits together, also while remove moves slots about and others  *)
(* set marks in them.                                                      *)
THEOREM StateInvHolds == Spec => []StateInv
<1>1. IndInv => StateInv
  BY DEF IndInv
<1> QED
  BY <1>1, IndInvHolds, PTL

(* Theorem: at all times exactly one thread or one marked slot is          *)
(* responsible for the deletion of a retired object, so it is neither lost *)
(* nor done twice.                                                         *)
THEOREM OneDeleterHolds == Spec => []OneDeleter
<1>1. IndInv => OneDeleter
  BY DEF IndInv
<1> QED
  BY <1>1, IndInvHolds, PTL

(* Theorem: also with hazard_manager's steps in between, get_handle always *)
(* finds a handle, no two threads share one, and walks start beyond all    *)
(* handles in use.                                                         *)
THEOREM HandlesSafeHolds == Spec => []HandlesSafe
<1>1. Inv => HandlesSafe
  BY TableInvFinds DEF Inv, TableInv, HandlesSafe
<1> QED
  BY <1>1, InvHolds, PTL

(* Each step is one of what the manager promises, or changes nothing that  *)
(* the program sees.                                                       *)
LEMMA BeginImplements ==
  ASSUME Inv, NEW t \in Threads, Begin(t)
  PROVE  Contract!Next \/ UNCHANGED clientVars
<1>1. ASSUME NEW c \in Cells, ProtectLoad(t, c)
      PROVE  UNCHANGED clientVars
  BY <1>1 DEF ProtectLoad
<1>2. ASSUME NEW c \in Cells, NEW p \in Pointers, Exchange(t, c, p)
      PROVE  Contract!Exchange(c, p)
  BY <1>2 DEF Exchange, Contract!Exchange
<1>3. ASSUME NEW o \in Objects, ProtectRaw(t, o)
      PROVE  UNCHANGED clientVars
  BY <1>3 DEF ProtectRaw
<1>4. ASSUME NEW o \in Objects, ProtectNew(t, o)
      PROVE  Contract!Create(t, o)
  BY <1>4 DEF ProtectNew, Contract!Create
<1>5. ASSUME NEW o \in Objects, Unprotect(t, o)
      PROVE  Contract!Unprotect(t, o)
  BY <1>5 DEF Unprotect, Contract!Unprotect
<1>6. ASSUME DropHandle(t)
      PROVE  Contract!DropAll(t)
  BY <1>6 DEF DropHandle, Contract!DropAll
<1> QED
  BY <1>1, <1>2, <1>3, <1>4, <1>5, <1>6 DEF Begin, Contract!Next, Pointers

LEMMA StepImplements ==
  ASSUME Inv, NEW t \in Threads, Step(t)
  PROVE  Contract!Next \/ UNCHANGED clientVars
<1>1. ASSUME NEW o \in Objects, Hold(t, o), UNCHANGED <<cell, mem>>,
             mem[o] = "private" \/ held[t][o] > 0 \/ \E c \in Cells : cell[c] = o
      PROVE  Contract!Next
  <2>1. Contract!Protect(t, o)
    BY <1>1 DEF Hold, Contract!Protect
  <2> QED
    BY <2>1 DEF Contract!Next
<1>2. CASE InsertStore(t)
  <2>1. loc[t].ptr \in Objects
    BY <1>2, InOperation DEF InsertStore, LocalsFit
  <2>2. IsRaw(t) => mem[loc[t].ptr] = "private" \/ held[t][loc[t].ptr] > 0
    BY <1>2, <2>1 DEF InsertStore, Inserting, Inv, ProtectedExists
  <2> QED
    BY <1>1, <1>2, <2>1, <2>2 DEF InsertStore, clientVars
<1>3. CASE Reload(t)
  <2>1. loc[t].ptr \in Objects /\ loc[t].cell \in Cells
    BY <1>3, InOperation DEF Reload, LocalsFit
  <2> QED
    BY <1>1, <1>3, <2>1 DEF Reload, StillThere, clientVars
<1>4. CASE Replaced(t)
  <2>1. loc[t].cell \in Cells /\ (loc[t].new # NoPtr => loc[t].new \in Objects)
    <3>1. pc[t] = "replaced" /\ LocalsFit(t) /\ loc[t] \in LocType
      BY <1>4, InOperation DEF Replaced
    <3> QED
      BY <3>1 DEF LocalsFit, LocType, Pointers
  <2> QED
    BY <1>1, <1>4, <2>1 DEF Replaced, clientVars
<1>5. CASE Destroy(t)
  <2>1. loc[t].ptr \in Objects /\ mem[loc[t].ptr] = "retired" /\ ~Protected(loc[t].ptr)
    BY <1>5, DestroyUnprotected
  <2>2. \A u \in Threads : held[u][loc[t].ptr] = 0
    BY <2>1 DEF Protected, Inv, TypeOK
  <2>3. Contract!Destroy(loc[t].ptr)
    BY <1>5, <2>1, <2>2 DEF Destroy, Contract!Destroy
  <2> QED
    BY <2>1, <2>3 DEF Contract!Next
<1>6. CASE InsertCount(t) \/ Replace(t) \/ RemoveTop(t) \/ MoveDown(t) \/ DropTop(t)
           \/ ClearTop(t) \/ MoveMark(t)
  BY <1>6 DEF InsertCount, Replace, RemoveTop, MoveDown, DropTop, ClearTop, MoveMark
<1>7. CASE SafeDelete(t) \/ MarkHandle(t) \/ MarkSlot(t) \/ DropSlot(t) \/ DropDone(t)
  BY <1>7 DEF SafeDelete, MarkHandle, MarkSlot, DropSlot, DropDone
<1> QED
  BY <1>2, <1>3, <1>4, <1>5, <1>6, <1>7 DEF Step

LEMMA NextImplements == Inv /\ [Next]_vars => [Contract!Next]_Contract!vars
<1> SUFFICES ASSUME Inv, [Next]_vars
             PROVE  Contract!Next \/ UNCHANGED clientVars
  BY DEF clientVars, Contract!vars
<1>1. CASE UNCHANGED vars
  BY <1>1 DEF vars, clientVars
<1>2. ASSUME NEW t \in Threads, HandleStep(t)
      PROVE  UNCHANGED clientVars
  BY <1>2 DEF HandleStep
<1> QED
  BY <1>1, <1>2, BeginImplements, StepImplements DEF Next

(* Theorem: hazard_manager keeps its promise: what protect and protect_raw *)
(* return is not destroyed before it is given back, and nothing is         *)
(* destroyed twice or without having been retired.                         *)
THEOREM ImplementsContractHolds == Spec => ImplementsContract
<1>1. Init => Contract!Init
  BY DEF Init, Contract!Init
<1> QED
  BY <1>1, NextImplements, InvHolds, PTL DEF Spec, ImplementsContract, Contract!Spec
==============================================================================
