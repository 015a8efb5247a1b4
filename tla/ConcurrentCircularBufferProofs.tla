-------------------- MODULE ConcurrentCircularBufferProofs ---------------------
(***************************************************************************)
(* For any number of threads and any capacity, pushes that wait for room   *)
(* and pops that wait for elements never face each other without help: the *)
(* tickets deal the slots in turn, so what two slots are owed differs by   *)
(* one at most, while an occupied slot with a waiting push and an empty    *)
(* one with a waiting pop differ by three.  With one push and one pop at a *)
(* time the buffer is a FIFO queue.                                        *)
(***************************************************************************)
EXTENDS ConcurrentCircularBuffer, FiniteSetTheorems, SequenceTheorems, TLAPS

(* Division with remainder is unique.                                      *)
LEMMA ModUnique ==
  ASSUME NEW n \in Nat \ {0}, NEW a \in Int, NEW q \in Int,
         NEW r \in 0 .. (n - 1), a = n * q + r
  PROVE  a % n = r
<1> DEFINE d == a \div n
<1>1. d \in Int /\ a % n \in 0 .. (n - 1) /\ a = n * d + (a % n)
  OBVIOUS
<1> HIDE DEF d
<1>2. n * (q - d) = (a % n) - r
  <2>1. n * (q - d) = n * q - n * d /\ n * q \in Int /\ n * d \in Int
    BY <1>1
  <2> QED
    BY <1>1, <2>1
<1>3. CASE q - d >= 1
  <2>1. n * (q - d) >= n
    BY <1>1, <1>3
  <2> QED
    BY <1>1, <1>2, <2>1
<1>4. CASE q - d <= -1
  <2>1. n * (q - d) <= -n
    BY <1>1, <1>4
  <2> QED
    BY <1>1, <1>2, <2>1
<1>5. CASE q = d
  BY <1>1, <1>2, <1>5
<1> QED
  BY <1>1, <1>3, <1>4, <1>5

LEMMA ModSucc ==
  ASSUME NEW n \in Nat \ {0}, NEW a \in Int
  PROVE  (a + 1) % n = IF a % n = n - 1 THEN 0 ELSE (a % n) + 1
<1> DEFINE d == a \div n
<1>1. d \in Int /\ a % n \in 0 .. (n - 1) /\ a = n * d + (a % n)
  OBVIOUS
<1> HIDE DEF d
<1>2. CASE a % n = n - 1
  <2>1. a + 1 = n * (d + 1) + 0 /\ d + 1 \in Int /\ 0 \in 0 .. (n - 1)
    BY <1>1, <1>2
  <2>2. a + 1 \in Int
    OBVIOUS
  <2>3. (a + 1) % n = 0
    BY <2>1, <2>2, ModUnique
  <2> QED
    BY <1>2, <2>3
<1>3. CASE a % n # n - 1
  <2> DEFINE r == (a % n) + 1
  <2>1. a + 1 = n * d + r /\ r \in 0 .. (n - 1)
    BY <1>1, <1>3
  <2>2. a + 1 \in Int
    OBVIOUS
  <2>3. (a + 1) % n = r
    <3> HIDE DEF r
    <3> QED
      BY <1>1, <2>1, <2>2, ModUnique
  <2> QED
    BY <1>3, <2>3
<1> QED
  BY <1>2, <1>3

LEMMA ModSame ==
  ASSUME NEW n \in Nat \ {0}, NEW a \in Int
  PROVE  (a + n) % n = a % n /\ (a - n) % n = a % n
<1> DEFINE d == a \div n
           r == a % n
<1>1. d \in Int /\ r \in 0 .. (n - 1) /\ a = n * d + r
  OBVIOUS
<1> HIDE DEF d, r
<1>2. a + n \in Int /\ d + 1 \in Int /\ a + n = n * (d + 1) + r
  BY <1>1
<1>3. a - n \in Int /\ d - 1 \in Int /\ a - n = n * (d - 1) + r
  BY <1>1
<1>4. (a + n) % n = r /\ (a - n) % n = r
  BY <1>1, <1>2, <1>3, ModUnique
<1> QED
  BY <1>4 DEF r

LEMMA ModSuccIff ==
  ASSUME NEW n \in Nat \ {0}, NEW a \in Int, NEW b \in Int
  PROVE  a % n = b % n <=> (a + 1) % n = (b + 1) % n
<1>1. a % n \in 0 .. (n - 1) /\ b % n \in 0 .. (n - 1)
  OBVIOUS
<1>2. /\ (a + 1) % n = (IF a % n = n - 1 THEN 0 ELSE (a % n) + 1)
      /\ (b + 1) % n = (IF b % n = n - 1 THEN 0 ELSE (b % n) + 1)
  BY ModSucc
<1> QED
  BY <1>1, <1>2

LEMMA ModIs ==
  ASSUME NEW n \in Nat \ {0}, NEW a \in Int
  PROVE  a % n \in 0 .. (n - 1) /\ \E q \in Int : a = n * q + (a % n)
<1> DEFINE d == a \div n
<1>1. d \in Int /\ a % n \in 0 .. (n - 1) /\ a = n * d + (a % n)
  OBVIOUS
<1> QED
  BY <1>1

LEMMA ModSum ==
  ASSUME NEW n \in Nat \ {0}, NEW a \in Int, NEW b \in Int
  PROVE  ((a % n) + b) % n = (a + b) % n
<1>1. PICK q \in Int : a = n * q + (a % n)
  BY ModIs, Zenon
<1>2. (a % n) + b \in Int /\ a % n \in Int
  OBVIOUS
<1>3. PICK p \in Int : (a % n) + b = n * p + (((a % n) + b) % n)
  BY <1>2, ModIs, Zenon
<1>4. ((a % n) + b) % n \in 0 .. (n - 1)
  BY <1>2, ModIs, Zenon
<1> DEFINE r == ((a % n) + b) % n
<1>5. a + b = n * (q + p) + r /\ q + p \in Int /\ a + b \in Int
  <2>1. n * (q + p) = n * q + n * p /\ n * q \in Int /\ n * p \in Int
    OBVIOUS
  <2>2. r \in Int
    BY <1>4
  <2> HIDE DEF r
  <2>3. (a % n) + b = n * p + r
    BY <1>3 DEF r
  <2> QED
    BY <1>1, <1>2, <2>1, <2>2, <2>3
<1> HIDE DEF r
<1>6. (a + b) % n = r
  BY <1>4, <1>5, ModUnique DEF r
<1> QED
  BY <1>6 DEF r

LEMMA ModApart ==
  ASSUME NEW n \in Nat \ {0}, NEW a \in Int, NEW i \in 1 .. n, NEW j \in 1 .. n,
         (a + i) % n = (a + j) % n
  PROVE  i = j
<1>1. a + i \in Int /\ a + j \in Int
  OBVIOUS
<1>2. PICK q \in Int : a + i = n * q + ((a + i) % n)
  BY <1>1, ModIs, Zenon
<1>3. PICK p \in Int : a + j = n * p + ((a + j) % n)
  BY <1>1, ModIs, Zenon
<1>4. (a + i) % n \in Int
  BY <1>1
<1>5. i - j = n * (q - p)
  <2>1. n * (q - p) = n * q - n * p /\ n * q \in Int /\ n * p \in Int
    OBVIOUS
  <2> QED
    BY <1>2, <1>3, <1>4, <2>1
<1>6. CASE q - p >= 1
  <2>1. n * (q - p) >= n
    BY <1>6
  <2> QED
    BY <1>5, <2>1
<1>7. CASE q - p <= -1
  <2>1. n * (q - p) <= -n
    BY <1>7
  <2> QED
    BY <1>5, <2>1
<1>8. CASE q - p = 0
  BY <1>5, <1>8
<1> QED
  BY <1>6, <1>7, <1>8

(* The arithmetic of a difference whose words are loaded one by one.       *)
LEMMA ModOfMod ==
  ASSUME NEW n \in Nat \ {0}, NEW a \in Int
  PROVE  (a % n) % n = a % n
<1>1. a % n \in 0 .. (n - 1) /\ a % n = n * 0 + (a % n) /\ 0 \in Int /\ a % n \in Int
  OBVIOUS
<1> QED
  BY <1>1, ModUnique

IsDifference(n, a, b, u) == (a - b) % n = u % n
IsBehind(n, l, k, word) == (l + k) % n = word

LEMMA PushLoadedFirst ==
  ASSUME NEW n \in Nat \ {0}, NEW push \in Int, NEW pop \in Int, NEW use \in Int,
         NEW l \in Int, NEW k \in Int,
         IsDifference(n, push, pop, use), IsBehind(n, l, k, push)
  PROVE  IsDifference(n, l, pop, use - k)
<1> USE DEF IsDifference, IsBehind
<1> DEFINE c == -pop - k
           m == l + k
           d == push - pop
           j == -k
<1>1. /\ c \in Int /\ m \in Int /\ d \in Int /\ j \in Int
      /\ m + c = l - pop /\ push + c = d + j /\ use + j = use - k
      /\ m % n = push /\ d % n = use % n
  OBVIOUS
<1> HIDE DEF c, m, d, j
<1>2. (m % n) % n = m % n
  BY <1>1, ModOfMod, Zenon
<1>3. (m + c) % n = (push + c) % n
  <2>1. m % n = push % n
    BY <1>1, <1>2
  <2>2. ((m % n) + c) % n = (m + c) % n
    BY <1>1, ModSum, Zenon
  <2>3. ((push % n) + c) % n = (push + c) % n
    BY <1>1, ModSum, Zenon
  <2> QED
    BY <2>1, <2>2, <2>3
<1>4. (d + j) % n = (use + j) % n
  <2>1. ((d % n) + j) % n = (d + j) % n
    BY <1>1, ModSum, Zenon
  <2>2. ((use % n) + j) % n = (use + j) % n
    BY <1>1, ModSum, Zenon
  <2> QED
    BY <1>1, <2>1, <2>2
<1>5. (l - pop) % n = (use - k) % n
  BY <1>1, <1>3, <1>4
<1> QED
  BY <1>5

LEMMA PopLoadedFirst ==
  ASSUME NEW n \in Nat \ {0}, NEW push \in Int, NEW pop \in Int, NEW use \in Int,
         NEW l \in Int, NEW k \in Int,
         IsDifference(n, push, pop, use), IsBehind(n, l, k, pop)
  PROVE  IsDifference(n, push, l, use + k)
<1> USE DEF IsDifference, IsBehind
<1> DEFINE c == push - l - pop
           m == l + k
           d == push - pop
<1>1. /\ c \in Int /\ m \in Int /\ d \in Int
      /\ m + c = d + k /\ pop + c = push - l
      /\ m % n = pop /\ d % n = use % n
  OBVIOUS
<1> HIDE DEF c, m, d
<1>2. (m % n) % n = m % n
  BY <1>1, ModOfMod, Zenon
<1>3. (m + c) % n = (pop + c) % n
  <2>1. m % n = pop % n
    BY <1>1, <1>2
  <2>2. ((m % n) + c) % n = (m + c) % n
    BY <1>1, ModSum, Zenon
  <2>3. ((pop % n) + c) % n = (pop + c) % n
    BY <1>1, ModSum, Zenon
  <2> QED
    BY <2>1, <2>2, <2>3
<1>4. (d + k) % n = (use + k) % n
  <2>1. ((d % n) + k) % n = (d + k) % n
    BY <1>1, ModSum, Zenon
  <2>2. ((use % n) + k) % n = (use + k) % n
    BY <1>1, ModSum, Zenon
  <2> QED
    BY <1>1, <2>1, <2>2
<1>5. (push - l) % n = (use + k) % n
  BY <1>1, <1>3, <1>4
<1> QED
  BY <1>5

USE CapacityAssumption, DummyAssumption, ThreadsAssumption

(* The next ticket stands for the next slot, also when the word wraps.     *)
NextSlot(s) == IF s = Capacity - 1 THEN 0 ELSE s + 1

LEMMA TicketSlots ==
  ASSUME NEW id \in 0 .. (Words - 1)
  PROVE  /\ id % Capacity \in Slots
         /\ FetchAdd(id) \in 0 .. (Words - 1)
         /\ FetchAdd(id) % Capacity = NextSlot(id % Capacity)
         /\ PushSlot(id) = NextSlot(id % Capacity)
         /\ PopSlot(id) = NextSlot(id % Capacity)
         /\ NextSlot(id % Capacity) \in Slots
<1>1. id \in Int /\ Capacity \in Nat \ {0} /\ Words \in Nat \ {0}
  OBVIOUS
<1>2. id % Capacity \in Slots
  BY <1>1 DEF Slots
<1>3. (id + 1) % Capacity = NextSlot(id % Capacity)
  BY <1>1, ModSucc DEF NextSlot
<1>4. /\ FetchAdd(id) \in 0 .. (Words - 1)
      /\ FetchAdd(id) % Capacity = (id + 1) % Capacity
  <2>1. CASE id = Words - 1
    <3>1. Words % Words = 0
      <4>1. Words = Words * 1 + 0 /\ Words \in Int /\ 1 \in Int
            /\ 0 \in 0 .. (Words - 1)
        BY <1>1
      <4> QED
        BY <1>1, <4>1, ModUnique
    <3>2. FetchAdd(id) = 0
      BY <1>1, <2>1, <3>1 DEF FetchAdd
    <3>3. 0 % Capacity = 0
      BY <1>1
    <3>4. (id + 1) % Capacity = 0
      BY <1>1, <2>1
    <3> QED
      BY <1>1, <3>2, <3>3, <3>4
  <2>2. CASE id # Words - 1
    <3>1. id + 1 = Words * 0 + (id + 1) /\ id + 1 \in 0 .. (Words - 1)
          /\ id + 1 \in Int /\ 0 \in Int
      BY <1>1, <2>2
    <3>2. (id + 1) % Words = id + 1
      BY <1>1, <3>1, ModUnique
    <3> QED
      BY <3>1, <3>2 DEF FetchAdd
  <2> QED
    BY <2>1, <2>2
<1>5. NextSlot(id % Capacity) \in Slots
  BY <1>1, <1>2 DEF NextSlot, Slots
<1> QED
  BY <1>2, <1>3, <1>4, <1>5 DEF PushSlot, PopSlot

LEMMA OneMoreSince ==
  ASSUME NEW l \in Int, NEW k \in Int, NEW id \in Int, (l + k) % Words = id
  PROVE  (l + FetchAdd(k)) % Words = FetchAdd(id)
<1>1. Words \in Nat \ {0}
  OBVIOUS
<1>2. (l + FetchAdd(k)) % Words = (l + (k + 1)) % Words
  <2>1. k + 1 \in Int /\ (k + 1) % Words \in Int
    BY <1>1
  <2>2. (((k + 1) % Words) + l) % Words = ((k + 1) + l) % Words
    BY <1>1, <2>1, ModSum
  <2>3. ((k + 1) % Words) + l = l + FetchAdd(k) /\ (k + 1) + l = l + (k + 1)
    BY <2>1 DEF FetchAdd
  <2> QED
    BY <2>2, <2>3
<1>3. FetchAdd(id) = ((l + k) + 1) % Words
  <2>1. l + k \in Int /\ 1 \in Int
    OBVIOUS
  <2>2. (((l + k) % Words) + 1) % Words = ((l + k) + 1) % Words
    BY <1>1, <2>1, ModSum
  <2> QED
    BY <2>2 DEF FetchAdd
<1>4. l + (k + 1) = (l + k) + 1
  OBVIOUS
<1> QED
  BY <1>2, <1>3, <1>4

------------------------------------------------------------------------------
(* What a slot is owed, and how the claims of a push and of a pop move the *)
(* boundary between the slots that are ahead and the others.               *)

LEMMA OperationsAt ==
  ASSUME NEW s
  PROVE  /\ IsFiniteSet(PushingAt(s)) /\ Cardinality(PushingAt(s)) \in Nat
         /\ IsFiniteSet(PoppingAt(s)) /\ Cardinality(PoppingAt(s)) \in Nat
<1>1. PushingAt(s) \subseteq Threads /\ PoppingAt(s) \subseteq Threads
  BY DEF PushingAt, PoppingAt, Pushing, Popping
<1> QED
  BY <1>1, FS_Subset, FS_CardinalityType

LEMMA OwedType == \A s : Owed(s) \in Int
<1> TAKE s
<1>1. Cardinality(PushingAt(s)) \in Nat /\ Cardinality(PoppingAt(s)) \in Nat
  BY OperationsAt
<1> QED
  BY <1>1 DEF Owed

(* IsAhead for a last push at p and a last pop at q.                       *)
Between(q, s, p) == IF q <= p THEN q < s /\ s <= p ELSE q < s \/ s <= p
One(b) == IF b THEN 1 ELSE 0

LEMMA PushMovesAhead ==
  ASSUME NEW p \in Slots, NEW q \in Slots, NEW s \in Slots
  PROVE  One(Between(q, s, NextSlot(p))) =
           One(Between(q, s, p)) + One(s = NextSlot(p)) - One(NextSlot(p) = q)
<1>1. CASE p = Capacity - 1
  BY <1>1 DEF One, Between, NextSlot, Slots
<1>2. CASE p # Capacity - 1
  BY <1>2 DEF One, Between, NextSlot, Slots
<1> QED
  BY <1>1, <1>2

LEMMA PopMovesAhead ==
  ASSUME NEW p \in Slots, NEW q \in Slots, NEW s \in Slots
  PROVE  One(Between(NextSlot(q), s, p)) =
           One(Between(q, s, p)) - One(s = NextSlot(q)) + One(q = p)
<1>1. CASE q = Capacity - 1
  BY <1>1 DEF One, Between, NextSlot, Slots
<1>2. CASE q # Capacity - 1
  BY <1>2 DEF One, Between, NextSlot, Slots
<1> QED
  BY <1>1, <1>2

LEMMA AheadBetween ==
  \A s : Ahead(s) = One(Between(LastPop, s, LastPush))
BY DEF Ahead, IsAhead, One, Between

(* If a step changes what is owed as it changes what is ahead, up to a     *)
(* constant, slots stay dealt in turn.                                     *)
LEMMA TurnKept ==
  ASSUME DealtInTurn, NEW d \in Int, NEW c \in [Slots -> Int],
         \A s \in Slots : Owed(s)' = Owed(s) + c[s],
         \A s \in Slots : Ahead(s)' = Ahead(s) + c[s] + d
  PROVE  DealtInTurn'
<1>1. Slots' = Slots
  BY DEF Slots
<1>2. \A s : Owed(s) \in Int /\ Ahead(s) \in Int
  BY OwedType DEF Ahead
<1> SUFFICES ASSUME NEW s \in Slots, NEW r \in Slots
             PROVE  Owed(s)' - Owed(r)' = Ahead(s)' - Ahead(r)'
  BY <1>1 DEF DealtInTurn
<1>3. Owed(s) - Owed(r) = Ahead(s) - Ahead(r)
  BY DEF DealtInTurn
<1>4. /\ Owed(s)' = Owed(s) + c[s] /\ Owed(r)' = Owed(r) + c[r]
      /\ Ahead(s)' = Ahead(s) + c[s] + d /\ Ahead(r)' = Ahead(r) + c[r] + d
      /\ c[s] \in Int /\ c[r] \in Int
  OBVIOUS
<1>5. Owed(s) \in Int /\ Owed(r) \in Int /\ Ahead(s) \in Int /\ Ahead(r) \in Int
  BY <1>2
<1> QED
  BY <1>3, <1>4, <1>5

------------------------------------------------------------------------------
(* The steps that change what is owed.                                     *)

LEMMA PushClaimKeepsTurn ==
  ASSUME IndInv, NEW t \in Threads, NEW e \in Values, PushClaim(t, e)
  PROVE  DealtInTurn'
<1> DEFINE n == NextSlot(LastPush)
           c == [s \in Slots |-> One(s = n)]
<1>1. pushId \in 0 .. (Words - 1) /\ popId \in 0 .. (Words - 1)
  BY DEF IndInv, TypeOK
<1>2. /\ LastPush \in Slots /\ n \in Slots /\ LastPush' = n
      /\ LastPop \in Slots /\ LastPop' = LastPop
      /\ slot'[t] = n
  <2>1. slot'[t] = PushSlot(pushId)
    BY DEF PushClaim, IndInv, TypeOK
  <2> QED
    BY <1>1, <2>1, TicketSlots DEF PushClaim, LastPush, LastPop
<1> HIDE DEF n
<1>3. ASSUME NEW s \in Slots
      PROVE  Ahead(s)' = Ahead(s) + c[s] + (-One(n = LastPop))
  <2>1. Ahead(s) = One(Between(LastPop, s, LastPush))
    BY AheadBetween
  <2>2. Ahead(s)' = One(Between(LastPop, s, n))
    BY <1>2 DEF Ahead, IsAhead, One, Between
  <2>3. One(Between(LastPop, s, n)) =
          One(Between(LastPop, s, LastPush)) + One(s = n) - One(n = LastPop)
    BY <1>2, PushMovesAhead DEF n
  <2>4. /\ One(s = n) \in Int /\ One(n = LastPop) \in Int
        /\ One(Between(LastPop, s, LastPush)) \in Int
    BY DEF One
  <2> QED
    BY <2>1, <2>2, <2>3, <2>4
<1>4. ASSUME NEW s \in Slots
      PROVE  Owed(s)' = Owed(s) + c[s]
  <2>1. Pushing' = Pushing \cup {t} /\ Popping' = Popping /\ t \notin Pushing
    BY DEF PushClaim, IndInv, TypeOK, Pushing, Popping
  <2>2. \A u \in Threads : u # t => slot'[u] = slot[u]
    BY DEF PushClaim, IndInv, TypeOK
  <2>3. PoppingAt(s)' = PoppingAt(s) /\ Filled' = Filled
    <3>1. t \notin Popping
      BY DEF PushClaim, Popping
    <3> QED
      BY <2>1, <2>2, <3>1 DEF PushClaim, PoppingAt, Popping, Filled
  <2>4. PushingAt(s)' = IF s = n THEN PushingAt(s) \cup {t} ELSE PushingAt(s)
    BY <1>2, <2>1, <2>2 DEF PushingAt, Pushing
  <2>5. t \notin PushingAt(s)
    BY <2>1 DEF PushingAt
  <2>6. Cardinality(PushingAt(s))' = Cardinality(PushingAt(s)) + c[s]
    <3>1. Cardinality(PushingAt(s) \cup {t}) = Cardinality(PushingAt(s)) + 1
      BY <2>5, OperationsAt, FS_AddElement
    <3> QED
      BY <2>4, <3>1, OperationsAt DEF One
  <2> QED
    BY <2>3, <2>6, OperationsAt DEF Owed, One
<1>5. c \in [Slots -> Int] /\ -One(n = LastPop) \in Int /\ DealtInTurn
  BY DEF One, IndInv
<1> HIDE DEF c
<1> QED
  BY <1>3, <1>4, <1>5, TurnKept

LEMMA PopClaimKeepsTurn ==
  ASSUME IndInv, NEW t \in Threads, PopClaim(t)
  PROVE  DealtInTurn'
<1> DEFINE n == NextSlot(LastPop)
           c == [s \in Slots |-> -One(s = n)]
<1>1. pushId \in 0 .. (Words - 1) /\ popId \in 0 .. (Words - 1)
  BY DEF IndInv, TypeOK
<1>2. /\ LastPop \in Slots /\ n \in Slots /\ LastPop' = n
      /\ LastPush \in Slots /\ LastPush' = LastPush
      /\ slot'[t] = n
  <2>1. slot'[t] = PopSlot(popId)
    BY DEF PopClaim, IndInv, TypeOK
  <2> QED
    BY <1>1, <2>1, TicketSlots DEF PopClaim, LastPush, LastPop
<1> HIDE DEF n
<1>3. ASSUME NEW s \in Slots
      PROVE  Ahead(s)' = Ahead(s) + c[s] + One(LastPop = LastPush)
  <2>1. Ahead(s) = One(Between(LastPop, s, LastPush))
    BY AheadBetween
  <2>2. Ahead(s)' = One(Between(n, s, LastPush))
    BY <1>2 DEF Ahead, IsAhead, One, Between
  <2>3. One(Between(n, s, LastPush)) =
          One(Between(LastPop, s, LastPush)) - One(s = n) + One(LastPop = LastPush)
    BY <1>2, PopMovesAhead DEF n
  <2>4. /\ One(s = n) \in Int /\ One(LastPop = LastPush) \in Int
        /\ One(Between(LastPop, s, LastPush)) \in Int
    BY DEF One
  <2> QED
    BY <2>1, <2>2, <2>3, <2>4
<1>4. ASSUME NEW s \in Slots
      PROVE  Owed(s)' = Owed(s) + c[s]
  <2>1. Popping' = Popping \cup {t} /\ Pushing' = Pushing /\ t \notin Popping
    BY DEF PopClaim, IndInv, TypeOK, Pushing, Popping
  <2>2. \A u \in Threads : u # t => slot'[u] = slot[u]
    BY DEF PopClaim, IndInv, TypeOK
  <2>3. PushingAt(s)' = PushingAt(s) /\ Filled' = Filled
    <3>1. t \notin Pushing
      BY DEF PopClaim, Pushing
    <3> QED
      BY <2>1, <2>2, <3>1 DEF PopClaim, PushingAt, Pushing, Filled
  <2>4. PoppingAt(s)' = IF s = n THEN PoppingAt(s) \cup {t} ELSE PoppingAt(s)
    BY <1>2, <2>1, <2>2 DEF PoppingAt, Popping
  <2>5. t \notin PoppingAt(s)
    BY <2>1 DEF PoppingAt
  <2>6. Cardinality(PoppingAt(s))' = Cardinality(PoppingAt(s)) - c[s]
    <3>1. Cardinality(PoppingAt(s) \cup {t}) = Cardinality(PoppingAt(s)) + 1
      BY <2>5, OperationsAt, FS_AddElement
    <3> QED
      BY <2>4, <3>1, OperationsAt DEF One
  <2> QED
    BY <2>3, <2>6, OperationsAt DEF Owed, One
<1>5. c \in [Slots -> Int] /\ One(LastPop = LastPush) \in Int /\ DealtInTurn
  BY DEF One, IndInv
<1> HIDE DEF c
<1> QED
  BY <1>3, <1>4, <1>5, TurnKept

(* A step that leaves the tickets and what each slot is owed alone.        *)
LEMMA SameTurn ==
  ASSUME DealtInTurn, UNCHANGED <<pushId, popId>>,
         \A s \in Slots : Owed(s)' = Owed(s)
  PROVE  DealtInTurn'
BY DEF DealtInTurn, Ahead, IsAhead, LastPush, LastPop, Slots

LEMMA PushStoreKeepsTurn ==
  ASSUME IndInv, NEW t \in Threads, PushStore(t)
  PROVE  DealtInTurn'
<1>1. /\ slot[t] \in Slots /\ buffer[slot[t]] = Dummy /\ arg[t] # Dummy
      /\ t \in Pushing
  BY DEF IndInv, TypeOK, PushStore, Free, Pushing
<1>2. /\ slot[t] \notin Filled
      /\ \A s \in Slots : s \in Filled' <=> s \in Filled \/ s = slot[t]
  BY <1>1 DEF PushStore, IndInv, TypeOK, Filled
<1>3. Pushing' = Pushing \ {t} /\ Popping' = Popping /\ slot' = slot
  BY <1>1 DEF PushStore, IndInv, TypeOK, Pushing, Popping
<1>4. ASSUME NEW s \in Slots
      PROVE  Owed(s)' = Owed(s)
  <2>1. PoppingAt(s)' = PoppingAt(s)
    BY <1>3 DEF PoppingAt
  <2>2. PushingAt(s)' = IF s = slot[t] THEN PushingAt(s) \ {t} ELSE PushingAt(s)
    BY <1>1, <1>3 DEF PushingAt
  <2>3. CASE s = slot[t]
    <3>1. t \in PushingAt(s)
      BY <1>1, <2>3 DEF PushingAt
    <3>2. Cardinality(PushingAt(s))' = Cardinality(PushingAt(s)) - 1
      BY <2>2, <2>3, <3>1, OperationsAt, FS_RemoveElement, ZenonT(60)
    <3> QED
      BY <1>2, <2>1, <2>3, <3>2, OperationsAt DEF Owed
  <2>4. CASE s # slot[t]
    BY <1>2, <2>1, <2>2, <2>4 DEF Owed
  <2> QED
    BY <2>3, <2>4
<1> QED
  BY <1>4, SameTurn DEF PushStore, IndInv

LEMMA PopTakeKeepsTurn ==
  ASSUME IndInv, NEW t \in Threads, PopTake(t)
  PROVE  DealtInTurn'
<1>1. slot[t] \in Slots /\ buffer[slot[t]] # Dummy /\ t \in Popping
  BY DEF IndInv, TypeOK, PopTake, Ready, Popping
<1>2. /\ slot[t] \in Filled
      /\ \A s \in Slots : s \in Filled' <=> s \in Filled /\ s # slot[t]
  BY <1>1 DEF PopTake, LeftInSlot, IndInv, TypeOK, Filled
<1>3. Popping' = Popping \ {t} /\ Pushing' = Pushing /\ slot' = slot
  BY <1>1 DEF PopTake, IndInv, TypeOK, Pushing, Popping
<1>4. ASSUME NEW s \in Slots
      PROVE  Owed(s)' = Owed(s)
  <2>1. PushingAt(s)' = PushingAt(s)
    BY <1>3 DEF PushingAt
  <2>2. PoppingAt(s)' = IF s = slot[t] THEN PoppingAt(s) \ {t} ELSE PoppingAt(s)
    BY <1>1, <1>3 DEF PoppingAt
  <2>3. CASE s = slot[t]
    <3>1. t \in PoppingAt(s)
      BY <1>1, <2>3 DEF PoppingAt
    <3>2. Cardinality(PoppingAt(s))' = Cardinality(PoppingAt(s)) - 1
      BY <2>2, <2>3, <3>1, OperationsAt, FS_RemoveElement, ZenonT(60)
    <3> QED
      BY <1>2, <2>1, <2>3, <3>2, OperationsAt DEF Owed
  <2>4. CASE s # slot[t]
    BY <1>2, <2>1, <2>2, <2>4 DEF Owed
  <2> QED
    BY <2>3, <2>4
<1> QED
  BY <1>4, SameTurn DEF PopTake, IndInv

------------------------------------------------------------------------------
(* The steps of pop that find nothing and those of size.                   *)

Quiet(t) ==
  PopMiss(t) \/ PopSee(t) \/ SizeLoadPush(t) \/ SizeLoadPop(t) \/ SizeReturn(t)

LEMMA QuietKeeps ==
  ASSUME TypeOK, NEW t \in Threads, Quiet(t)
  PROVE  /\ UNCHANGED <<pushId, popId, buffer, slot, arg, outside, overlapped>>
         /\ Pushing' = Pushing /\ Popping' = Popping /\ Filled' = Filled
BY DEF TypeOK, Quiet, PopMiss, PopSee, SizeLoadPush, SizeLoadPop, SizeLoad,
       SizeReturn, sizeVars, Pushing, Popping, Filled

LEMMA QuietKeepsTypes ==
  ASSUME TypeOK, NEW t \in Threads, Quiet(t)
  PROVE  TypeOK'
<1>1. 0 \in 0 .. (Words - 1)
  OBVIOUS
<1>2. ASSUME PopMiss(t) \/ PopSee(t) PROVE TypeOK'
  BY <1>2 DEF TypeOK, PopMiss, PopSee, sizeVars, Slots
<1>3. ASSUME SizeLoadPush(t) \/ SizeLoadPop(t) \/ SizeReturn(t) PROVE TypeOK'
  <2>1. PICK l \in 0 .. (Words - 1), place \in {"idle", "loadPop", "loadPush"} :
          /\ loaded' = [loaded EXCEPT ![t] = l]
          /\ since' = [since EXCEPT ![t] = 0]
          /\ pc' = [pc EXCEPT ![t] = place]
          /\ UNCHANGED <<pushId, popId, buffer, slot, arg, outside, overlapped>>
    BY <1>1, <1>3 DEF TypeOK, SizeLoadPush, SizeLoadPop, SizeLoad, SizeReturn
  <2> QED
    BY <1>1, <2>1 DEF TypeOK, Slots
<1> QED
  BY <1>2, <1>3 DEF Quiet

LEMMA InitIndInv == Init => IndInv
<1> SUFFICES ASSUME Init PROVE IndInv
  OBVIOUS
<1>1. TypeOK
  <2>1. 0 \in Slots /\ 0 \in 0 .. (Words - 1)
    BY DEF Slots
  <2> QED
    BY <2>1 DEF Init, TypeOK
<1>2. Pushing = {} /\ Popping = {} /\ Filled = {}
  BY DEF Init, Pushing, Popping, Filled
<1>3. \A s \in Slots : Owed(s) = 0
  <2> TAKE s \in Slots
  <2>1. PushingAt(s) = {} /\ PoppingAt(s) = {}
    BY <1>2 DEF PushingAt, PoppingAt
  <2> QED
    BY <1>2, <2>1, FS_EmptySet DEF Owed
<1>4. \A s \in Slots : Ahead(s) = 0
  <2>1. LastPop = LastPush /\ LastPush \in Slots
    BY DEF Init, LastPop, LastPush, Slots
  <2> QED
    BY <2>1 DEF Ahead, IsAhead, Slots
<1> QED
  BY <1>1, <1>2, <1>3, <1>4 DEF IndInv, DealtInTurn

LEMMA NextIndInv == IndInv /\ [Next]_vars => IndInv'
<1> SUFFICES ASSUME IndInv, [Next]_vars PROVE IndInv'
  OBVIOUS
<1> USE DEF IndInv
<1>1. ASSUME NEW t \in Threads, NEW e \in Values, PushClaim(t, e)
      PROVE  IndInv'
  <2>1. PushSlot(pushId) \in Slots /\ FetchAdd(pushId) \in 0 .. (Words - 1)
    BY TicketSlots DEF TypeOK
  <2>2. TypeOK'
    <3>1. \A u \in Threads : FetchAdd(since[u]) \in 0 .. (Words - 1)
      BY TicketSlots DEF TypeOK
    <3> QED
      BY <1>1, <2>1, <3>1 DEF TypeOK, PushClaim, CountedBy, Slots
  <2>3. (\A u \in Pushing : arg[u] \in Values)'
    BY <1>1 DEF TypeOK, PushClaim, Pushing
  <2> QED
    BY <1>1, <2>2, <2>3, PushClaimKeepsTurn
<1>2. ASSUME NEW t \in Threads, PushStore(t)
      PROVE  IndInv'
  <2>1. TypeOK'
    BY <1>2 DEF TypeOK, PushStore, sizeVars, Slots
  <2>2. (\A u \in Pushing : arg[u] \in Values)'
    BY <1>2 DEF TypeOK, PushStore, Pushing
  <2> QED
    BY <1>2, <2>1, <2>2, PushStoreKeepsTurn
<1>3. ASSUME NEW t \in Threads, PopClaim(t)
      PROVE  IndInv'
  <2>1. PopSlot(popId) \in Slots /\ FetchAdd(popId) \in 0 .. (Words - 1)
    BY TicketSlots DEF TypeOK
  <2>2. TypeOK'
    <3>1. \A u \in Threads : FetchAdd(since[u]) \in 0 .. (Words - 1)
      BY TicketSlots DEF TypeOK
    <3> QED
      BY <1>3, <2>1, <3>1 DEF TypeOK, PopClaim, CountedBy, Slots
  <2>3. (\A u \in Pushing : arg[u] \in Values)'
    BY <1>3 DEF TypeOK, PopClaim, Pushing
  <2> QED
    BY <1>3, <2>2, <2>3, PopClaimKeepsTurn
<1>4. ASSUME NEW t \in Threads, PopTake(t)
      PROVE  IndInv'
  <2>1. buffer[slot[t]] \in Values
    BY <1>4 DEF TypeOK, PopTake, Ready
  <2>2. TypeOK'
    BY <1>4, <2>1 DEF TypeOK, PopTake, LeftInSlot, sizeVars, Slots
  <2>3. (\A u \in Pushing : arg[u] \in Values)'
    BY <1>4 DEF TypeOK, PopTake, Pushing
  <2> QED
    BY <1>4, <2>2, <2>3, PopTakeKeepsTurn
<1>5. ASSUME NEW t \in Threads, Quiet(t)
      PROVE  IndInv'
  <2>1. TypeOK'
    BY <1>5, QuietKeepsTypes
  <2>2. /\ UNCHANGED <<pushId, popId, arg, slot>>
        /\ Pushing' = Pushing /\ Popping' = Popping /\ Filled' = Filled
    BY <1>5, QuietKeeps
  <2>3. (\A u \in Pushing : arg[u] \in Values)'
    BY <2>2
  <2>4. \A s \in Slots : Owed(s)' = Owed(s)
    BY <2>2, ZenonT(60) DEF Owed, PushingAt, PoppingAt
  <2> QED
    BY <2>1, <2>2, <2>3, <2>4, SameTurn
<1>6. CASE UNCHANGED vars
  <2>1. TypeOK'
    BY <1>6 DEF TypeOK, vars, Slots
  <2>2. Pushing' = Pushing /\ Popping' = Popping
    BY <1>6 DEF vars, Pushing, Popping
  <2>3. (\A u \in Pushing : arg[u] \in Values)'
    BY <1>6, <2>2 DEF vars
  <2>4. \A s \in Slots : Owed(s)' = Owed(s)
    BY <1>6, <2>2 DEF vars, Owed, PushingAt, PoppingAt, Filled, Slots
  <2> QED
    BY <1>6, <2>1, <2>3, <2>4, SameTurn DEF vars
<1> QED
  BY <1>1, <1>2, <1>3, <1>4, <1>5, <1>6 DEF Next, Continue, Quiet

LEMMA TurnsPreventMutualWait == IndInv => NoMutualWait
<1> SUFFICES ASSUME IndInv, NEW p \in Pushing, NEW q \in Popping,
                    \A t \in Pushing \cup Popping : Blocked(t)
             PROVE  FALSE
  BY DEF NoMutualWait
<1>1. Pushing \cap Popping = {} /\ slot[p] \in Slots /\ slot[q] \in Slots
  BY DEF IndInv, TypeOK, Pushing, Popping
<1>2. slot[p] \in Filled /\ \A t \in Popping : slot[t] \notin Filled
  BY <1>1 DEF Blocked
<1>3. \A t \in Pushing : slot[t] \in Filled
  BY DEF Blocked
<1>4. Owed(slot[p]) >= 2
  <2>1. PoppingAt(slot[p]) = {} /\ PushingAt(slot[p]) # {}
    BY <1>2 DEF PoppingAt, PushingAt
  <2>2. Cardinality(PoppingAt(slot[p])) = 0
        /\ Cardinality(PushingAt(slot[p])) # 0
    BY <2>1, OperationsAt, FS_EmptySet
  <2> QED
    BY <1>2, <2>2, OperationsAt DEF Owed
<1>5. Owed(slot[q]) <= -1
  <2>1. PushingAt(slot[q]) = {} /\ PoppingAt(slot[q]) # {}
    BY <1>2, <1>3 DEF PoppingAt, PushingAt
  <2>2. Cardinality(PushingAt(slot[q])) = 0
        /\ Cardinality(PoppingAt(slot[q])) # 0
    BY <2>1, OperationsAt, FS_EmptySet
  <2> QED
    BY <1>2, <2>2, OperationsAt DEF Owed
<1>6. Owed(slot[p]) - Owed(slot[q]) = Ahead(slot[p]) - Ahead(slot[q])
  BY <1>1 DEF IndInv, DealtInTurn
<1>7. Ahead(slot[p]) \in {0, 1} /\ Ahead(slot[q]) \in {0, 1}
  BY DEF Ahead
<1> QED
  BY <1>4, <1>5, <1>6, <1>7, OwedType

------------------------------------------------------------------------------
(* Size.                                                                   *)

LEMMA OperationsFinite ==
  /\ IsFiniteSet(Pushing) /\ Cardinality(Pushing) \in Nat
  /\ IsFiniteSet(Popping) /\ Cardinality(Popping) \in Nat
  /\ IsFiniteSet(Filled) /\ Cardinality(Filled) \in Nat
  /\ Cardinality(Slots) = Capacity /\ IsFiniteSet(Slots)
<1>1. Pushing \subseteq Threads /\ Popping \subseteq Threads /\ Filled \subseteq Slots
  BY DEF Pushing, Popping, Filled
<1>2. IsFiniteSet(Slots) /\ Cardinality(Slots) = Capacity
  BY FS_Interval DEF Slots
<1> QED
  BY <1>1, <1>2, FS_Subset, FS_CardinalityType

LEMMA UseStep ==
  ASSUME IndInv, WordsCountUse
  PROVE  /\ pushId' = FetchAdd(pushId) /\ popId' = popId /\ InUse' = InUse + 1
              => WordsCountUse'
         /\ pushId' = pushId /\ popId' = FetchAdd(popId) /\ InUse' = InUse - 1
              => WordsCountUse'
         /\ pushId' = pushId /\ popId' = popId /\ InUse' = InUse
              => WordsCountUse'
<1>1. /\ pushId \in Int /\ popId \in Int /\ InUse \in Int /\ Words \in Nat \ {0}
      /\ pushId \in 0 .. (Words - 1) /\ popId \in 0 .. (Words - 1)
  BY OperationsFinite DEF IndInv, TypeOK, InUse
<1>2. (pushId - popId) % Words = InUse % Words
  BY DEF WordsCountUse
<1>3. ASSUME NEW id \in 0 .. (Words - 1)
      PROVE  FetchAdd(id) = id + 1 \/ FetchAdd(id) = id + 1 - Words
  <2>1. id \in Int /\ id % Words = id
    BY <1>1
  <2>2. FetchAdd(id) = IF id = Words - 1 THEN 0 ELSE id + 1
    BY <1>1, <2>1, ModSucc DEF FetchAdd
  <2> QED
    BY <1>1, <2>2
<1>4. WordsCountUse' <=> (pushId' - popId') % Words = InUse' % Words
  BY DEF WordsCountUse
<1>5. ASSUME pushId' = FetchAdd(pushId), popId' = popId, InUse' = InUse + 1
      PROVE  WordsCountUse'
  <2> DEFINE a == pushId - popId
  <2>1. a \in Int /\ a + 1 \in Int
    BY <1>1
  <2>2. (a + 1) % Words = (InUse + 1) % Words
    BY <1>1, <1>2, <2>1, ModSuccIff
  <2>3. pushId' - popId' = a + 1 \/ pushId' - popId' = (a + 1) - Words
    BY <1>1, <1>3, <1>5
  <2>4. (pushId' - popId') % Words = (a + 1) % Words
    BY <1>1, <2>1, <2>3, ModSame
  <2> QED
    BY <1>4, <1>5, <2>2, <2>4
<1>6. ASSUME pushId' = pushId, popId' = FetchAdd(popId), InUse' = InUse - 1
      PROVE  WordsCountUse'
  <2> DEFINE a == pushId - popId - 1
  <2>1. a \in Int /\ InUse - 1 \in Int /\ a + 1 = pushId - popId
        /\ (InUse - 1) + 1 = InUse
    BY <1>1
  <2>2. a % Words = (InUse - 1) % Words
    <3> DEFINE b == InUse - 1
    <3>1. a \in Int /\ b \in Int /\ a + 1 = pushId - popId /\ b + 1 = InUse
      BY <1>1
    <3> HIDE DEF a, b
    <3>2. a % Words = b % Words <=> (a + 1) % Words = (b + 1) % Words
      BY <1>1, <3>1, ModSuccIff
    <3>3. a % Words = b % Words
      BY <1>2, <3>1, <3>2
    <3> QED
      BY <3>3 DEF b
  <2>3. pushId' - popId' = a \/ pushId' - popId' = a + Words
    BY <1>1, <1>3, <1>6
  <2>4. (pushId' - popId') % Words = a % Words
    BY <1>1, <2>1, <2>3, ModSame
  <2> QED
    BY <1>4, <1>6, <2>2, <2>4
<1>7. pushId' = pushId /\ popId' = popId /\ InUse' = InUse => WordsCountUse'
  BY <1>2, <1>4
<1> QED
  BY <1>5, <1>6, <1>7

LEMMA NextUse ==
  ASSUME IndInv, WordsCountUse, [Next]_vars
  PROVE  WordsCountUse'
<1> USE DEF IndInv, TypeOK
<1>0. /\ Cardinality(Pushing) \in Int /\ Cardinality(Popping) \in Int
      /\ Cardinality(Filled) \in Int
  BY OperationsFinite
<1>1. ASSUME NEW t \in Threads, NEW e \in Values, PushClaim(t, e)
      PROVE  WordsCountUse'
  <2>1. Pushing' = Pushing \cup {t} /\ t \notin Pushing /\ Popping' = Popping
    BY <1>1 DEF PushClaim, Pushing, Popping
  <2>2. Filled' = Filled /\ pushId' = FetchAdd(pushId) /\ popId' = popId
    BY <1>1 DEF PushClaim, Filled
  <2>3. Cardinality(Pushing') = Cardinality(Pushing) + 1
    BY <2>1, OperationsFinite, FS_AddElement
  <2>4. InUse' = InUse + 1
    BY <1>0, <2>1, <2>2, <2>3 DEF InUse
  <2> QED
    BY <2>2, <2>4, UseStep
<1>2. ASSUME NEW t \in Threads, PushStore(t)
      PROVE  WordsCountUse'
  <2>1. Pushing' = Pushing \ {t} /\ t \in Pushing /\ Popping' = Popping
    BY <1>2 DEF PushStore, Pushing, Popping
  <2>2. /\ slot[t] \notin Filled /\ UNCHANGED <<pushId, popId>>
        /\ Filled' = Filled \cup {slot[t]}
    BY <1>2, <2>1 DEF PushStore, Free, Filled
  <2>3. Cardinality(Pushing') = Cardinality(Pushing) - 1
    BY <2>1, OperationsFinite, FS_RemoveElement
  <2>4. Cardinality(Filled') = Cardinality(Filled) + 1
    BY <2>2, OperationsFinite, FS_AddElement
  <2>5. InUse' = InUse
    BY <1>0, <2>1, <2>3, <2>4 DEF InUse
  <2> QED
    BY <2>2, <2>5, UseStep
<1>3. ASSUME NEW t \in Threads, PopClaim(t)
      PROVE  WordsCountUse'
  <2>1. Popping' = Popping \cup {t} /\ t \notin Popping /\ Pushing' = Pushing
    BY <1>3 DEF PopClaim, Pushing, Popping
  <2>2. Filled' = Filled /\ popId' = FetchAdd(popId) /\ pushId' = pushId
    BY <1>3 DEF PopClaim, Filled
  <2>3. Cardinality(Popping') = Cardinality(Popping) + 1
    BY <2>1, OperationsFinite, FS_AddElement
  <2>4. InUse' = InUse - 1
    BY <1>0, <2>1, <2>2, <2>3 DEF InUse
  <2> QED
    BY <2>2, <2>4, UseStep
<1>4. ASSUME NEW t \in Threads, PopTake(t)
      PROVE  WordsCountUse'
  <2>1. Popping' = Popping \ {t} /\ t \in Popping /\ Pushing' = Pushing
    BY <1>4 DEF PopTake, Pushing, Popping
  <2>2. /\ slot[t] \in Filled /\ UNCHANGED <<pushId, popId>>
        /\ Filled' = Filled \ {slot[t]}
    BY <1>4, <2>1 DEF PopTake, Ready, LeftInSlot, Filled
  <2>3. Cardinality(Popping') = Cardinality(Popping) - 1
    BY <2>1, OperationsFinite, FS_RemoveElement
  <2>4. Cardinality(Filled') = Cardinality(Filled) - 1
    BY <2>2, OperationsFinite, FS_RemoveElement
  <2>5. InUse' = InUse
    BY <1>0, <2>1, <2>3, <2>4 DEF InUse
  <2> QED
    BY <2>2, <2>5, UseStep
<1>5. ASSUME NEW t \in Threads, Quiet(t)
      PROVE  WordsCountUse'
  <2>1. /\ Pushing' = Pushing /\ Popping' = Popping /\ Filled' = Filled
        /\ UNCHANGED <<pushId, popId>>
    BY <1>5, QuietKeeps
  <2> QED
    BY <2>1, UseStep DEF InUse
<1>6. CASE UNCHANGED vars
  <2>1. /\ Pushing' = Pushing /\ Popping' = Popping /\ Filled' = Filled
        /\ UNCHANGED <<pushId, popId>>
    BY <1>6 DEF vars, Pushing, Popping, Filled
  <2> QED
    BY <2>1, UseStep DEF InUse
<1> QED
  BY <1>1, <1>2, <1>3, <1>4, <1>5, <1>6 DEF Next, Continue, Quiet

LEMMA InitUse == Init => WordsCountUse
<1> SUFFICES ASSUME Init PROVE WordsCountUse
  OBVIOUS
<1>1. Pushing = {} /\ Popping = {} /\ Filled = {}
  BY DEF Init, Pushing, Popping, Filled
<1>2. InUse = 0 /\ pushId - popId = 0
  BY <1>1, FS_EmptySet DEF InUse, Init
<1> QED
  BY <1>2 DEF WordsCountUse

(* What a call of size has loaded, and the tickets drawn since.            *)

LEMMA InitLoaded == Init => LoadedIsBehind
BY DEF Init, LoadedIsBehind

LEMMA NextLoaded ==
  ASSUME IndInv, LoadedIsBehind, [Next]_vars
  PROVE  LoadedIsBehind'
<1> USE DEF IndInv, TypeOK
<1>1. ASSUME NEW t \in Threads, NEW e \in Values, PushClaim(t, e)
      PROVE  LoadedIsBehind'
  <2>1. \A u \in Threads : pc'[u] = "loadPop" =>
          (loaded'[u] + since'[u]) % Words = pushId'
    <3> SUFFICES ASSUME NEW u \in Threads, pc'[u] = "loadPop"
                 PROVE  (loaded'[u] + since'[u]) % Words = pushId'
      OBVIOUS
    <3>1. /\ pc[u] = "loadPop" /\ loaded'[u] = loaded[u]
          /\ since'[u] = FetchAdd(since[u]) /\ pushId' = FetchAdd(pushId)
      BY <1>1 DEF PushClaim, CountedBy
    <3>2. loaded[u] \in Int /\ since[u] \in Int
      OBVIOUS
    <3>3. (loaded[u] + since[u]) % Words = pushId
      BY <3>1 DEF LoadedIsBehind
    <3> QED
      BY <3>1, <3>2, <3>3, OneMoreSince
  <2>2. \A u \in Threads : pc'[u] = "loadPush" =>
          /\ pc[u] = "loadPush" /\ loaded'[u] = loaded[u]
          /\ since'[u] = since[u] /\ popId' = popId
    BY <1>1 DEF PushClaim, CountedBy
  <2> QED
    BY <2>1, <2>2 DEF LoadedIsBehind
<1>2. ASSUME NEW t \in Threads, PopClaim(t)
      PROVE  LoadedIsBehind'
  <2>1. \A u \in Threads : pc'[u] = "loadPush" =>
          (loaded'[u] + since'[u]) % Words = popId'
    <3> SUFFICES ASSUME NEW u \in Threads, pc'[u] = "loadPush"
                 PROVE  (loaded'[u] + since'[u]) % Words = popId'
      OBVIOUS
    <3>1. /\ pc[u] = "loadPush" /\ loaded'[u] = loaded[u]
          /\ since'[u] = FetchAdd(since[u]) /\ popId' = FetchAdd(popId)
      BY <1>2 DEF PopClaim, CountedBy
    <3>2. loaded[u] \in Int /\ since[u] \in Int
      OBVIOUS
    <3>3. (loaded[u] + since[u]) % Words = popId
      BY <3>1 DEF LoadedIsBehind
    <3> QED
      BY <3>1, <3>2, <3>3, OneMoreSince
  <2>2. \A u \in Threads : pc'[u] = "loadPop" =>
          /\ pc[u] = "loadPop" /\ loaded'[u] = loaded[u]
          /\ since'[u] = since[u] /\ pushId' = pushId
    BY <1>2 DEF PopClaim, CountedBy
  <2> QED
    BY <2>1, <2>2 DEF LoadedIsBehind
<1>3. ASSUME NEW t \in Threads, SizeLoadPush(t) \/ SizeLoadPop(t)
      PROVE  LoadedIsBehind'
  <2>1. pushId % Words = pushId /\ popId % Words = popId
    OBVIOUS
  <2>2. \A u \in Threads : u # t =>
          pc'[u] = pc[u] /\ loaded'[u] = loaded[u] /\ since'[u] = since[u]
    BY <1>3 DEF SizeLoadPush, SizeLoadPop, SizeLoad
  <2>3. /\ since'[t] = 0 /\ loaded'[t] \in Int
        /\ pc'[t] = "loadPop" => loaded'[t] = pushId
        /\ pc'[t] = "loadPush" => loaded'[t] = popId
        /\ UNCHANGED <<pushId, popId>>
    BY <1>3 DEF SizeLoadPush, SizeLoadPop, SizeLoad
  <2>4. loaded'[t] + since'[t] = loaded'[t]
    BY <2>3
  <2> QED
    BY <2>1, <2>2, <2>3, <2>4 DEF LoadedIsBehind
<1>4. ASSUME NEW t \in Threads,
             PushStore(t) \/ PopTake(t) \/ PopMiss(t) \/ PopSee(t) \/ SizeReturn(t)
      PROVE  LoadedIsBehind'
  <2>1. /\ UNCHANGED <<pushId, popId>>
        /\ pc'[t] \notin {"loadPop", "loadPush"}
        /\ \A u \in Threads : u # t =>
             pc'[u] = pc[u] /\ loaded'[u] = loaded[u] /\ since'[u] = since[u]
    BY <1>4 DEF PushStore, PopTake, PopMiss, PopSee, SizeReturn, sizeVars
  <2> QED
    BY <2>1 DEF LoadedIsBehind
<1>5. CASE UNCHANGED vars
  BY <1>5 DEF vars, LoadedIsBehind
<1> QED
  BY <1>1, <1>2, <1>3, <1>4, <1>5 DEF Next, Continue

LEMMA SizeWhenReturned ==
  ASSUME IndInv, SizeInv, NEW t \in Threads, SizeReturn(t)
  PROVE  Size(t) = IF pc[t] = "loadPop" THEN (InUse - since[t]) % Words
                                        ELSE (InUse + since[t]) % Words
<1>1. /\ pushId \in Int /\ popId \in Int /\ InUse \in Int
      /\ loaded[t] \in Int /\ since[t] \in Int
  BY OperationsFinite DEF IndInv, TypeOK, InUse
<1>2. IsDifference(Words, pushId, popId, InUse) /\ Words \in Nat \ {0}
  BY DEF SizeInv, WordsCountUse, IsDifference
<1>3. CASE pc[t] = "loadPop"
  <2>1. IsBehind(Words, loaded[t], since[t], pushId)
    BY <1>3 DEF SizeInv, LoadedIsBehind, IsBehind
  <2>2. IsDifference(Words, loaded[t], popId, InUse - since[t])
    BY <1>1, <1>2, <2>1, PushLoadedFirst, Zenon
  <2> QED
    BY <1>3, <2>2 DEF Size, Difference, IsDifference
<1>4. CASE pc[t] # "loadPop"
  <2>1. IsBehind(Words, loaded[t], since[t], popId)
    BY <1>4 DEF SizeInv, LoadedIsBehind, SizeReturn, IsBehind
  <2>2. IsDifference(Words, pushId, loaded[t], InUse + since[t])
    BY <1>1, <1>2, <2>1, PopLoadedFirst, Zenon
  <2> QED
    BY <1>4, <2>2 DEF Size, Difference, IsDifference
<1> QED
  BY <1>3, <1>4

------------------------------------------------------------------------------
(* The pool of elements.                                                   *)

LEMMA NextElements ==
  ASSUME IndInv, ElementsApart, [Next]_vars
  PROVE  ElementsApart'
<1> USE DEF IndInv, TypeOK, ElementsApart, Pushing, Filled
<1>1. ASSUME NEW t \in Threads, NEW e \in Values, PushClaim(t, e)
      PROVE  ElementsApart'
  BY <1>1 DEF PushClaim
<1>2. ASSUME NEW t \in Threads, PushStore(t)
      PROVE  ElementsApart'
  BY <1>2 DEF PushStore, Free
<1>3. ASSUME NEW t \in Threads, PopClaim(t)
      PROVE  ElementsApart'
  BY <1>3 DEF PopClaim
<1>4. ASSUME NEW t \in Threads, PopTake(t)
      PROVE  ElementsApart'
  BY <1>4 DEF PopTake, Ready, LeftInSlot
<1>5. ASSUME NEW t \in Threads, Quiet(t)
      PROVE  ElementsApart'
  BY <1>5, QuietKeeps
<1>6. CASE UNCHANGED vars
  BY <1>6 DEF vars
<1> QED
  BY <1>1, <1>2, <1>3, <1>4, <1>5, <1>6 DEF Next, Continue, Quiet

(* What two slots are owed never differs by more than the tickets explain. *)
THEOREM InductiveInvariant == Spec => []IndInv
BY InitIndInv, NextIndInv, PTL DEF Spec

(* A push that waits for room and a pop that waits for an element are      *)
(* never left to wait for each other: whenever both are under way, some    *)
(* thread finds its slot in the state it waits for.                        *)
THEOREM NeverWaitForEachOther == Spec => []NoMutualWait
BY InductiveInvariant, TurnsPreventMutualWait, PTL

(* size is off by the tickets drawn between its two loads, and by nothing  *)
(* else: for any number of threads that call it, beside any pushes and     *)
(* pops, and also where the tickets wrap around.                           *)
THEOREM SizeOffByTickets == Spec => SizeOffByTicketsBetween
<1>1. Spec => []SizeInv
  BY InductiveInvariant, InitUse, InitLoaded, NextUse, NextLoaded, PTL DEF Spec, SizeInv
<1>2. IndInv /\ SizeInv =>
        \A t \in Threads : SizeReturn(t) =>
          Size(t) = IF pc[t] = "loadPop" THEN (InUse - since[t]) % Words
                                         ELSE (InUse + since[t]) % Words
  BY SizeWhenReturned
<1> QED
  BY <1>1, <1>2, InductiveInvariant, PTL DEF SizeOffByTicketsBetween

(* No two places hold the same element.                                    *)
THEOREM ElementsStayApart == Spec => []ElementsApart
<1>1. Init => ElementsApart
  BY DEF Init, ElementsApart, Pushing, Filled
<1> QED
  BY <1>1, InductiveInvariant, NextElements, PTL DEF Spec

(* There is room in the pool as long as there is a free slot.              *)
Elements == {buffer[s] : s \in Filled}

LEMMA RoomInPool ==
  ASSUME NEW s \in Slots, s \notin Filled
  PROVE  Pool!Cardinality(Elements) < Capacity
<1> DEFINE f == [r \in Filled |-> buffer[r]]
<1>1. f \in Surjection(Filled, Elements)
  BY DEF Surjection, Elements
<1>2. IsFiniteSet(Elements) /\ Cardinality(Elements) <= Cardinality(Filled)
  BY <1>1, OperationsFinite, FS_Surjection
<1>3. Filled \in SUBSET Slots
  BY DEF Filled
<1>4. Cardinality(Filled) <= Capacity /\ Cardinality(Filled) # Capacity
  BY <1>3, OperationsFinite, FS_Subset
<1>5. Pool!Cardinality(Elements) = Cardinality(Elements)
  BY DEF Pool!Cardinality, Cardinality
<1> QED
  BY <1>2, <1>4, <1>5, OperationsFinite, FS_CardinalityType

LEMMA StepImplementsPool ==
  ASSUME IndInv, ElementsApart, [Next]_vars
  PROVE  [Pool!Next]_(Pool!vars)
<1> DEFINE op == [t \in Threads |-> IF t \in Popping THEN "pop"
                                   ELSE IF t \in Pushing THEN "push" ELSE "idle"]
<1> USE DEF IndInv, TypeOK
<1>1. ASSUME NEW t \in Threads, NEW e \in Values, PushClaim(t, e)
      PROVE  Pool!CallPush(t, e)
  <2>1. op[t] = "idle" /\ op' = [op EXCEPT ![t] = "push"]
    BY <1>1 DEF PushClaim, Popping, Pushing
  <2>2. Elements' = Elements
    BY <1>1 DEF PushClaim, Elements, Filled
  <2> QED
    BY <1>1, <2>1, <2>2 DEF Pool!CallPush, PushClaim, Elements
<1>2. ASSUME NEW t \in Threads, PushStore(t)
      PROVE  Pool!Insert(t)
  <2>1. op[t] = "push" /\ op' = [op EXCEPT ![t] = "idle"]
    BY <1>2 DEF PushStore, Popping, Pushing
  <2>2. /\ slot[t] \in Slots /\ slot[t] \notin Filled /\ arg[t] # Dummy
        /\ buffer' = [buffer EXCEPT ![slot[t]] = arg[t]]
    BY <1>2 DEF PushStore, Free, Filled, Pushing
  <2>3. Filled' = Filled \cup {slot[t]}
    BY <2>2 DEF Filled
  <2>4. Elements' = Elements \cup {arg[t]}
    <3>1. \A s \in Filled : buffer'[s] = buffer[s]
      BY <2>2 DEF Filled
    <3>2. buffer'[slot[t]] = arg[t]
      BY <2>2
    <3> QED
      BY <2>3, <3>1, <3>2 DEF Elements
  <2>5. Pool!Cardinality(Elements) < Capacity
    BY <2>2, RoomInPool
  <2> QED
    BY <1>2, <2>1, <2>4, <2>5 DEF Pool!Insert, PushStore, Elements
<1>3. ASSUME NEW t \in Threads, PopClaim(t)
      PROVE  Pool!CallPop(t)
  <2>1. op[t] = "idle" /\ op' = [op EXCEPT ![t] = "pop"]
    BY <1>3 DEF PopClaim, Popping, Pushing
  <2>2. Elements' = Elements
    BY <1>3 DEF PopClaim, Elements, Filled
  <2> QED
    BY <1>3, <2>1, <2>2 DEF Pool!CallPop, PopClaim, Elements
<1>4. ASSUME NEW t \in Threads, PopTake(t)
      PROVE  \E v \in Values : Pool!Take(t, v)
  <2> SUFFICES ASSUME NEW v \in Values, v = buffer[slot[t]]
               PROVE  Pool!Take(t, v)
    BY <1>4 DEF PopTake, Ready
  <2>1. op[t] = "pop" /\ op' = [op EXCEPT ![t] = "idle"]
    BY <1>4 DEF PopTake, Popping, Pushing
  <2>2. /\ slot[t] \in Filled
        /\ buffer' = [buffer EXCEPT ![slot[t]] = Dummy]
    BY <1>4 DEF PopTake, Ready, LeftInSlot, Filled
  <2>3. /\ Filled' = Filled \ {slot[t]}
        /\ \A s \in Filled' : buffer'[s] = buffer[s]
    BY <2>2 DEF Filled
  <2>4. \A s \in Filled \ {slot[t]} : buffer[s] # v
    BY <2>2 DEF ElementsApart
  <2>5. Elements' = Elements \ {v}
    BY <2>2, <2>3, <2>4 DEF Elements
  <2>6. v \in Elements
    BY <2>2 DEF Elements
  <2> QED
    BY <1>4, <2>1, <2>2, <2>5, <2>6 DEF Pool!Take, PopTake, Elements
<1>5. ASSUME NEW t \in Threads, Quiet(t)
      PROVE  UNCHANGED Pool!vars
  <2>1. /\ UNCHANGED <<buffer, arg, outside>>
        /\ Pushing' = Pushing /\ Popping' = Popping /\ Filled' = Filled
    BY <1>5, QuietKeeps
  <2>2. op' = op /\ Elements' = Elements
    BY <2>1 DEF Elements
  <2> QED
    BY <2>1, <2>2 DEF Elements, Pool!vars
<1>6. ASSUME UNCHANGED vars
      PROVE  UNCHANGED Pool!vars
  BY <1>6 DEF vars, Pool!vars, Popping, Pushing, Filled
<1>7. ASSUME NEW t \in Threads, NEW e \in Values, PushClaim(t, e)
      PROVE  Pool!Next
  BY <1>1, <1>7 DEF Pool!Next
<1>8. ASSUME NEW t \in Threads, PopClaim(t)
      PROVE  Pool!Next
  BY <1>3, <1>8 DEF Pool!Next
<1>9. ASSUME NEW t \in Threads, Continue(t)
      PROVE  [Pool!Next]_(Pool!vars)
  <2>1. CASE PushStore(t)
    BY <1>2, <2>1 DEF Pool!Next
  <2>2. CASE PopTake(t)
    BY <1>4, <2>2 DEF Pool!Next
  <2>3. CASE Quiet(t)
    BY <1>5, <2>3
  <2> QED
    BY <1>9, <2>1, <2>2, <2>3 DEF Continue, Quiet
<1> QED
  BY <1>5, <1>6, <1>7, <1>8, <1>9 DEF Next, Quiet

(* The buffer is a pool of at most Capacity elements: none is lost,        *)
(* overwritten or handed out twice, however pushes and pops overlap.       *)
THEOREM BufferIsPool == Spec => ImplementsPool
<1>1. Init => Pool!Init
  BY DEF Init, Pool!Init, Filled, Popping, Pushing
<1> QED
  BY <1>1, InductiveInvariant, ElementsStayApart, StepImplementsPool, PTL
     DEF Spec, ImplementsPool, Pool!Spec

------------------------------------------------------------------------------
(* Without overlaps: a queue.                                              *)

(* Words wrap where slots do.                                              *)
LEMMA ModOfWord ==
  ASSUME NEW a \in Int
  PROVE  (a % Words) % Capacity = a % Capacity
<1>1. Words \in Nat \ {0} /\ Capacity \in Nat \ {0}
  OBVIOUS
<1>2. PICK k \in Int : Words = Capacity * k
  <2>1. PICK k \in Int : Words = Capacity * k + (Words % Capacity)
    <3>1. Words \in Int
      OBVIOUS
    <3> QED
      BY <1>1, <3>1, ModIs, Zenon
  <2> QED
    BY <2>1
<1> DEFINE w == a % Words
           r == w % Capacity
<1>3. PICK q \in Int : a = Words * q + w
  BY <1>1, ModIs, Zenon
<1>4. w \in Int
  BY <1>1
<1>5. PICK p \in Int : r \in 0 .. (Capacity - 1) /\ w = Capacity * p + r
  <2> HIDE DEF w
  <2> QED
    BY <1>1, <1>4, ModIs, Zenon
<1> HIDE DEF w, r
<1>6. a = Capacity * (k * q + p) + r /\ k * q + p \in Int
  <2>1. Words * q = Capacity * (k * q) /\ k * q \in Int
    BY <1>1, <1>2
  <2>2. Capacity * (k * q + p) = Capacity * (k * q) + Capacity * p
    BY <1>1, <2>1
  <2>3. r \in Int /\ Capacity * p \in Int /\ Capacity * (k * q) \in Int
    BY <1>1, <1>5, <2>1
  <2> QED
    BY <1>3, <1>5, <1>4, <2>1, <2>2, <2>3
<1>7. a % Capacity = r
  BY <1>1, <1>5, <1>6, ModUnique
<1> QED
  BY <1>7 DEF r, w

LEMMA WordDifference ==
  ASSUME NEW q \in 0 .. (Words - 1), NEW n \in 0 .. Capacity
  PROVE  (((q + n) % Words) - q) % Words = n
<1>1. Words \in Nat \ {0} /\ q + n \in Int /\ -q \in Int /\ (q + n) % Words \in Int
  BY ModIs
<1>2. (((q + n) % Words) + (-q)) % Words = ((q + n) + (-q)) % Words
  BY <1>1, ModSum
<1>3. (q + n) + (-q) = n /\ ((q + n) % Words) + (-q) = ((q + n) % Words) - q
  BY <1>1
<1>4. n % Words = n
  <2>1. n = Words * 0 + n /\ n \in 0 .. (Words - 1) /\ n \in Int
    BY <1>1
  <2> QED
    BY <1>1, <2>1, ModUnique
<1> QED
  BY <1>2, <1>3, <1>4

LEMMA WordSlot ==
  ASSUME NEW x \in Int, NEW i \in Int
  PROVE  ((x % Words) + i) % Capacity = (x + i) % Capacity
<1>1. Words \in Nat \ {0} /\ Capacity \in Nat \ {0} /\ x % Words \in Int
  BY ModIs
<1>2. (((x % Words) % Capacity) + i) % Capacity = ((x % Words) + i) % Capacity
  BY <1>1, ModSum
<1>3. ((x % Capacity) + i) % Capacity = (x + i) % Capacity
  BY <1>1, ModSum
<1> QED
  BY <1>2, <1>3, ModOfWord

(* One operation under way, or none: the tickets that are done with.       *)
LEMMA DoneIs ==
  ASSUME NEW id \in 0 .. (Words - 1), NEW t
  PROVE  /\ Done(id, {}) = id
         /\ Done(FetchAdd(id), {t}) = id
         /\ (Done(id, {t}) + 1) % Words = id
         /\ FetchAdd(id) % Capacity = (id + 1) % Capacity
<1>1. Words \in Nat \ {0} /\ id \in Int
  OBVIOUS
<1>2. Cardinality({}) = 0 /\ Cardinality({t}) = 1
  BY FS_EmptySet, FS_Singleton, Zenon
<1>3. id % Words = id
  <2>1. id = Words * 0 + id
    BY <1>1
  <2> QED
    BY <1>1, <2>1, ModUnique
<1>4. (((id + 1) % Words) + (-1)) % Words = ((id + 1) + (-1)) % Words
  <2>1. id + 1 \in Int /\ -1 \in Int
    BY <1>1
  <2> QED
    BY <1>1, <2>1, ModSum
<1>5. (((id - 1) % Words) + 1) % Words = ((id - 1) + 1) % Words
  <2>1. id - 1 \in Int /\ 1 \in Int
    BY <1>1
  <2> QED
    BY <1>1, <2>1, ModSum, Zenon
<1>6. /\ (id + 1) + (-1) = id /\ (id - 1) + 1 = id /\ id - 0 = id
      /\ ((id + 1) % Words) + (-1) = ((id + 1) % Words) - 1
  <2>1. id + 1 \in Int /\ (id + 1) % Words \in Int
    BY <1>1
  <2> QED
    BY <1>1, <2>1
<1>7. ((id + 1) % Words) % Capacity = (id + 1) % Capacity
  <2>1. id + 1 \in Int
    BY <1>1
  <2> QED
    BY <2>1, ModOfWord, Zenon
<1> QED
  BY <1>3, <1>4, <1>5, <1>6, <1>7, <1>2 DEF Done, FetchAdd

(* The queue begins behind slot q and has n elements.                      *)
QueueAt(q, n, B) == [i \in 1 .. n |-> B[(q + i) % Capacity]]

Holds(q, n) ==
  /\ q \in 0 .. (Words - 1) /\ n \in 0 .. Capacity
  /\ Done(popId, Popping) = q /\ Done(pushId, Pushing) = (q + n) % Words
  /\ \A i \in 1 .. Capacity : buffer[(q + i) % Capacity] # Dummy <=> i <= n

(* The one push works on the slot behind the queue, the one pop on its     *)
(* first.                                                                  *)
AtTheirEnds ==
  /\ \A t, u \in Pushing : t = u
  /\ \A t, u \in Popping : t = u
  /\ \A t \in Pushing : slot[t] = pushId % Capacity
  /\ \A t \in Popping : slot[t] = popId % Capacity

FifoInv == ~overlapped => AtTheirEnds /\ \E q, n \in Nat : Holds(q, n)

LEMMA QueueIs ==
  ASSUME NEW q, NEW n
  PROVE  /\ Holds(q, n) => Queue = QueueAt(q, n, buffer)
         /\ Holds(q, n)' => Queue' = QueueAt(q, n, buffer')
<1>1. ASSUME q \in 0 .. (Words - 1), n \in 0 .. Capacity
      PROVE  (((q + n) % Words) - q) % Words = n
  BY <1>1, WordDifference
<1> QED
  BY <1>1 DEF Holds, Queue, QueueAt

LEMMA HoldsStill ==
  ASSUME NEW q \in Nat, NEW n \in Nat, Holds(q, n), buffer' = buffer,
         Done(popId, Popping)' = Done(popId, Popping),
         Done(pushId, Pushing)' = Done(pushId, Pushing)
  PROVE  (\E p, m \in Nat : Holds(p, m)') /\ IsFifoStep
<1>1. Holds(q, n)'
  BY DEF Holds
<1>2. Queue' = Queue
  BY DEF Queue
<1> QED
  BY <1>1, <1>2 DEF IsFifoStep

LEMMA SlotOf ==
  ASSUME NEW q \in Nat, NEW i \in Nat
  PROVE  /\ (q + i) % Capacity \in Slots
         /\ (q + i + Capacity) % Capacity = (q + i) % Capacity
<1>1. q + i \in Int /\ Capacity \in Nat \ {0}
  OBVIOUS
<1>2. (q + i) % Capacity \in Slots
  BY <1>1 DEF Slots
<1>3. (q + i + Capacity) % Capacity = (q + i) % Capacity
  BY <1>1, ModSame, Zenon
<1> QED
  BY <1>2, <1>3

(* An element is appended, or the first one taken.                         *)
AppendedIn(q, n, m, B, D, e) ==
  /\ m = n + 1 /\ D[(q + n + 1) % Capacity] = e
  /\ \A i \in 1 .. n : D[(q + i) % Capacity] = B[(q + i) % Capacity]

TakenIn(q, n, p, m, B, D, e) ==
  /\ n = m + 1 /\ B[(q + 1) % Capacity] = e
  /\ \A i \in 1 .. m : D[(p + i) % Capacity] = B[(q + 1 + i) % Capacity]

IsTail(d, s, e) == s # << >> /\ Head(s) = e /\ d = Tail(s)

LEMMA Appended ==
  ASSUME NEW q \in Nat, NEW n \in Nat, NEW m, NEW B, NEW D, NEW e,
         AppendedIn(q, n, m, B, D, e)
  PROVE  QueueAt(q, m, D) = Append(QueueAt(q, n, B), e)
<1>1. /\ m = n + 1 /\ D[(q + n + 1) % Capacity] = e
       /\ \A i \in 1 .. n : D[(q + i) % Capacity] = B[(q + i) % Capacity]
  BY DEF AppendedIn
<1> DEFINE T == {B[(q + i) % Capacity] : i \in 1 .. n} \cup {e}
           s == QueueAt(q, n, B)
           d == QueueAt(q, n + 1, D)
<1>2. s \in Seq(T) /\ Len(s) = n
  <2>1. s \in [1 .. n -> T]
    BY DEF QueueAt
  <2> HIDE DEF s, T
  <2> QED
    BY <2>1
<1>3. q + (n + 1) = q + n + 1
  OBVIOUS
<1>4. \A i \in 1 .. (n + 1) : d[i] = IF i <= n THEN s[i] ELSE e
  <2> TAKE i \in 1 .. (n + 1)
  <2>1. d[i] = D[(q + i) % Capacity]
    BY DEF QueueAt
  <2>2. CASE i <= n
    <3>1. i \in 1 .. n
      BY <2>2
    <3>2. s[i] = B[(q + i) % Capacity]
      BY <3>1 DEF QueueAt
    <3> QED
      BY <1>1, <2>1, <2>2, <3>1, <3>2
  <2>3. CASE i = n + 1
    <3>1. q + i = q + n + 1 /\ ~(i <= n)
      BY <2>3
    <3> QED
      BY <1>1, <2>1, <3>1
  <2> QED
    BY <2>2, <2>3
<1>5. DOMAIN d = 1 .. (n + 1) /\ d = [i \in 1 .. (n + 1) |-> d[i]]
  BY DEF QueueAt
<1> HIDE DEF s, d, T
<1>6. d \in Seq(T \cup {e}) /\ Len(d) = n + 1
  <2>1. \A i \in 1 .. (n + 1) : d[i] \in T \cup {e}
    BY <1>2, <1>4
  <2>2. d \in [1 .. (n + 1) -> T \cup {e}]
    BY <1>5, <2>1
  <2> QED
    BY <2>2
<1>7. s \in Seq(T \cup {e})
  BY <1>2
<1>8. /\ Append(s, e) \in Seq(T \cup {e}) /\ Len(Append(s, e)) = n + 1
      /\ \A i \in 1 .. n : Append(s, e)[i] = s[i]
      /\ Append(s, e)[n + 1] = e
  BY <1>2, <1>7, AppendProperties
<1>9. \A i \in 1 .. (n + 1) : d[i] = Append(s, e)[i]
  <2> TAKE i \in 1 .. (n + 1)
  <2>1. CASE i \in 1 .. n
    BY <1>4, <1>8, <2>1
  <2>2. CASE i = n + 1
    BY <1>4, <1>8, <2>2
  <2>3. i \in 1 .. n \/ i = n + 1
    OBVIOUS
  <2> QED
    BY <2>1, <2>2, <2>3
<1>10. d = Append(s, e)
  BY <1>6, <1>8, <1>9, SeqEqual
<1> QED
  BY <1>10, <1>1 DEF s, d

LEMMA Taken ==
  ASSUME NEW q \in Nat, NEW m, NEW p, NEW n \in Nat, NEW B, NEW D, NEW e,
         TakenIn(q, m, p, n, B, D, e)
  PROVE  IsTail(QueueAt(p, n, D), QueueAt(q, m, B), e)
<1>1. /\ m = n + 1 /\ B[(q + 1) % Capacity] = e
       /\ \A i \in 1 .. n : D[(p + i) % Capacity] = B[(q + 1 + i) % Capacity]
  BY DEF TakenIn
<1> DEFINE T == {B[(q + i) % Capacity] : i \in 1 .. (n + 1)}
           s == QueueAt(q, n + 1, B)
           d == QueueAt(p, n, D)
<1>2. s \in Seq(T) /\ Len(s) = n + 1
  <2>1. s \in [1 .. (n + 1) -> T]
    BY Zenon DEF QueueAt
  <2>2. n + 1 \in Nat
    OBVIOUS
  <2> HIDE DEF s, T
  <2> QED
    BY <2>1, <2>2
<1>3. s[1] = B[(q + 1) % Capacity]
  BY DEF QueueAt
<1>4. \A i \in 1 .. n : d[i] = s[i + 1]
  <2> TAKE i \in 1 .. n
  <2>1. i + 1 \in 1 .. (n + 1) /\ q + (i + 1) = q + 1 + i
    OBVIOUS
  <2>2. s[i + 1] = B[(q + (i + 1)) % Capacity]
    BY <2>1 DEF QueueAt
  <2> QED
    BY <1>1, <2>1, <2>2 DEF QueueAt
<1>5. d = [i \in 1 .. n |-> d[i]]
  BY DEF QueueAt
<1> HIDE DEF s, d, T
<1>6. s # << >> /\ Head(s) = s[1] /\ Tail(s) \in Seq(T) /\ Len(Tail(s)) = n
      /\ \A i \in 1 .. n : Tail(s)[i] = s[i + 1]
  BY <1>2, HeadTailProperties
<1>7. d \in Seq(T) /\ Len(d) = n
  <2>1. \A i \in 1 .. n : d[i] \in T
    BY <1>2, <1>4
  <2>2. d \in [1 .. n -> T]
    BY <1>5, <2>1
  <2> QED
    BY <2>2
<1>8. d = Tail(s)
  BY <1>4, <1>6, <1>7, SeqEqual
<1> QED
  BY <1>3, <1>6, <1>8, <1>1 DEF s, d, IsTail

LEMMA InitFifo == Init => FifoInv
<1> SUFFICES ASSUME Init PROVE AtTheirEnds /\ Holds(0, 0)
  BY DEF FifoInv
<1>1. Pushing = {} /\ Popping = {}
  BY DEF Init, Pushing, Popping
<1>2. Done(0, {}) = 0 /\ (0 + 0) % Words = 0
  <2>1. 0 \in 0 .. (Words - 1)
    OBVIOUS
  <2>2. Done(0, {}) = 0
    BY <2>1, DoneIs
  <2>3. 0 = Words * 0 + 0
    OBVIOUS
  <2>4. 0 % Words = 0
    OBVIOUS
  <2> QED
    BY <2>2, <2>4
<1>3. \A i \in 1 .. Capacity : buffer[(0 + i) % Capacity] = Dummy
  <2> TAKE i \in 1 .. Capacity
  <2>1. i \in Nat /\ 0 \in Nat
    OBVIOUS
  <2>2. (0 + i) % Capacity \in Slots
    BY <2>1, SlotOf, Zenon
  <2> QED
    BY <2>2 DEF Init
<1>4. AtTheirEnds
  BY <1>1 DEF AtTheirEnds
<1> QED
  BY <1>1, <1>2, <1>3, <1>4 DEF Init, Holds

LEMMA PushClaimFifo ==
  ASSUME IndInv, AtTheirEnds, NEW q \in Nat, NEW n \in Nat, Holds(q, n),
         NEW t \in Threads, NEW e \in Values, PushClaim(t, e), ~overlapped'
  PROVE  FifoInv' /\ IsFifoStep
<1> USE DEF IndInv, TypeOK
<1>1. Pushing = {} /\ Pushing' = {t} /\ Popping' = Popping /\ t \notin Popping
  BY DEF PushClaim, Pushing, Popping
<1>2. Done(pushId, Pushing)' = Done(pushId, Pushing)
  <2>1. Done(FetchAdd(pushId), {t}) = pushId /\ Done(pushId, {}) = pushId
    BY DoneIs
  <2>2. pushId' = FetchAdd(pushId)
    BY DEF PushClaim
  <2> QED
    BY <1>1, <2>1, <2>2 DEF Done
<1>3. Done(popId, Popping)' = Done(popId, Popping)
  BY <1>1 DEF PushClaim, Done
<1>4. AtTheirEnds'
  <2>1. slot'[t] = pushId' % Capacity
    BY DoneIs DEF PushClaim, PushSlot
  <2>2. \A u \in Popping : slot'[u] = slot[u] /\ popId' = popId
    BY <1>1 DEF PushClaim, Popping
  <2> QED
    BY <1>1, <2>1, <2>2 DEF AtTheirEnds
<1> QED
  BY <1>2, <1>3, <1>4, HoldsStill DEF FifoInv, PushClaim

LEMMA PopClaimFifo ==
  ASSUME IndInv, AtTheirEnds, NEW q \in Nat, NEW n \in Nat, Holds(q, n),
         NEW t \in Threads, PopClaim(t), ~overlapped'
  PROVE  FifoInv' /\ IsFifoStep
<1> USE DEF IndInv, TypeOK
<1>1. Popping = {} /\ Popping' = {t} /\ Pushing' = Pushing /\ t \notin Pushing
  BY DEF PopClaim, Pushing, Popping
<1>2. Done(popId, Popping)' = Done(popId, Popping)
  <2>1. Done(FetchAdd(popId), {t}) = popId /\ Done(popId, {}) = popId
    BY DoneIs
  <2>2. popId' = FetchAdd(popId)
    BY DEF PopClaim
  <2> QED
    BY <1>1, <2>1, <2>2 DEF Done
<1>3. Done(pushId, Pushing)' = Done(pushId, Pushing)
  BY <1>1 DEF PopClaim, Done
<1>4. AtTheirEnds'
  <2>1. slot'[t] = popId' % Capacity
    BY DoneIs DEF PopClaim, PopSlot
  <2>2. \A u \in Pushing : slot'[u] = slot[u] /\ pushId' = pushId
    BY <1>1 DEF PopClaim, Pushing
  <2> QED
    BY <1>1, <2>1, <2>2 DEF AtTheirEnds
<1> QED
  BY <1>2, <1>3, <1>4, HoldsStill DEF FifoInv, PopClaim

LEMMA PushStoreFifo ==
  ASSUME IndInv, AtTheirEnds, NEW q \in Nat, NEW n \in Nat, Holds(q, n),
         NEW t \in Threads, PushStore(t)
  PROVE  FifoInv' /\ IsFifoStep
<1> USE DEF IndInv, TypeOK
<1>1. Pushing = {t} /\ Pushing' = {} /\ Popping' = Popping
  BY DEF PushStore, Pushing, Popping, AtTheirEnds
<1>2. /\ q \in 0 .. (Words - 1) /\ n \in 0 .. Capacity
      /\ Done(popId, Popping) = q /\ Done(pushId, {t}) = (q + n) % Words
      /\ \A i \in 1 .. Capacity : buffer[(q + i) % Capacity] # Dummy <=> i <= n
  BY <1>1 DEF Holds
<1>3. /\ pc[t] = "push" /\ buffer[slot[t]] = Dummy /\ slot[t] \in Slots
      /\ buffer' = [buffer EXCEPT ![slot[t]] = arg[t]] /\ arg[t] \in Values
      /\ UNCHANGED <<pushId, popId, slot, overlapped>>
  BY <1>1 DEF PushStore, Free
<1>4. pushId = (q + n + 1) % Words
  <2>1. (Done(pushId, {t}) + 1) % Words = pushId
    BY DoneIs
  <2>2. (((q + n) % Words) + 1) % Words = ((q + n) + 1) % Words
    <3>1. q + n \in Int /\ 1 \in Int /\ Words \in Nat \ {0}
      OBVIOUS
    <3> QED
      BY <3>1, ModSum, Zenon
  <2> QED
    BY <1>2, <2>1, <2>2
<1>5. slot[t] = (q + n + 1) % Capacity
  <2>1. slot[t] = pushId % Capacity
    BY <1>1 DEF AtTheirEnds
  <2>2. q + n + 1 \in Int
    OBVIOUS
  <2>3. ((q + n + 1) % Words) % Capacity = (q + n + 1) % Capacity
    BY <2>2, ModOfWord, Zenon
  <2> QED
    BY <1>4, <2>1, <2>3
<1>6. n < Capacity
  <2> SUFFICES ASSUME n = Capacity PROVE FALSE
    BY <1>2
  <2>1. (q + 1 + Capacity) % Capacity = (q + 1) % Capacity /\ q + n + 1 = q + 1 + Capacity
    BY SlotOf
  <2>2. buffer[(q + 1) % Capacity] # Dummy
    BY <1>2
  <2> QED
    BY <1>3, <1>5, <2>1, <2>2
<1>7. \A i \in 1 .. Capacity :
        buffer'[(q + i) % Capacity] = IF i = n + 1 THEN arg[t] ELSE buffer[(q + i) % Capacity]
  <2> TAKE i \in 1 .. Capacity
  <2>1. (q + i) % Capacity \in Slots
    BY SlotOf
  <2>2. CASE i = n + 1
    <3>1. (q + i) % Capacity = slot[t]
      <4>1. q + i = q + n + 1
        BY <2>2
      <4> QED
        BY <1>5, <4>1
    <3> QED
      BY <1>3, <2>2, <3>1
  <2>3. CASE i # n + 1
    <3>1. n + 1 \in 1 .. Capacity /\ q + (n + 1) = q + n + 1 /\ q \in Int
      BY <1>2, <1>6
    <3>2. (q + i) % Capacity # (q + (n + 1)) % Capacity
      BY <2>3, <3>1, ModApart
    <3> QED
      BY <1>3, <1>5, <2>1, <2>3, <3>1, <3>2
  <2> QED
    BY <2>2, <2>3
<1>8. Holds(q, n + 1)'
  <2>1. \A i \in 1 .. Capacity : buffer'[(q + i) % Capacity] # Dummy <=> i <= n + 1
    <3> TAKE i \in 1 .. Capacity
    <3>1. buffer'[(q + i) % Capacity] = IF i = n + 1 THEN arg[t] ELSE buffer[(q + i) % Capacity]
      BY <1>7, Zenon
    <3>2. buffer[(q + i) % Capacity] # Dummy <=> i <= n
      BY <1>2, Zenon
    <3>3. arg[t] # Dummy
      BY <1>3
    <3>4. CASE i = n + 1
      BY <3>1, <3>3, <3>4
    <3>5. CASE i # n + 1
      <4>1. i <= n <=> i <= n + 1
        BY <3>5
      <4> QED
        BY <3>1, <3>2, <3>5, <4>1, Zenon
    <3> QED
      BY <3>4, <3>5
  <2>2. Done(popId, Popping)' = q
    BY <1>1, <1>2, <1>3 DEF Done
  <2>3. Done(pushId, Pushing)' = (q + (n + 1)) % Words
    <3>1. Done(pushId, Pushing)' = pushId
      BY <1>1, <1>3, DoneIs DEF Done
    <3>2. q + (n + 1) = q + n + 1
      OBVIOUS
    <3> QED
      BY <1>4, <3>1, <3>2
  <2>4. n + 1 \in 0 .. Capacity
    BY <1>6
  <2> QED
    BY <1>2, <2>1, <2>2, <2>3, <2>4 DEF Holds
<1>9. Queue' = Append(Queue, arg[t])
  <2>1. Queue = QueueAt(q, n, buffer) /\ Queue' = QueueAt(q, n + 1, buffer')
    BY <1>8, QueueIs
  <2>2. \A i \in 1 .. n : buffer'[(q + i) % Capacity] = buffer[(q + i) % Capacity]
    <3> TAKE i \in 1 .. n
    <3>1. i \in 1 .. Capacity /\ i # n + 1
      BY <1>6
    <3> QED
      BY <1>7, <3>1
  <2>3. buffer'[(q + n + 1) % Capacity] = arg[t]
    BY <1>3, <1>5
  <2> DEFINE D == buffer'
             m == n + 1
  <2>4. AppendedIn(q, n, m, buffer, D, arg[t])
    BY <2>2, <2>3 DEF AppendedIn
  <2>5. QueueAt(q, n + 1, D) = QueueAt(q, m, D)
    OBVIOUS
  <2> HIDE DEF D, m
  <2>6. QueueAt(q, m, D) = Append(QueueAt(q, n, buffer), arg[t])
    BY <2>4, Appended
  <2> QED
    BY <2>1, <2>5, <2>6 DEF D
<1>10. AtTheirEnds'
  BY <1>1, <1>3 DEF AtTheirEnds
<1> QED
  BY <1>3, <1>8, <1>9, <1>10 DEF FifoInv, IsFifoStep

LEMMA PopTakeFifo ==
  ASSUME IndInv, AtTheirEnds, NEW q \in Nat, NEW n \in Nat, Holds(q, n),
         NEW t \in Threads, PopTake(t)
  PROVE  FifoInv' /\ IsFifoStep
<1> USE DEF IndInv, TypeOK
<1>1. Popping = {t} /\ Popping' = {} /\ Pushing' = Pushing
  BY DEF PopTake, Pushing, Popping, AtTheirEnds
<1>2. /\ q \in 0 .. (Words - 1) /\ n \in 0 .. Capacity
      /\ Done(popId, {t}) = q /\ Done(pushId, Pushing) = (q + n) % Words
      /\ \A i \in 1 .. Capacity : buffer[(q + i) % Capacity] # Dummy <=> i <= n
  BY <1>1 DEF Holds
<1>3. /\ buffer[slot[t]] # Dummy /\ slot[t] \in Slots
      /\ buffer' = [buffer EXCEPT ![slot[t]] = Dummy]
      /\ outside' = outside \cup {buffer[slot[t]]}
      /\ UNCHANGED <<pushId, popId, slot, overlapped>>
  BY DEF PopTake, Ready, LeftInSlot
<1>4. popId = (q + 1) % Words
  BY <1>2, DoneIs
<1>5. slot[t] = (q + 1) % Capacity
  <2>1. slot[t] = popId % Capacity
    BY <1>1 DEF AtTheirEnds
  <2>2. q + 1 \in Int
    OBVIOUS
  <2>3. ((q + 1) % Words) % Capacity = (q + 1) % Capacity
    BY <2>2, ModOfWord, Zenon
  <2> QED
    BY <1>4, <2>1, <2>3
<1>6. n >= 1
  BY <1>2, <1>3, <1>5
<1>7. PICK p \in 0 .. (Words - 1) : p = popId
  OBVIOUS
<1>8. \A i \in 1 .. Capacity : (p + i) % Capacity = (q + 1 + i) % Capacity
  <2> TAKE i \in 1 .. Capacity
  <2>1. q + 1 \in Int /\ i \in Int
    OBVIOUS
  <2> QED
    BY <1>4, <1>7, <2>1, WordSlot, Zenon
<1>9. \A i \in 1 .. Capacity :
        buffer'[(p + i) % Capacity] =
          IF i = Capacity THEN Dummy ELSE buffer[(q + 1 + i) % Capacity]
  <2> TAKE i \in 1 .. Capacity
  <2>1. CASE i = Capacity
    <3>1. (q + 1 + i) % Capacity = (q + 1) % Capacity
      <4>1. (q + 1 + Capacity) % Capacity = (q + 1) % Capacity
        BY SlotOf
      <4> QED
        BY <2>1, <4>1
    <3> QED
      BY <1>3, <1>5, <1>8, <2>1, <3>1
  <2>2. CASE i # Capacity
    <3>1. i + 1 \in 1 .. Capacity /\ 1 \in 1 .. Capacity /\ i + 1 # 1
          /\ q + (i + 1) = q + 1 + i /\ q \in Int
      BY <2>2
    <3>2. (q + (i + 1)) % Capacity # (q + 1) % Capacity
      BY <3>1, ModApart
    <3>3. (q + (i + 1)) % Capacity \in Slots
      <4>1. i + 1 \in Nat
        OBVIOUS
      <4> QED
        BY <4>1, SlotOf, Zenon
    <3> QED
      BY <1>3, <1>5, <1>8, <2>2, <3>1, <3>2, <3>3
  <2> QED
    BY <2>1, <2>2
<1>10. Holds(p, n - 1)'
  <2>1. \A i \in 1 .. Capacity : buffer'[(p + i) % Capacity] # Dummy <=> i <= n - 1
    <3> TAKE i \in 1 .. Capacity
    <3>1. CASE i = Capacity
      BY <1>2, <1>9, <3>1
    <3>2. CASE i # Capacity
      <4>1. i + 1 \in 1 .. Capacity /\ q + (i + 1) = q + 1 + i
        BY <3>2
      <4>2. buffer[(q + (i + 1)) % Capacity] # Dummy <=> i + 1 <= n
        BY <1>2, <4>1
      <4>3. i + 1 <= n <=> i <= n - 1
        BY <1>2
      <4> QED
        BY <1>9, <3>2, <4>1, <4>2, <4>3
    <3> QED
      BY <3>1, <3>2
  <2>2. Done(popId, Popping)' = p
    BY <1>1, <1>3, <1>7, DoneIs DEF Done
  <2>3. Done(pushId, Pushing)' = (p + (n - 1)) % Words
    <3>1. q + 1 \in Int /\ n - 1 \in Int /\ Words \in Nat \ {0} /\ (q + 1) + (n - 1) = q + n
      BY <1>2
    <3>2. (((q + 1) % Words) + (n - 1)) % Words = ((q + 1) + (n - 1)) % Words
      BY <3>1, ModSum, Zenon
    <3>3. Done(pushId, Pushing)' = Done(pushId, Pushing)
      BY <1>1, <1>3 DEF Done
    <3> QED
      BY <1>2, <1>4, <1>7, <3>1, <3>2, <3>3
  <2>4. n - 1 \in 0 .. Capacity
    BY <1>2, <1>6
  <2> QED
    BY <1>7, <2>1, <2>2, <2>3, <2>4 DEF Holds
<1>11. /\ Queue # << >> /\ Queue' = Tail(Queue)
       /\ outside' = outside \cup {Head(Queue)}
  <2>1. Queue = QueueAt(q, n, buffer)
    BY QueueIs
  <2>2. Queue' = QueueAt(p, n - 1, buffer')
    BY <1>10, QueueIs
  <2> DEFINE D == buffer'
             m == n - 1
             e == buffer[(q + 1) % Capacity]
  <2>3. m \in Nat /\ TakenIn(q, n, p, m, buffer, D, e)
    <3>1. m \in Nat /\ n = m + 1
      BY <1>2, <1>6
    <3>2. ASSUME NEW i \in 1 .. m
          PROVE  D[(p + i) % Capacity] = buffer[(q + 1 + i) % Capacity]
      <4>1. i \in 1 .. Capacity /\ i # Capacity
        BY <1>2, <3>1
      <4> QED
        BY <1>9, <4>1
    <3> QED
      BY <3>1, <3>2 DEF TakenIn
  <2> HIDE DEF D, m, e
  <2>4. IsTail(QueueAt(p, m, D), QueueAt(q, n, buffer), e)
    BY <2>3, Taken
  <2> QED
    BY <1>3, <1>5, <2>1, <2>2, <2>4 DEF D, m, e, IsTail
<1>12. AtTheirEnds'
  BY <1>1, <1>3 DEF AtTheirEnds
<1> QED
  BY <1>2, <1>3, <1>6, <1>10, <1>11, <1>12 DEF FifoInv, IsFifoStep

LEMMA NextFifo ==
  ASSUME IndInv, FifoInv, [Next]_vars
  PROVE  FifoInv' /\ (~overlapped' => IsFifoStep)
<1> USE DEF IndInv, TypeOK
<1>1. overlapped => overlapped'
  BY QuietKeeps DEF Next, Continue, Quiet, PushClaim, PopClaim, PushStore, PopTake, vars
<1> SUFFICES ASSUME ~overlapped, ~overlapped' PROVE FifoInv' /\ IsFifoStep
  BY <1>1 DEF FifoInv
<1>2. PICK q \in Nat, n \in Nat : AtTheirEnds /\ Holds(q, n)
  BY DEF FifoInv
<1>3. ASSUME NEW t \in Threads, Quiet(t) PROVE FifoInv' /\ IsFifoStep
  <2>1. /\ Pushing' = Pushing /\ Popping' = Popping
        /\ UNCHANGED <<pushId, popId, buffer, slot>>
    BY <1>3, QuietKeeps
  <2>2. AtTheirEnds'
    BY <1>2, <2>1 DEF AtTheirEnds
  <2> QED
    BY <1>2, <2>1, <2>2, HoldsStill DEF FifoInv, Done
<1>4. CASE UNCHANGED vars
  <2>1. /\ Pushing' = Pushing /\ Popping' = Popping
        /\ UNCHANGED <<pushId, popId, buffer, slot>>
    BY <1>4 DEF vars, Pushing, Popping
  <2>2. AtTheirEnds'
    BY <1>2, <2>1 DEF AtTheirEnds
  <2> QED
    BY <1>2, <2>1, <2>2, HoldsStill DEF FifoInv, Done
<1> QED
  BY <1>2, <1>3, <1>4, PushClaimFifo, PopClaimFifo, PushStoreFifo, PopTakeFifo
     DEF Next, Continue, Quiet

(* With one push and one pop at a time the buffer is a queue, for any      *)
(* capacity and also where the tickets wrap around: a push appends its     *)
(* element, and a pop takes the first one.                                 *)
THEOREM BufferIsFifo == Spec => FifoWithoutOverlap
<1>1. Spec => []FifoInv
  BY InitFifo, InductiveInvariant, NextFifo, PTL DEF Spec
<1> QED
  BY <1>1, InductiveInvariant, NextFifo, PTL DEF Spec, FifoWithoutOverlap
==============================================================================
