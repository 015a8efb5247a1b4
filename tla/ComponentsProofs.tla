--------------------------- MODULE ComponentsProofs ---------------------------
(***************************************************************************)
(* The safety of the components that do not interact, for the composition  *)
(* of them: the keys, the marks, the delayed manager with its guards, and  *)
(* the circular buffer.                                                    *)
(***************************************************************************)
EXTENDS ConcurrentSinglyLinkedListProofs

------------------------------------------------------------------------------
(* CircularBuffer: division with remainder.                                *)

LEMMA ModIs ==
  ASSUME NEW n \in Nat \ {0}, NEW a \in Int
  PROVE  a % n \in 0 .. (n - 1) /\ \E q \in Int : a = n * q + (a % n)
<1>1. a \div n \in Int /\ a % n \in 0 .. (n - 1) /\ a = n * (a \div n) + (a % n)
  OBVIOUS
<1> QED
  BY <1>1

LEMMA ModUnique ==
  ASSUME NEW n \in Nat \ {0}, NEW a \in Int, NEW q \in Int,
         NEW x \in 0 .. (n - 1), a = n * q + x
  PROVE  a % n = x
<1>1. a % n \in 0 .. (n - 1)
  BY ModIs
<1>2. PICK d \in Int : a = n * d + (a % n)
  BY ModIs
<1>3. n * (q - d) = (a % n) - x
  BY <1>1, <1>2
<1>4. CASE q - d >= 1
  <2>1. n * (q - d) >= n
    BY <1>2, <1>4
  <2> QED
    BY <1>1, <1>3, <2>1
<1>5. CASE q - d <= -1
  <2>1. n * (q - d) <= -n
    BY <1>2, <1>5
  <2> QED
    BY <1>1, <1>3, <2>1
<1>6. CASE q = d
  BY <1>1, <1>3, <1>6
<1> QED
  BY <1>2, <1>4, <1>5, <1>6

(* Numbers that a multiple of n lies between have the same remainder, and  *)
(* no others that are less than n apart.                                   *)
LEMMA ModEqual ==
  ASSUME NEW n \in Nat \ {0}, NEW a \in Int, NEW b \in Int, NEW k \in Int,
         a = b + n * k
  PROVE  a % n = b % n
<1>1. b % n \in 0 .. (n - 1)
  BY ModIs
<1>2. PICK q \in Int : b = n * q + (b % n)
  BY ModIs
<1>3. a = n * (q + k) + (b % n) /\ q + k \in Int
  BY <1>1, <1>2
<1> QED
  BY <1>1, <1>3, ModUnique

LEMMA ModApart ==
  ASSUME NEW n \in Nat \ {0}, NEW a \in Int, NEW b \in Int,
         a % n = b % n, a - b < n, b - a < n
  PROVE  a = b
<1>1. a % n \in 0 .. (n - 1)
  BY ModIs
<1>2. PICK q \in Int : a = n * q + (a % n)
  BY ModIs
<1>3. PICK d \in Int : b = n * d + (b % n)
  BY ModIs
<1>4. a - b = n * (q - d)
  BY <1>1, <1>2, <1>3
<1>5. CASE q - d >= 1
  <2>1. n * (q - d) >= n
    BY <1>2, <1>3, <1>5
  <2> QED
    BY <1>4, <2>1
<1>6. CASE q - d <= -1
  <2>1. n * (q - d) <= -n
    BY <1>2, <1>3, <1>6
  <2> QED
    BY <1>4, <2>1
<1>7. CASE q = d
  BY <1>4, <1>7
<1> QED
  BY <1>2, <1>3, <1>5, <1>6, <1>7

(* A word modulo a capacity that divides the number of words.              *)
LEMMA ModOfMod ==
  ASSUME NEW n \in Nat \ {0}, NEW m \in Nat \ {0}, NEW k \in Nat, m = n * k,
         NEW a \in Int
  PROVE  (a % m) % n = a % n
<1>1. a % m \in Int
  BY ModIs
<1>2. PICK q \in Int : a = m * q + (a % m)
  BY ModIs
<1>3. m * q = n * (k * q) /\ k * q \in Int
  BY <1>2
<1>4. a = (a % m) + n * (k * q)
  BY <1>1, <1>2, <1>3
<1>5. a % n = (a % m) % n
  <2> DEFINE b == a % m
             d == k * q
  <2>1. b \in Int /\ d \in Int /\ a = b + n * d
    BY <1>1, <1>3, <1>4
  <2> HIDE DEF b, d
  <2>2. a % n = b % n
    BY <2>1, ModEqual
  <2> QED
    BY <2>2 DEF b
<1> QED
  BY <1>5

(* Powers of 2.                                                            *)

LEMMA PowersAreEven ==
  ASSUME NEW n \in Nat \ {0, 1}, IsPowerOf2(n)
  PROVE  \E h \in Nat \ {0} : n = 2 * h /\ IsPowerOf2(h)
<1>1. n % n = 0
  <2>1. n = n * 1 + 0 /\ 0 \in 0 .. (n - 1)
    OBVIOUS
  <2> QED
    BY <2>1, ModUnique
<1>2. n % 2 = 0
  BY <1>1 DEF IsPowerOf2
<1>3. PICK h \in Int : n = 2 * h
  BY <1>2
<1>4. h \in Nat \ {0}
  BY <1>3
<1>5. ASSUME NEW d \in 2 .. h, h % d = 0 PROVE d % 2 = 0
  <2>1. PICK q \in Int : h = d * q
    <3>1. \E q \in Int : h = d * q + (h % d)
      <4>1. h \in Int /\ d \in Nat \ {0}
        BY <1>4
      <4> QED
        BY <4>1, ModIs
    <3> QED
      BY <1>5, <3>1
  <2>2. n = d * (2 * q) + 0 /\ 2 * q \in Int /\ 0 \in 0 .. (d - 1)
    BY <1>3, <2>1
  <2>3. n % d = 0
    <3>1. n \in Int /\ d \in Nat \ {0}
      BY <1>4
    <3> QED
      BY <2>2, <3>1, ModUnique
  <2> QED
    BY <1>3, <1>4, <2>3 DEF IsPowerOf2
<1>6. IsPowerOf2(h)
  BY <1>4, <1>5 DEF IsPowerOf2
<1> QED
  BY <1>3, <1>4, <1>6

LEMMA PowersDouble ==
  ASSUME NEW n \in Nat, IsPowerOf2(n)
  PROVE  IsPowerOf2(2 * n)
<1> SUFFICES ASSUME NEW d \in 2 .. 2 * n, (2 * n) % d = 0, d % 2 # 0
             PROVE  FALSE
  BY DEF IsPowerOf2
<1>1. PICK q \in Int : 2 * n = d * q
  <2>1. 2 * n \in Int /\ d \in Nat \ {0}
    BY DEF IsPowerOf2
  <2>2. \E q \in Int : 2 * n = d * q + ((2 * n) % d)
    BY <2>1, ModIs
  <2> QED
    BY <2>2
<1>2. PICK e \in Int : d = 2 * e + 1
  OBVIOUS
<1>3. d * q = 2 * (e * q) + q /\ e * q \in Int
  BY <1>1, <1>2
<1>4. PICK h \in Int : q = 2 * h
  <2> DEFINE x == e * q
  <2>1. x \in Int /\ 2 * n = 2 * x + q
    BY <1>1, <1>3
  <2> HIDE DEF x
  <2>2. q = 2 * (n - x) /\ n - x \in Int
    BY <1>1, <2>1
  <2> QED
    BY <2>2
<1>5. n = d * h + 0 /\ 0 \in 0 .. (d - 1)
  <2>1. 2 * n = 2 * (d * h) /\ d * h \in Int
    BY <1>1, <1>4
  <2> QED
    BY <2>1
<1>6. n % d = 0
  <2>1. n \in Int /\ d \in Nat \ {0}
    OBVIOUS
  <2> QED
    BY <1>4, <1>5, <2>1, ModUnique
<1>7. d <= n
  <2>1. h >= 1
    <3>1. CASE h <= 0
      <4>1. d * h <= 0
        BY <1>4, <3>1
      <4> QED
        BY <1>5, <4>1 DEF IsPowerOf2
    <3> QED
      BY <1>4, <3>1
  <2>2. d * h >= d
    BY <1>4, <2>1
  <2> QED
    BY <1>5, <2>2
<1>8. d \in 2 .. n
  BY <1>7
<1>9. \A y \in 2 .. n : n % y = 0 => y % 2 = 0
  BY DEF IsPowerOf2
<1> QED
  BY <1>6, <1>8, <1>9

(* Of two powers of 2 the smaller one divides the larger one.              *)
LEMMA PowersDivide ==
  ASSUME NEW m \in Nat, NEW n \in Nat, IsPowerOf2(m), IsPowerOf2(n), n <= m
  PROVE  \E k \in Nat : m = n * k
<1> DEFINE T == {x \in Nat : /\ IsPowerOf2(x)
                             /\ \E y \in Nat : /\ IsPowerOf2(y) /\ x <= y
                                               /\ \A k \in Nat : y # x * k}
<1> SUFFICES ASSUME T # {} PROVE FALSE
  OBVIOUS
<1>1. PICK x \in T : \A z \in T : x <= z
  <2>1. T \in SUBSET Nat
    OBVIOUS
  <2> HIDE DEF T
  <2> QED
    BY <2>1, LeastElement
<1>2. x \in Nat \ {0} /\ IsPowerOf2(x)
  BY <1>1 DEF IsPowerOf2
<1>3. PICK y \in Nat : IsPowerOf2(y) /\ x <= y /\ \A k \in Nat : y # x * k
  BY <1>1
<1>4. x # 1
  <2>1. y = 1 * y
    OBVIOUS
  <2> QED
    BY <1>3, <2>1
<1>5. PICK g \in Nat \ {0} : x = 2 * g /\ IsPowerOf2(g)
  BY <1>2, <1>4, PowersAreEven
<1>6. PICK h \in Nat \ {0} : y = 2 * h /\ IsPowerOf2(h)
  <2>1. y \in Nat \ {0, 1}
    BY <1>2, <1>3, <1>4
  <2> QED
    BY <1>3, <2>1, PowersAreEven
<1>7. g \notin T
  <2>1. ~(x <= g)
    BY <1>2, <1>5
  <2> HIDE DEF T
  <2> QED
    BY <1>1, <2>1
<1>8. g <= h
  BY <1>3, <1>5, <1>6
<1>9. PICK k \in Nat : h = g * k
  BY <1>5, <1>6, <1>7, <1>8
<1>10. y = x * k
  BY <1>5, <1>6, <1>9
<1> QED
  BY <1>3, <1>9, <1>10

LEMMA CapacityIs ==
  ASSUME NEW c \in Capacities
  PROVE  /\ c \in Nat \ {0} /\ Words \in Nat \ {0} /\ 2 * c <= Words
         /\ \E k \in Nat : Words = c * k
         /\ \A a \in Int : (a % Words) % c = a % c
         /\ 2 * c <= MaxCapacity => 2 * c \in Capacities
<1>1. c \in Nat \ {0} /\ Words \in Nat \ {0} /\ 2 * c <= Words /\ IsPowerOf2(c)
  BY WordsAssumption DEF Capacities, IsPowerOf2
<1>2. \E k \in Nat : Words = c * k
  BY <1>1, PowersDivide, WordsAssumption
<1>3. \A a \in Int : (a % Words) % c = a % c
  BY <1>1, <1>2, ModOfMod
<1>4. 2 * c <= MaxCapacity => 2 * c \in Capacities
  BY <1>1, PowersDouble, WordsAssumption DEF Capacities
<1> QED
  BY <1>1, <1>2, <1>3, <1>4
------------------------------------------------------------------------------
(* A buffer of capacity c, with its ends at s and e, holds the sequence q. *)

Contained == Values \cup {Raw}
Offsets == 0 .. (Words - 1)

Holds(b, c, s, e, q) ==
  /\ c \in Capacities /\ s \in Offsets /\ e \in Offsets
  /\ b \in [0 .. (c - 1) -> Contained]
  /\ q \in Seq(Values) /\ Len(q) <= c
  /\ e = (s + Len(q)) % Words
  /\ \A i \in 1 .. Len(q) : b[(s + i - 1) % c] = q[i]
  /\ \A x \in 0 .. (c - 1) :
       b[x] # Raw => \E i \in 1 .. Len(q) : x = (s + i - 1) % c

LEMMA OffsetMod ==
  ASSUME NEW c \in Capacities, NEW a \in Int
  PROVE  /\ a % c \in 0 .. (c - 1)
         /\ a % Words \in Offsets
         /\ (a % Words) % c = a % c
<1>1. c \in Nat \ {0} /\ Words \in Nat \ {0}
  BY CapacityIs
<1>2. a % c \in 0 .. (c - 1)
  BY <1>1, ModIs
<1>3. a % Words \in Offsets
  BY <1>1, ModIs DEF Offsets
<1>4. (a % Words) % c = a % c
  BY CapacityIs
<1> QED
  BY <1>2, <1>3, <1>4

(* What a word plus a number is, if the word is one plus another.          *)
LEMMA WordsAdd ==
  ASSUME NEW a \in Int, NEW d \in Int
  PROVE  /\ ((a % Words) + d) % Words = (a + d) % Words
         /\ a \in Offsets => a % Words = a
<1>1. Words \in Nat \ {0}
  BY WordsAssumption DEF IsPowerOf2
<1> DEFINE b == a % Words
<1>2. b \in Int
  BY <1>1, ModIs
<1>3. PICK q \in Int : a = Words * q + (a % Words)
  BY <1>1, ModIs
<1> HIDE DEF b
<1>4. b + d \in Int /\ a + d \in Int /\ a + d = (b + d) + Words * q
  BY <1>1, <1>2, <1>3 DEF b
<1>5. (a + d) % Words = (b + d) % Words
  <2> DEFINE x == a + d
             y == b + d
  <2>1. x \in Int /\ y \in Int /\ x = y + Words * q
    BY <1>4
  <2> HIDE DEF x, y
  <2>2. x % Words = y % Words
    BY <1>1, <2>1, ModEqual
  <2> QED
    BY <2>2 DEF x, y
<1>6. ASSUME a \in Offsets PROVE a % Words = a
  <2>1. a = Words * 0 + a /\ a \in 0 .. (Words - 1)
    BY <1>1, <1>6 DEF Offsets
  <2> QED
    BY <1>1, <2>1, ModUnique
<1> QED
  BY <1>5, <1>6 DEF b

LEMMA SlotsApart ==
  ASSUME NEW c \in Nat \ {0}, NEW a \in Int, NEW b \in Int, a - b < c, b - a < c,
         a # b
  PROVE  a % c # b % c
BY ModApart

(* The size that a pair of ends stands for.                                *)
LEMMA SizeOf ==
  ASSUME NEW b, NEW c, NEW s, NEW e, NEW q, Holds(b, c, s, e, q)
  PROVE  /\ (e - s) % Words = Len(q)
         /\ c \in Nat \ {0} /\ 2 * c <= Words /\ Words \in Nat /\ s \in Int
         /\ Len(q) \in 0 .. c
         /\ e % c = (s + Len(q)) % c
<1>1. /\ c \in Nat \ {0} /\ 2 * c <= Words /\ Words \in Nat /\ Words # 0
      /\ s \in Int /\ e \in Int
      /\ Len(q) \in 0 .. c
  BY CapacityIs DEF Holds, Offsets
<1>2. e % c = (s + Len(q)) % c
  <2>1. s + Len(q) \in Int /\ c \in Capacities
    BY <1>1 DEF Holds
  <2> QED
    BY <2>1, OffsetMod DEF Holds
<1>3. (e - s) % Words = Len(q)
  <2> DEFINE a == s + Len(q)
             d == -s
  <2>1. a \in Int /\ d \in Int /\ a + d = Len(q) /\ Len(q) \in Offsets
    BY <1>1 DEF Offsets
  <2> HIDE DEF a, d
  <2>2. ((a % Words) + d) % Words = (a + d) % Words
    BY <2>1, WordsAdd
  <2>3. Len(q) % Words = Len(q)
    <3>1. Len(q) \in Int
      BY <1>1
    <3> QED
      BY <2>1, <3>1, WordsAdd
  <2>4. e - s = (a % Words) + d
    BY <1>1 DEF Holds, a, d
  <2> QED
    BY <2>1, <2>2, <2>3, <2>4
<1> QED
  BY <1>1, <1>2, <1>3
LEMMA OffsetAdd ==
  ASSUME NEW c \in Capacities, NEW a \in Int, NEW d \in Int
  PROVE  ((a % Words) + d) % c = (a + d) % c
<1> DEFINE b == a % Words
<1>1. b + d \in Int /\ a + d \in Int
  BY OffsetMod DEF Offsets
<1>2. (b + d) % Words = (a + d) % Words
  BY WordsAdd
<1> DEFINE x == b + d
           y == a + d
<1>3. x \in Int /\ y \in Int /\ x % Words = y % Words
  BY <1>1, <1>2
<1> HIDE DEF x, y, b
<1>4. (x % Words) % c = x % c /\ (y % Words) % c = y % c
  BY <1>3, OffsetMod
<1>5. x % c = y % c
  BY <1>3, <1>4
<1> QED
  BY <1>5 DEF x, y, b

LEMMA PushedBack ==
  ASSUME NEW b, NEW c, NEW s, NEW e, NEW q, Holds(b, c, s, e, q),
         Len(q) < c, NEW v \in Values
  PROVE  Holds([b EXCEPT ![e % c] = v], c, s, Inc(e), Append(q, v))
<1> DEFINE n == Len(q)
           bb == [b EXCEPT ![e % c] = v]
           qq == Append(q, v)
<1>1. /\ c \in Nat \ {0} /\ 2 * c <= Words /\ Words \in Nat
      /\ s \in Int /\ n \in 0 .. c /\ n < c /\ e \in Int
      /\ e % c = (s + n) % c
  <2>1. /\ c \in Nat \ {0} /\ 2 * c <= Words /\ Words \in Nat
        /\ s \in Int /\ Len(q) \in 0 .. c /\ e % c = (s + Len(q)) % c
    BY SizeOf
  <2>2. c \in Capacities /\ e \in Offsets
    BY DEF Holds
  <2>3. e \in Int
    BY <2>1, <2>2 DEF Offsets
  <2> QED
    BY <2>1, <2>2, <2>3
<1>2. e % c \in 0 .. (c - 1)
  BY <1>1, ModIs
<1>3. qq \in Seq(Values) /\ Len(qq) = n + 1 /\ qq[n + 1] = v
      /\ \A i \in 1 .. n : qq[i] = q[i]
  BY DEF Holds
<1>4. bb \in [0 .. (c - 1) -> Contained] /\ bb[e % c] = v
      /\ \A x \in 0 .. (c - 1) : x # e % c => bb[x] = b[x]
  BY <1>2 DEF Holds, Contained
<1>5. Inc(e) \in Offsets /\ Inc(e) = (s + (n + 1)) % Words
  <2> DEFINE a == s + n
  <2>1. a \in Int /\ e = a % Words /\ s + (n + 1) = a + 1 /\ c \in Capacities
    BY <1>1 DEF Holds
  <2> HIDE DEF a, n
  <2>2. ((a % Words) + 1) % Words = (a + 1) % Words
    BY <2>1, WordsAdd
  <2>3. e + 1 \in Int
    BY <1>1
  <2>4. (e + 1) % Words \in Offsets
    BY <2>1, <2>3, OffsetMod
  <2> QED
    BY <2>1, <2>2, <2>4 DEF Inc
<1>6. ASSUME NEW i \in 1 .. n
      PROVE  (s + i - 1) % c \in 0 .. (c - 1) /\ (s + i - 1) % c # e % c
  <2>1. s + i - 1 \in Int /\ s + n \in Int /\ s + i - 1 # s + n
        /\ (s + i - 1) - (s + n) < c /\ (s + n) - (s + i - 1) < c
    BY <1>1
  <2>2. (s + i - 1) % c # (s + n) % c
    BY <1>1, <2>1, SlotsApart
  <2>3. (s + i - 1) % c \in 0 .. (c - 1)
    BY <1>1, <2>1, ModIs
  <2> QED
    BY <1>1, <2>2, <2>3
<1>7. ASSUME NEW i \in 1 .. (n + 1) PROVE bb[(s + i - 1) % c] = qq[i]
  <2>1. CASE i = n + 1
    <3>1. s + i - 1 = s + n
      BY <1>1, <2>1
    <3> QED
      BY <1>1, <1>3, <1>4, <2>1, <3>1
  <2>2. CASE i # n + 1
    <3>1. i \in 1 .. n
      BY <1>1, <2>2
    <3>2. b[(s + i - 1) % c] = q[i]
      BY <3>1 DEF Holds
    <3> QED
      BY <1>3, <1>4, <1>6, <3>1, <3>2
  <2> QED
    BY <2>1, <2>2
<1>8. ASSUME NEW x \in 0 .. (c - 1), bb[x] # Raw
      PROVE  \E i \in 1 .. (n + 1) : x = (s + i - 1) % c
  <2>1. CASE x = e % c
    <3>1. n + 1 \in 1 .. (n + 1) /\ s + (n + 1) - 1 = s + n
      BY <1>1
    <3> QED
      BY <1>1, <2>1, <3>1
  <2>2. CASE x # e % c
    <3>1. b[x] # Raw
      BY <1>4, <1>8, <2>2
    <3>2. PICK i \in 1 .. n : x = (s + i - 1) % c
      BY <3>1 DEF Holds
    <3>3. i \in 1 .. (n + 1)
      BY <1>1
    <3> QED
      BY <3>2, <3>3
  <2> QED
    BY <2>1, <2>2
<1>9. c \in Capacities /\ s \in Offsets /\ n + 1 <= c
  BY <1>1 DEF Holds
<1> HIDE DEF n, bb, qq
<1>10. Holds(bb, c, s, Inc(e), qq)
  BY <1>3, <1>4, <1>5, <1>7, <1>8, <1>9 DEF Holds
<1> QED
  BY <1>10 DEF bb, qq

LEMMA PushedFront ==
  ASSUME NEW b, NEW c, NEW s, NEW e, NEW q, Holds(b, c, s, e, q),
         Len(q) < c, NEW v \in Values
  PROVE  Holds([b EXCEPT ![Dec(s) % c] = v], c, Dec(s), e, <<v>> \o q)
<1> DEFINE n == Len(q)
           d == Dec(s)
           bb == [b EXCEPT ![d % c] = v]
           qq == <<v>> \o q
<1>1. /\ c \in Nat \ {0} /\ 2 * c <= Words /\ Words \in Nat
      /\ s \in Int /\ n \in 0 .. c /\ n < c /\ c \in Capacities
  <2>1. /\ c \in Nat \ {0} /\ 2 * c <= Words /\ Words \in Nat
        /\ s \in Int /\ Len(q) \in 0 .. c /\ e % c = (s + Len(q)) % c
    BY SizeOf
  <2>2. c \in Capacities /\ e \in Offsets
    BY DEF Holds
  <2>3. e \in Int
    BY <2>1, <2>2 DEF Offsets
  <2> QED
    BY <2>1, <2>2, <2>3
<1>2. d \in Offsets /\ d \in Int /\ d % c = (s - 1) % c
  <2> DEFINE a == s - 1
  <2>1. a \in Int /\ d = a % Words
    BY <1>1 DEF Dec
  <2> HIDE DEF a, d
  <2>2. a % Words \in Offsets /\ (a % Words) % c = a % c
    BY <1>1, <2>1, OffsetMod
  <2>3. d \in Int
    BY <1>1, <2>1, <2>2 DEF Offsets
  <2> QED
    BY <2>1, <2>2, <2>3 DEF a
<1>3. d % c \in 0 .. (c - 1)
  BY <1>1, <1>2, ModIs
<1>4. qq \in Seq(Values) /\ Len(qq) = n + 1 /\ qq[1] = v
      /\ \A i \in 1 .. n : qq[i + 1] = q[i]
  BY DEF Holds
<1>5. bb \in [0 .. (c - 1) -> Contained] /\ bb[d % c] = v
      /\ \A x \in 0 .. (c - 1) : x # d % c => bb[x] = b[x]
  BY <1>3 DEF Holds, Contained
<1>6. e = (d + (n + 1)) % Words
  <2> DEFINE a == s - 1
             k == n + 1
  <2>1. a \in Int /\ k \in Int /\ s + n = a + k
    BY <1>1
  <2>2. e = (s + n) % Words
    BY DEF Holds
  <2> HIDE DEF a, n, k
  <2>3. ((a % Words) + k) % Words = (a + k) % Words
    BY <2>1, WordsAdd
  <2> QED
    BY <2>1, <2>2, <2>3 DEF Dec, a, k
<1>7. ASSUME NEW i \in 1 .. (n + 1)
      PROVE  (d + i - 1) % c = (s + (i - 1) - 1) % c
  <2> DEFINE a == s - 1
             k == i - 1
  <2>1. a \in Int /\ k \in Int /\ a + k = s + (i - 1) - 1 /\ d = a % Words
        /\ d + i - 1 = d + k
    BY <1>1, <1>2 DEF Dec
  <2> HIDE DEF a, n, k, d
  <2>2. ((a % Words) + k) % c = (a + k) % c
    BY <1>1, <2>1, OffsetAdd
  <2> QED
    BY <2>1, <2>2
<1>8. ASSUME NEW i \in 1 .. n
      PROVE  (s + i - 1) % c \in 0 .. (c - 1) /\ (s + i - 1) % c # d % c
  <2>1. s + i - 1 \in Int /\ s - 1 \in Int /\ s + i - 1 # s - 1
        /\ (s + i - 1) - (s - 1) < c /\ (s - 1) - (s + i - 1) < c
    BY <1>1
  <2>2. (s + i - 1) % c # (s - 1) % c
    BY <1>1, <2>1, SlotsApart
  <2>3. (s + i - 1) % c \in 0 .. (c - 1)
    BY <1>1, <2>1, ModIs
  <2> QED
    BY <1>2, <2>2, <2>3
<1>9. ASSUME NEW i \in 1 .. (n + 1) PROVE bb[(d + i - 1) % c] = qq[i]
  <2>1. CASE i = 1
    <3>1. d + i - 1 = d
      BY <1>2, <2>1
    <3> QED
      BY <1>4, <1>5, <2>1, <3>1
  <2>2. CASE i # 1
    <3>1. i - 1 \in 1 .. n /\ (i - 1) + 1 = i
      BY <1>1, <2>2
    <3>2. b[(s + (i - 1) - 1) % c] = q[i - 1]
      BY <3>1 DEF Holds
    <3>3. /\ (s + (i - 1) - 1) % c \in 0 .. (c - 1)
          /\ (s + (i - 1) - 1) % c # d % c
      BY <1>8, <3>1
    <3>4. qq[(i - 1) + 1] = q[i - 1]
      BY <1>4, <3>1
    <3> QED
      BY <1>5, <1>7, <3>1, <3>2, <3>3, <3>4
  <2> QED
    BY <2>1, <2>2
<1>10. ASSUME NEW x \in 0 .. (c - 1), bb[x] # Raw
       PROVE  \E i \in 1 .. (n + 1) : x = (d + i - 1) % c
  <2>1. CASE x = d % c
    <3>1. 1 \in 1 .. (n + 1) /\ d + 1 - 1 = d
      BY <1>1, <1>2
    <3> QED
      BY <2>1, <3>1
  <2>2. CASE x # d % c
    <3>1. b[x] # Raw
      BY <1>5, <1>10, <2>2
    <3>2. PICK i \in 1 .. n : x = (s + i - 1) % c
      BY <3>1 DEF Holds
    <3>3. i + 1 \in 1 .. (n + 1) /\ (i + 1) - 1 = i
      BY <1>1
    <3>4. (d + (i + 1) - 1) % c = (s + ((i + 1) - 1) - 1) % c
      BY <1>7, <3>3
    <3> QED
      BY <3>2, <3>3, <3>4
  <2> QED
    BY <2>1, <2>2
<1>11. n + 1 <= c /\ e \in Offsets
  BY <1>1 DEF Holds
<1> HIDE DEF n, bb, qq, d
<1>12. Holds(bb, c, d, e, qq)
  BY <1>1, <1>2, <1>4, <1>5, <1>6, <1>9, <1>10, <1>11 DEF Holds
<1> QED
  BY <1>12 DEF bb, qq, d
LEMMA PoppedBack ==
  ASSUME NEW b, NEW c, NEW s, NEW e, NEW q, Holds(b, c, s, e, q), q # << >>
  PROVE  /\ b[Dec(e) % c] = Last(q) /\ Last(q) \in Values
         /\ Holds([b EXCEPT ![Dec(e) % c] = Raw], c, s, Dec(e), Front(q))
<1> DEFINE n == Len(q)
           d == Dec(e)
           bb == [b EXCEPT ![d % c] = Raw]
           qq == Front(q)
<1>1. /\ c \in Nat \ {0} /\ Words \in Nat /\ c \in Capacities
      /\ s \in Int /\ n \in 1 .. c /\ q \in Seq(Values)
  <2>1. /\ c \in Nat \ {0} /\ Words \in Nat
        /\ s \in Int /\ Len(q) \in 0 .. c
    BY SizeOf
  <2>2. c \in Capacities /\ q \in Seq(Values)
    BY DEF Holds
  <2>3. Len(q) # 0
    BY <2>2
  <2> QED
    BY <2>1, <2>2, <2>3
<1>2. /\ d \in Offsets /\ d = (s + (n - 1)) % Words
      /\ d % c = (s + n - 1) % c /\ d % c \in 0 .. (c - 1)
  <2> DEFINE a == s + n
             k == s + n - 1
             m == -1
  <2>1. a \in Int /\ k \in Int /\ m \in Int /\ a + m = k /\ e = a % Words
        /\ e \in Offsets
    BY <1>1 DEF Holds
  <2>2. d = (e + m) % Words
    BY <1>1, <2>1 DEF Dec, Offsets
  <2>3. s + (n - 1) = k
    BY <1>1
  <2> HIDE DEF a, k, m, n, d
  <2>4. ((a % Words) + m) % Words = (a + m) % Words
    BY <2>1, WordsAdd
  <2>5. k % Words \in Offsets /\ (k % Words) % c = k % c /\ k % c \in 0 .. (c - 1)
    BY <1>1, <2>1, OffsetMod
  <2>6. d = k % Words
    BY <2>1, <2>2, <2>4
  <2> QED
    BY <2>3, <2>5, <2>6 DEF k
<1>3. /\ qq \in Seq(Values) /\ Len(qq) = n - 1
      /\ \A i \in 1 .. (n - 1) : qq[i] = q[i]
      /\ Last(q) = q[n] /\ q[n] \in Values
  <2>1. qq = SubSeq(q, 1, n - 1)
    BY DEF Front
  <2>2. /\ n - 1 \in Int /\ 1 \in Int /\ \A i \in 1 .. (n - 1) : q[i] \in Values
        /\ (n - 1) - 1 + 1 = n - 1
    BY <1>1
  <2>3. /\ qq \in Seq(Values) /\ Len(qq) = n - 1
        /\ \A i \in 1 .. (n - 1) : qq[i] = q[i]
    <3> DEFINE m == n - 1
    <3>1. /\ SubSeq(q, 1, m) \in Seq(Values)
          /\ Len(SubSeq(q, 1, m)) = IF 1 <= m THEN m - 1 + 1 ELSE 0
          /\ \A i \in 1 .. m - 1 + 1 : SubSeq(q, 1, m)[i] = q[1 + i - 1]
      <4>1. m \in Int /\ \A i \in 1 .. m : q[i] \in Values
        BY <2>2
      <4> HIDE DEF m, n
      <4> QED
        BY <4>1, SubSeqProperties
    <3>2. m \in Nat /\ m - 1 + 1 = m /\ qq = SubSeq(q, 1, m)
      BY <1>1, <2>1
    <3> HIDE DEF m, qq, n
    <3>3. Len(qq) = m
      BY <3>1, <3>2
    <3>4. ASSUME NEW i \in 1 .. m PROVE qq[i] = q[i]
      <4>1. 1 + i - 1 = i
        OBVIOUS
      <4> QED
        BY <3>1, <3>2, <4>1
    <3> QED
      BY <3>1, <3>2, <3>3, <3>4 DEF m
  <2>4. Last(q) = q[n] /\ q[n] \in Values
    BY <1>1 DEF Last
  <2> HIDE DEF qq, n
  <2> QED
    BY <2>3, <2>4
<1>4. b[d % c] = q[n]
  <2>1. n \in 1 .. n
    BY <1>1
  <2> QED
    BY <1>2, <2>1 DEF Holds
<1>5. bb \in [0 .. (c - 1) -> Contained] /\ bb[d % c] = Raw
      /\ \A x \in 0 .. (c - 1) : x # d % c => bb[x] = b[x]
  BY <1>2 DEF Holds, Contained
<1>6. ASSUME NEW i \in 1 .. (n - 1) PROVE bb[(s + i - 1) % c] = qq[i]
  <2>1. s + i - 1 \in Int /\ s + n - 1 \in Int /\ s + i - 1 # s + n - 1
        /\ (s + i - 1) - (s + n - 1) < c /\ (s + n - 1) - (s + i - 1) < c
    BY <1>1
  <2>2. (s + i - 1) % c # (s + n - 1) % c
    BY <1>1, <2>1, SlotsApart
  <2>3. (s + i - 1) % c \in 0 .. (c - 1)
    BY <1>1, <2>1, ModIs
  <2>4. b[(s + i - 1) % c] = q[i]
    <3>1. i \in 1 .. n
      BY <1>1
    <3> QED
      BY <3>1 DEF Holds
  <2> QED
    BY <1>2, <1>3, <1>5, <2>2, <2>3, <2>4
<1>7. ASSUME NEW x \in 0 .. (c - 1), bb[x] # Raw
      PROVE  \E i \in 1 .. (n - 1) : x = (s + i - 1) % c
  <2>1. x # d % c /\ b[x] # Raw
    BY <1>5, <1>7
  <2>2. PICK i \in 1 .. n : x = (s + i - 1) % c
    BY <2>1 DEF Holds
  <2>3. i # n
    BY <1>2, <2>1, <2>2
  <2>4. i \in 1 .. (n - 1)
    BY <1>1, <2>3
  <2> QED
    BY <2>2, <2>4
<1>8. s \in Offsets /\ n - 1 <= c
  BY <1>1 DEF Holds
<1> HIDE DEF n, bb, qq, d
<1>9. Holds(bb, c, s, d, qq)
  BY <1>1, <1>2, <1>3, <1>5, <1>6, <1>7, <1>8 DEF Holds
<1> QED
  BY <1>3, <1>4, <1>9 DEF bb, qq, d

LEMMA PoppedFront ==
  ASSUME NEW b, NEW c, NEW s, NEW e, NEW q, Holds(b, c, s, e, q), q # << >>
  PROVE  /\ b[s % c] = Head(q) /\ Head(q) \in Values
         /\ Holds([b EXCEPT ![s % c] = Raw], c, Inc(s), e, Tail(q))
<1> DEFINE n == Len(q)
           d == Inc(s)
           bb == [b EXCEPT ![s % c] = Raw]
           qq == Tail(q)
<1>1. /\ c \in Nat \ {0} /\ Words \in Nat /\ c \in Capacities
      /\ s \in Int /\ n \in 1 .. c /\ q \in Seq(Values)
  <2>1. /\ c \in Nat \ {0} /\ Words \in Nat
        /\ s \in Int /\ Len(q) \in 0 .. c
    BY SizeOf
  <2>2. c \in Capacities /\ q \in Seq(Values)
    BY DEF Holds
  <2>3. Len(q) # 0
    BY <2>2
  <2> QED
    BY <2>1, <2>2, <2>3
<1>2. s % c \in 0 .. (c - 1)
  BY <1>1, ModIs
<1>3. d \in Offsets /\ d \in Int /\ e = (d + (n - 1)) % Words
  <2> DEFINE a == s + 1
             k == n - 1
  <2>1. a \in Int /\ k \in Int /\ s + n = a + k /\ d = a % Words
    BY <1>1 DEF Inc
  <2>2. e = (s + n) % Words
    BY DEF Holds
  <2> HIDE DEF a, k, d, n
  <2>3. ((a % Words) + k) % Words = (a + k) % Words
    BY <2>1, WordsAdd
  <2>4. a % Words \in Offsets
    BY <1>1, <2>1, OffsetMod
  <2>5. d \in Int
    BY <1>1, <2>1, <2>4 DEF Offsets
  <2> QED
    BY <2>1, <2>2, <2>3, <2>4, <2>5 DEF k
<1>4. ASSUME NEW i \in 1 .. (n - 1)
      PROVE  (d + i - 1) % c = (s + (i + 1) - 1) % c
  <2> DEFINE a == s + 1
             k == i - 1
  <2>1. a \in Int /\ k \in Int /\ a + k = s + (i + 1) - 1 /\ d = a % Words
        /\ d + i - 1 = d + k
    BY <1>1, <1>3 DEF Inc
  <2> HIDE DEF a, n, k, d
  <2>2. ((a % Words) + k) % c = (a + k) % c
    BY <1>1, <2>1, OffsetAdd
  <2> QED
    BY <2>1, <2>2
<1>5. /\ qq \in Seq(Values) /\ Len(qq) = n - 1
      /\ \A i \in 1 .. (n - 1) : qq[i] = q[i + 1]
      /\ Head(q) = q[1] /\ q[1] \in Values
  BY <1>1
<1>6. b[s % c] = q[1]
  <2>1. 1 \in 1 .. n /\ s + 1 - 1 = s
    BY <1>1
  <2> QED
    BY <2>1 DEF Holds
<1>7. bb \in [0 .. (c - 1) -> Contained] /\ bb[s % c] = Raw
      /\ \A x \in 0 .. (c - 1) : x # s % c => bb[x] = b[x]
  BY <1>2 DEF Holds, Contained
<1>8. ASSUME NEW i \in 1 .. (n - 1) PROVE bb[(d + i - 1) % c] = qq[i]
  <2> DEFINE k == s + (i + 1) - 1
  <2>1. k \in Int /\ k # s /\ k - s < c /\ s - k < c
    BY <1>1
  <2>2. k % c # s % c
    BY <1>1, <2>1, SlotsApart
  <2>3. k % c \in 0 .. (c - 1)
    BY <1>1, <2>1, ModIs
  <2>4. b[k % c] = q[i + 1]
    <3>1. i + 1 \in 1 .. n
      BY <1>1
    <3> QED
      BY <3>1 DEF Holds
  <2>5. (d + i - 1) % c = k % c
    BY <1>4
  <2> HIDE DEF k, d
  <2> QED
    BY <1>5, <1>7, <2>2, <2>3, <2>4, <2>5
<1>9. ASSUME NEW x \in 0 .. (c - 1), bb[x] # Raw
      PROVE  \E i \in 1 .. (n - 1) : x = (d + i - 1) % c
  <2>1. x # s % c /\ b[x] # Raw
    BY <1>7, <1>9
  <2>2. PICK i \in 1 .. n : x = (s + i - 1) % c
    BY <2>1 DEF Holds
  <2>3. i # 1
    <3>1. s + 1 - 1 = s
      BY <1>1
    <3> QED
      BY <2>1, <2>2, <3>1
  <2>4. i - 1 \in 1 .. (n - 1) /\ (i - 1) + 1 = i
    BY <1>1, <2>3
  <2>5. (d + (i - 1) - 1) % c = (s + ((i - 1) + 1) - 1) % c
    BY <1>4, <2>4
  <2> QED
    BY <2>2, <2>4, <2>5
<1>10. e \in Offsets /\ n - 1 <= c
  BY <1>1 DEF Holds
<1> HIDE DEF n, bb, qq, d
<1>11. Holds(bb, c, d, e, qq)
  BY <1>1, <1>3, <1>5, <1>7, <1>8, <1>9, <1>10 DEF Holds
<1> QED
  BY <1>5, <1>6, <1>11 DEF bb, qq, d
------------------------------------------------------------------------------
(* What iterators visit.                                                   *)

LEMMA Visited ==
  ASSUME NEW S, NEW n \in Nat, NEW v \in S, NEW g, NEW h,
         g \in [1 .. (n + 1) -> S], h \in [1 .. n -> S], g[1] = v,
         \A i \in 1 .. n : g[i + 1] = h[i]
  PROVE  g = <<v>> \o h
<1>1. g \in Seq(S) /\ Len(g) = n + 1
  OBVIOUS
<1>2. h \in Seq(S) /\ Len(h) = n
  OBVIOUS
<1>3. <<v>> \in Seq(S) /\ Len(<<v>>) = 1 /\ <<v>>[1] = v
  OBVIOUS
<1> DEFINE w == <<v>>
<1> HIDE DEF w
<1>4. /\ w \o h \in Seq(S) /\ Len(w \o h) = n + 1
      /\ \A i \in 1 .. (n + 1) : (w \o h)[i] = IF i <= 1 THEN w[i] ELSE h[i - 1]
  <2>1. w \in Seq(S) /\ h \in Seq(S) /\ Len(w) = 1 /\ Len(w) + Len(h) = n + 1
    BY <1>2, <1>3 DEF w
  <2>2. /\ w \o h \in Seq(S) /\ Len(w \o h) = Len(w) + Len(h)
        /\ \A i \in 1 .. Len(w) + Len(h) :
             (w \o h)[i] = IF i <= Len(w) THEN w[i] ELSE h[i - Len(w)]
    BY <2>1, ConcatProperties
  <2> QED
    BY <2>1, <2>2
<1>5. ASSUME NEW i \in 1 .. (n + 1) PROVE g[i] = (w \o h)[i]
  <2>1. CASE i = 1
    BY <1>3, <1>4, <2>1 DEF w
  <2>2. CASE i # 1
    <3>1. i - 1 \in 1 .. n /\ (i - 1) + 1 = i /\ ~(i <= 1)
      BY <2>2
    <3> QED
      BY <1>4, <3>1
  <2> QED
    BY <2>1, <2>2
<1>6. g = w \o h
  BY <1>1, <1>4, <1>5, SeqEqual
<1> QED
  BY <1>6 DEF w

(* Where an iterator comes closer to its end with each step, a set with    *)
(* the end in it that is closed under steps backwards has all offsets.     *)
LEMMA EndIsReached ==
  ASSUME NEW D, NEW e, NEW succ \in [D -> D], NEW dist \in [D -> Nat], NEW S,
         \A x \in D : x # e => dist[succ[x]] < dist[x],
         e \in S, \A x \in D : x # e /\ succ[x] \in S => x \in S
  PROVE  \A x \in D : x \in S
<1> DEFINE T == {k \in Nat : \E x \in D : dist[x] = k /\ x \notin S}
<1>1. T = {}
  <2> SUFFICES ASSUME T # {} PROVE FALSE
    OBVIOUS
  <2>1. PICK k \in T : \A m \in T : k <= m
    <3>1. T \in SUBSET Nat
      OBVIOUS
    <3> HIDE DEF T
    <3> QED
      BY <3>1, LeastElement
  <2>2. PICK x \in D : dist[x] = k /\ x \notin S
    BY <2>1
  <2>3. succ[x] \in D /\ dist[succ[x]] \in Nat /\ dist[succ[x]] < k
    BY <2>2
  <2>4. succ[x] \notin S
    BY <2>2
  <2>5. dist[succ[x]] \in T
    BY <2>3, <2>4
  <2> HIDE DEF T
  <2>6. k <= dist[succ[x]] /\ k \in Nat
    BY <2>1, <2>2, <2>5
  <2> QED
    BY <2>3, <2>6
<1> QED
  BY <1>1

(* Words that wrap around, spelled out.                                    *)
LEMMA WordsBetween ==
  ASSUME NEW a \in Offsets, NEW b \in Offsets
  PROVE  (b - a) % Words = IF a <= b THEN b - a ELSE b - a + Words
<1>1. Words \in Nat \ {0} /\ a \in Int /\ b \in Int /\ b - a \in Int
  BY WordsAssumption DEF Offsets, IsPowerOf2
<1>2. CASE a <= b
  <2>1. b - a = Words * 0 + (b - a) /\ b - a \in 0 .. (Words - 1)
    BY <1>1, <1>2 DEF Offsets
  <2>2. (b - a) % Words = b - a
    BY <1>1, <2>1, ModUnique
  <2> QED
    BY <1>2, <2>2
<1>3. CASE ~(a <= b)
  <2> DEFINE d == b - a
             x == b - a + Words
  <2>1. d \in Int /\ d = Words * (-1) + x /\ x \in 0 .. (Words - 1) /\ -1 \in Int
    BY <1>1, <1>3 DEF Offsets
  <2> HIDE DEF d, x
  <2>2. d % Words = x
    BY <1>1, <2>1, ModUnique
  <2> QED
    BY <1>3, <2>2 DEF d, x
<1> QED
  BY <1>2, <1>3

LEMMA WordSteps ==
  ASSUME NEW a \in Offsets
  PROVE  /\ Inc(a) = IF a = Words - 1 THEN 0 ELSE a + 1
         /\ Dec(a) = IF a = 0 THEN Words - 1 ELSE a - 1
         /\ Inc(a) \in Offsets /\ Dec(a) \in Offsets
<1>1. Words \in Nat \ {0} /\ a \in Int
  BY WordsAssumption DEF Offsets, IsPowerOf2
<1>2. Inc(a) = IF a = Words - 1 THEN 0 ELSE a + 1
  <2> DEFINE d == a + 1
  <2>1. d \in Int /\ 0 \in 0 .. (Words - 1) /\ 1 \in Int /\ 0 \in Int
    BY <1>1
  <2>2. CASE a = Words - 1
    <3>1. d = Words * 1 + 0
      BY <1>1, <2>2
    <3> HIDE DEF d
    <3>2. d % Words = 0
      BY <1>1, <2>1, <3>1, ModUnique
    <3> QED
      BY <2>2, <3>2 DEF Inc, d
  <2>3. CASE a # Words - 1
    <3>1. d = Words * 0 + d /\ d \in 0 .. (Words - 1)
      BY <1>1, <2>3 DEF Offsets
    <3> HIDE DEF d
    <3>2. d % Words = d
      BY <1>1, <2>1, <3>1, ModUnique
    <3> QED
      BY <2>3, <3>2 DEF Inc, d
  <2> QED
    BY <2>2, <2>3
<1>3. Dec(a) = IF a = 0 THEN Words - 1 ELSE a - 1
  <2> DEFINE d == a - 1
             x == Words - 1
  <2>1. d \in Int /\ x \in 0 .. (Words - 1) /\ -1 \in Int /\ 0 \in Int
    BY <1>1
  <2>2. CASE a = 0
    <3>1. d = Words * (-1) + x
      BY <1>1, <2>2
    <3> HIDE DEF d, x
    <3>2. d % Words = x
      BY <1>1, <2>1, <3>1, ModUnique
    <3> QED
      BY <2>2, <3>2 DEF Dec, d, x
  <2>3. CASE a # 0
    <3>1. d = Words * 0 + d /\ d \in 0 .. (Words - 1)
      BY <1>1, <2>3 DEF Offsets
    <3> HIDE DEF d
    <3>2. d % Words = d
      BY <1>1, <2>1, <3>1, ModUnique
    <3> QED
      BY <2>3, <3>2 DEF Dec, d
  <2> QED
    BY <2>2, <2>3
<1> QED
  BY <1>1, <1>2, <1>3 DEF Offsets
BufferShape ==
  /\ capacity \in Capacities /\ start \in Offsets /\ end \in Offsets
  /\ buffer \in [0 .. (capacity - 1) -> Contained]

LEMMA ContentsAre ==
  BufferShape =>
    Contents = [i \in 1 .. Size |-> buffer[(start + i - 1) % capacity]]
<1> SUFFICES ASSUME BufferShape
             PROVE  Contents = [i \in 1 .. Size |-> buffer[(start + i - 1) % capacity]]
  OBVIOUS
<1> DEFINE D == 0 .. (Words - 1)
           dist == [x \in D |-> (end - x) % Words]
           succ == [x \in D |-> Inc(x)]
           val == [x \in D |-> buffer[Mod(x)]]
           g == [x \in D |-> [i \in 1 .. dist[x] |-> buffer[(x + i - 1) % capacity]]]
           Walk(f) == f = [x \in D |-> IF x = end THEN << >>
                                       ELSE <<Deref(x)>> \o f[Following(x)]]
<1>1. D = Offsets /\ end \in D /\ start \in D
  BY DEF BufferShape, Offsets
<1>2. dist \in [D -> Nat] /\ succ \in [D -> D] /\ val \in [D -> Contained]
      /\ \A x \in D : x # end => dist[x] = dist[succ[x]] + 1
  <2>1. ASSUME NEW x \in D
        PROVE  /\ (end - x) % Words \in Nat /\ Inc(x) \in D
               /\ x # end => (end - x) % Words = ((end - Inc(x)) % Words) + 1
    <3>1. /\ Inc(x) = IF x = Words - 1 THEN 0 ELSE x + 1
          /\ Inc(x) \in Offsets
      BY <1>1, WordSteps
    <3>2. /\ (end - x) % Words = IF x <= end THEN end - x ELSE end - x + Words
          /\ (end - Inc(x)) % Words =
               IF Inc(x) <= end THEN end - Inc(x) ELSE end - Inc(x) + Words
      BY <1>1, <3>1, WordsBetween
    <3> QED
      BY <1>1, <3>1, <3>2, WordsAssumption DEF Offsets
  <2>2. ASSUME NEW x \in D PROVE buffer[Mod(x)] \in Contained
    <3>1. x \in Int /\ capacity \in Capacities
      BY DEF BufferShape
    <3>2. x % capacity \in 0 .. (capacity - 1)
      BY <3>1, OffsetMod
    <3> QED
      BY <3>2 DEF BufferShape, Mod
  <2> QED
    BY <1>1, <2>1, <2>2
<1>3. ASSUME NEW x \in D
      PROVE  /\ g[x] \in [1 .. dist[x] -> Contained]
             /\ \A i \in 1 .. dist[x] : g[x][i] = buffer[(x + i - 1) % capacity]
  <2>1. ASSUME NEW i \in 1 .. dist[x]
        PROVE  buffer[(x + i - 1) % capacity] \in Contained
    <3> DEFINE y == x + i - 1
    <3>1. y \in Int /\ capacity \in Capacities
      BY <1>2 DEF BufferShape
    <3>2. y % capacity \in 0 .. (capacity - 1)
      BY <3>1, OffsetMod
    <3> QED
      BY <3>2 DEF BufferShape
  <2> QED
    BY <2>1
<1>4. ASSUME NEW x \in D, x # end PROVE g[x] = <<val[x]>> \o g[succ[x]]
  <2> DEFINE n == dist[succ[x]]
  <2>1. succ[x] \in D /\ n \in Nat /\ dist[x] = n + 1 /\ val[x] \in Contained
    BY <1>2, <1>4
  <2>2. /\ g[x] \in [1 .. n + 1 -> Contained]
        /\ g[succ[x]] \in [1 .. n -> Contained]
        /\ \A i \in 1 .. n + 1 : g[x][i] = buffer[(x + i - 1) % capacity]
        /\ \A i \in 1 .. n : g[succ[x]][i] = buffer[(succ[x] + i - 1) % capacity]
    <3> HIDE DEF g, dist, succ, D
    <3> QED
      BY <1>3, <2>1
  <2>3. g[x][1] = val[x]
    <3>1. 1 \in 1 .. n + 1 /\ x + 1 - 1 = x
      BY <2>1
    <3> HIDE DEF g
    <3> QED
      BY <2>2, <3>1 DEF Mod
  <2>4. ASSUME NEW i \in 1 .. n PROVE g[x][i + 1] = g[succ[x]][i]
    <3> DEFINE a == x + 1
               k == i - 1
    <3>1. a \in Int /\ k \in Int /\ succ[x] = a % Words
          /\ succ[x] + i - 1 = succ[x] + k /\ x + (i + 1) - 1 = a + k
          /\ i + 1 \in 1 .. n + 1 /\ capacity \in Capacities
      BY <2>1 DEF Inc, BufferShape
    <3> HIDE DEF a, k, g, succ, n
    <3>2. ((a % Words) + k) % capacity = (a + k) % capacity
      BY <3>1, OffsetAdd
    <3> QED
      BY <2>2, <3>1, <3>2
  <2> DEFINE gx == g[x]
             hx == g[succ[x]]
             v == val[x]
  <2>5. /\ n \in Nat /\ v \in Contained
        /\ gx \in [1 .. (n + 1) -> Contained] /\ hx \in [1 .. n -> Contained]
        /\ gx[1] = v /\ \A i \in 1 .. n : gx[i + 1] = hx[i]
    <3> HIDE DEF g, dist, succ, n, val
    <3> QED
      BY <2>1, <2>2, <2>3, <2>4
  <2> HIDE DEF gx, hx, v, n
  <2>6. gx = <<v>> \o hx
    BY <2>5, Visited
  <2> QED
    BY <2>6 DEF gx, hx, v
<1>5. g[end] = << >>
  <2> DEFINE k == dist[end]
  <2>1. g[end] \in [1 .. k -> Contained]
    <3> HIDE DEF g, dist, D
    <3> QED
      BY <1>1, <1>3
  <2>2. k = 0
    <3>1. end \in Offsets /\ end \in Int /\ end - end = 0 /\ end <= end
      BY <1>1 DEF Offsets
    <3>2. (end - end) % Words = 0
      BY <3>1, WordsBetween
    <3> QED
      BY <1>1, <3>2
  <2> HIDE DEF g, k
  <2> QED
    BY <2>1, <2>2
<1>6. g = [x \in D |-> IF x = end THEN << >> ELSE <<val[x]>> \o g[succ[x]]]
  <2>1. DOMAIN g = D /\ g = [x \in D |-> g[x]]
    OBVIOUS
  <2> HIDE DEF g, val, succ, dist, D
  <2> QED
    BY <1>4, <1>5, <2>1
<1>7. \A f : Walk(f) <=>
        f = [x \in D |-> IF x = end THEN << >> ELSE <<val[x]>> \o f[succ[x]]]
  BY DEF Deref, Following
<1>8. Walk(g)
  <2> HIDE DEF g, Walk, val, succ
  <2> QED
    BY <1>6, <1>7
<1>9. \A f : Walk(f) => f = g
  <2> SUFFICES ASSUME NEW f, Walk(f) PROVE f = g
    OBVIOUS
  <2>1. f = [x \in D |-> IF x = end THEN << >> ELSE <<val[x]>> \o f[succ[x]]]
    <3> HIDE DEF Walk, val, succ
    <3> QED
      BY <1>7
  <2>2. /\ dist \in [D -> Nat] /\ succ \in [D -> D]
        /\ \A x \in D : x # end => dist[succ[x]] < dist[x]
    <3> HIDE DEF dist, succ
    <3> QED
      BY <1>2
  <2>3. g = [x \in D |-> g[x]]
    OBVIOUS
  <2> HIDE DEF g, val, succ, dist, Walk, D
  <2>4. /\ \A x \in D :
             f[x] = IF x = end THEN << >> ELSE <<val[x]>> \o f[succ[x]]
        /\ \A x \in D :
             g[x] = IF x = end THEN << >> ELSE <<val[x]>> \o g[succ[x]]
    BY <1>6, <2>1
  <2> DEFINE S == {x \in D : f[x] = g[x]}
  <2>5. end \in S /\ \A x \in D : x # end /\ succ[x] \in S => x \in S
    BY <1>1, <2>4
  <2> HIDE DEF S
  <2>6. \A x \in D : x \in S
    BY <2>2, <2>5, EndIsReached
  <2> QED
    BY <2>1, <2>3, <2>6 DEF S
<1>10. Contents = (CHOOSE f : Walk(f))[start]
  BY DEF Contents
<1>11. (CHOOSE f : Walk(f)) = g
  <2> HIDE DEF Walk, g
  <2> QED
    BY <1>8, <1>9
<1>12. Contents = g[start]
  <2> HIDE DEF Walk, g
  <2> QED
    BY <1>10, <1>11
<1> QED
  BY <1>1, <1>12 DEF Size
LEMMA BackwardsAre ==
  BufferShape =>
    ContentsBackwards = [i \in 1 .. Size |-> buffer[(end - i) % capacity]]
<1> SUFFICES ASSUME BufferShape
             PROVE  ContentsBackwards
                      = [i \in 1 .. Size |-> buffer[(end - i) % capacity]]
  OBVIOUS
<1> DEFINE D == 0 .. (Words - 1)
           dist == [x \in D |-> (x - start) % Words]
           succ == [x \in D |-> Dec(x)]
           val == [x \in D |-> buffer[Mod(Dec(x))]]
           g == [x \in D |-> [i \in 1 .. dist[x] |-> buffer[(x - i) % capacity]]]
           Walk(f) == f = [x \in D |-> IF x = start THEN << >>
                                       ELSE <<Deref(Previous(x))>> \o f[Previous(x)]]
<1>1. D = Offsets /\ end \in D /\ start \in D
  BY DEF BufferShape, Offsets
<1>2. dist \in [D -> Nat] /\ succ \in [D -> D] /\ val \in [D -> Contained]
      /\ \A x \in D : x # start => dist[x] = dist[succ[x]] + 1
  <2>1. ASSUME NEW x \in D
        PROVE  /\ (x - start) % Words \in Nat /\ Dec(x) \in D
               /\ x # start => (x - start) % Words = ((Dec(x) - start) % Words) + 1
    <3>1. /\ Dec(x) = IF x = 0 THEN Words - 1 ELSE x - 1
          /\ Dec(x) \in Offsets
      BY <1>1, WordSteps
    <3>2. /\ (x - start) % Words = IF start <= x THEN x - start ELSE x - start + Words
          /\ (Dec(x) - start) % Words =
               IF start <= Dec(x) THEN Dec(x) - start ELSE Dec(x) - start + Words
      BY <1>1, <3>1, WordsBetween
    <3> QED
      BY <1>1, <3>1, <3>2, WordsAssumption DEF Offsets
  <2>2. ASSUME NEW x \in D PROVE buffer[Mod(Dec(x))] \in Contained
    <3> DEFINE y == Dec(x)
    <3>1. y \in Int /\ capacity \in Capacities
      BY <2>1 DEF BufferShape
    <3> HIDE DEF y
    <3>2. y % capacity \in 0 .. (capacity - 1)
      BY <3>1, OffsetMod
    <3> QED
      BY <3>2 DEF BufferShape, Mod, y
  <2> QED
    BY <1>1, <2>1, <2>2
<1>3. ASSUME NEW x \in D
      PROVE  /\ g[x] \in [1 .. dist[x] -> Contained]
             /\ \A i \in 1 .. dist[x] : g[x][i] = buffer[(x - i) % capacity]
  <2>1. ASSUME NEW i \in 1 .. dist[x]
        PROVE  buffer[(x - i) % capacity] \in Contained
    <3> DEFINE y == x - i
    <3>1. y \in Int /\ capacity \in Capacities
      BY <1>2 DEF BufferShape
    <3>2. y % capacity \in 0 .. (capacity - 1)
      BY <3>1, OffsetMod
    <3> QED
      BY <3>2 DEF BufferShape
  <2> QED
    BY <2>1
<1>4. ASSUME NEW x \in D, x # start PROVE g[x] = <<val[x]>> \o g[succ[x]]
  <2> DEFINE n == dist[succ[x]]
  <2>1. succ[x] \in D /\ n \in Nat /\ dist[x] = n + 1 /\ val[x] \in Contained
    BY <1>2, <1>4
  <2>2. /\ g[x] \in [1 .. n + 1 -> Contained]
        /\ g[succ[x]] \in [1 .. n -> Contained]
        /\ \A i \in 1 .. n + 1 : g[x][i] = buffer[(x - i) % capacity]
        /\ \A i \in 1 .. n : g[succ[x]][i] = buffer[(succ[x] - i) % capacity]
    <3> HIDE DEF g, dist, succ, D
    <3> QED
      BY <1>3, <2>1
  <2>3. ASSUME NEW d \in Int
        PROVE  (succ[x] + d) % capacity = (x - 1 + d) % capacity
    <3> DEFINE a == x - 1
    <3>1. a \in Int /\ capacity \in Capacities /\ succ[x] = a % Words
      BY DEF Dec, BufferShape
    <3> HIDE DEF a, succ
    <3>2. ((a % Words) + d) % capacity = (a + d) % capacity
      BY <3>1, OffsetAdd
    <3> QED
      BY <3>1, <3>2 DEF a
  <2>4. g[x][1] = val[x]
    <3>1. 1 \in 1 .. n + 1
      BY <2>1
    <3>2. succ[x] % capacity = (x - 1) % capacity
      <4> DEFINE z == 0
      <4>1. z \in Int /\ succ[x] + z = succ[x] /\ x - 1 + z = x - 1
        BY <2>1
      <4> HIDE DEF succ, z
      <4>2. (succ[x] + z) % capacity = (x - 1 + z) % capacity
        BY <2>3, <4>1
      <4> QED
        BY <4>1, <4>2
    <3>3. val[x] = buffer[succ[x] % capacity]
      BY DEF Mod
    <3> HIDE DEF g, val, succ, n
    <3> QED
      BY <2>2, <3>1, <3>2, <3>3
  <2>5. ASSUME NEW i \in 1 .. n PROVE g[x][i + 1] = g[succ[x]][i]
    <3> DEFINE k == -i
    <3>1. k \in Int /\ succ[x] - i = succ[x] + k /\ x - (i + 1) = x - 1 + k
          /\ i + 1 \in 1 .. n + 1
      BY <2>1
    <3> HIDE DEF k, g, succ, n
    <3>2. (succ[x] + k) % capacity = (x - 1 + k) % capacity
      BY <2>3, <3>1
    <3> QED
      BY <2>2, <3>1, <3>2
  <2> DEFINE gx == g[x]
             hx == g[succ[x]]
             v == val[x]
  <2>6. /\ n \in Nat /\ v \in Contained
        /\ gx \in [1 .. (n + 1) -> Contained] /\ hx \in [1 .. n -> Contained]
        /\ gx[1] = v /\ \A i \in 1 .. n : gx[i + 1] = hx[i]
    <3> HIDE DEF g, dist, succ, n, val
    <3> QED
      BY <2>1, <2>2, <2>4, <2>5
  <2> HIDE DEF gx, hx, v, n
  <2>7. gx = <<v>> \o hx
    BY <2>6, Visited
  <2> QED
    BY <2>7 DEF gx, hx, v
<1>5. g[start] = << >>
  <2> DEFINE k == dist[start]
  <2>1. g[start] \in [1 .. k -> Contained]
    <3> HIDE DEF g, dist, D
    <3> QED
      BY <1>1, <1>3
  <2>2. k = 0
    <3>1. start \in Offsets /\ start \in Int /\ start - start = 0 /\ start <= start
      BY <1>1 DEF Offsets
    <3>2. (start - start) % Words = 0
      BY <3>1, WordsBetween
    <3> QED
      BY <1>1, <3>2
  <2> HIDE DEF g, k
  <2> QED
    BY <2>1, <2>2
<1>6. g = [x \in D |-> IF x = start THEN << >> ELSE <<val[x]>> \o g[succ[x]]]
  <2>1. DOMAIN g = D /\ g = [x \in D |-> g[x]]
    OBVIOUS
  <2> HIDE DEF g, val, succ, dist, D
  <2> QED
    BY <1>4, <1>5, <2>1
<1>7. \A f : Walk(f) <=>
        f = [x \in D |-> IF x = start THEN << >> ELSE <<val[x]>> \o f[succ[x]]]
  BY DEF Deref, Previous
<1>8. Walk(g)
  <2> HIDE DEF g, Walk, val, succ
  <2> QED
    BY <1>6, <1>7
<1>9. \A f : Walk(f) => f = g
  <2> SUFFICES ASSUME NEW f, Walk(f) PROVE f = g
    OBVIOUS
  <2>1. f = [x \in D |-> IF x = start THEN << >> ELSE <<val[x]>> \o f[succ[x]]]
    <3> HIDE DEF Walk, val, succ
    <3> QED
      BY <1>7
  <2>2. /\ dist \in [D -> Nat] /\ succ \in [D -> D]
        /\ \A x \in D : x # start => dist[succ[x]] < dist[x]
    <3> HIDE DEF dist, succ
    <3> QED
      BY <1>2
  <2>3. g = [x \in D |-> g[x]]
    OBVIOUS
  <2> HIDE DEF g, val, succ, dist, Walk, D
  <2>4. /\ \A x \in D :
             f[x] = IF x = start THEN << >> ELSE <<val[x]>> \o f[succ[x]]
        /\ \A x \in D :
             g[x] = IF x = start THEN << >> ELSE <<val[x]>> \o g[succ[x]]
    BY <1>6, <2>1
  <2> DEFINE S == {x \in D : f[x] = g[x]}
  <2>5. start \in S /\ \A x \in D : x # start /\ succ[x] \in S => x \in S
    BY <1>1, <2>4
  <2> HIDE DEF S
  <2>6. \A x \in D : x \in S
    BY <2>2, <2>5, EndIsReached
  <2> QED
    BY <2>1, <2>3, <2>6 DEF S
<1>10. ContentsBackwards = (CHOOSE f : Walk(f))[end]
  BY DEF ContentsBackwards
<1>11. (CHOOSE f : Walk(f)) = g
  <2> HIDE DEF Walk, g
  <2> QED
    BY <1>8, <1>9
<1>12. ContentsBackwards = g[end]
  <2> HIDE DEF Walk, g
  <2> QED
    BY <1>10, <1>11
<1> QED
  BY <1>1, <1>12 DEF Size
------------------------------------------------------------------------------
(* The circular buffer: its invariant.                                     *)

BufferHolds(q) == Holds(buffer, capacity, start, end, q)

BufferInv == TypeOK /\ (~overfull => \E q : BufferHolds(q))

(* What the buffer holds is what an iterator visits.                       *)
LEMMA HoldsContents ==
  \A q : BufferHolds(q) =>
    /\ Contents = q /\ Size = Len(q) /\ BufferShape
    /\ q \in Seq(Values)
<1> SUFFICES ASSUME NEW q, BufferHolds(q)
             PROVE  /\ Contents = q /\ Size = Len(q) /\ BufferShape
                    /\ q \in Seq(Values)
  OBVIOUS
<1>1. BufferShape /\ q \in Seq(Values)
  BY DEF BufferHolds, Holds, BufferShape
<1>2. Size = Len(q)
  BY SizeOf DEF BufferHolds, Size
<1>3. Contents = [i \in 1 .. Len(q) |-> buffer[(start + i - 1) % capacity]]
  BY <1>1, <1>2, ContentsAre
<1>4. \A i \in 1 .. Len(q) : buffer[(start + i - 1) % capacity] = q[i]
  BY DEF BufferHolds, Holds
<1>5. Contents = [i \in 1 .. Len(q) |-> q[i]]
  BY <1>3, <1>4
<1>6. q = [i \in 1 .. Len(q) |-> q[i]]
  BY <1>1
<1> QED
  BY <1>1, <1>2, <1>5, <1>6

HoldsWhatItVisits == \A q : BufferHolds(q) => Contents = q

LEMMA ContentsHeld == HoldsWhatItVisits
BY HoldsContents DEF HoldsWhatItVisits

(* The iterators agree wherever the ends are words.                        *)
LEMMA HoldsState ==
  ASSUME NEW q, BufferHolds(q)
  PROVE  ObjectsAreElements /\ IteratorsAgree
<1> DEFINE n == Len(q)
<1>1. /\ Contents = q /\ Size = n /\ BufferShape /\ q \in Seq(Values)
  BY HoldsContents
<1>2. /\ capacity \in Nat \ {0} /\ capacity \in Capacities /\ start \in Int
      /\ n \in 0 .. capacity /\ end = (start + n) % Words
      /\ buffer \in [0 .. (capacity - 1) -> Contained]
      /\ \A i \in 1 .. n : buffer[(start + i - 1) % capacity] = q[i]
      /\ \A x \in 0 .. (capacity - 1) : buffer[x] # Raw =>
           \E i \in 1 .. n : x = (start + i - 1) % capacity
  <2>1. Holds(buffer, capacity, start, end, q)
    BY DEF BufferHolds
  <2>2. /\ capacity \in Nat \ {0} /\ start \in Int /\ Len(q) \in 0 .. capacity
    BY <2>1, SizeOf
  <2>3. /\ capacity \in Capacities /\ end = (start + n) % Words
        /\ buffer \in [0 .. (capacity - 1) -> Contained]
        /\ \A i \in 1 .. n : buffer[(start + i - 1) % capacity] = q[i]
        /\ \A x \in 0 .. (capacity - 1) : buffer[x] # Raw =>
             \E i \in 1 .. n : x = (start + i - 1) % capacity
    BY <2>1 DEF Holds
  <2> QED
    BY <2>2, <2>3
<1>3. \A a \in Int : /\ a % capacity \in 0 .. (capacity - 1)
                     /\ (a % Words) % capacity = a % capacity
  BY <1>2, OffsetMod
<1>4. {x \in DOMAIN buffer : buffer[x] # Raw} = {Mod(start + i) : i \in 0 .. (Size - 1)}
  <2>1. ASSUME NEW x \in DOMAIN buffer, buffer[x] # Raw
        PROVE  \E i \in 0 .. (Size - 1) : x = Mod(start + i)
    <3>1. PICK i \in 1 .. n : x = (start + i - 1) % capacity
      BY <1>2, <2>1
    <3>2. i - 1 \in 0 .. (Size - 1) /\ start + (i - 1) = start + i - 1
      BY <1>1, <1>2
    <3> QED
      BY <3>1, <3>2 DEF Mod
  <2>2. ASSUME NEW i \in 0 .. (Size - 1)
        PROVE  Mod(start + i) \in DOMAIN buffer /\ buffer[Mod(start + i)] # Raw
    <3>1. i + 1 \in 1 .. n /\ start + (i + 1) - 1 = start + i /\ start + i \in Int
      BY <1>1, <1>2
    <3>2. (start + i) % capacity \in 0 .. (capacity - 1)
      BY <1>3, <3>1
    <3>3. buffer[(start + i) % capacity] = q[i + 1] /\ q[i + 1] \in Values
      BY <1>1, <1>2, <3>1
    <3> QED
      BY <1>2, <3>2, <3>3, ElementAssumption DEF Mod
  <2> QED
    BY <2>1, <2>2
<1>5. ObjectsAreElements
  BY <1>1, <1>2, <1>4 DEF ObjectsAreElements
<1>6. ContentsBackwards = Reverse(Contents)
  <2>1. ContentsBackwards = [i \in 1 .. n |-> buffer[(end - i) % capacity]]
    BY <1>1, BackwardsAre
  <2>2. ASSUME NEW i \in 1 .. n
        PROVE  buffer[(end - i) % capacity] = q[(n - i) + 1]
    <3> DEFINE a == start + n
               k == -i
               j == (n - i) + 1
    <3>1. /\ a \in Int /\ k \in Int /\ end = a % Words /\ end - i = end + k
          /\ j \in 1 .. n /\ a + k = start + j - 1
      BY <1>2
    <3> HIDE DEF a, k, j
    <3>2. ((a % Words) + k) % capacity = (a + k) % capacity
      BY <1>2, <3>1, OffsetAdd
    <3>3. buffer[(start + j - 1) % capacity] = q[j]
      BY <1>2, <3>1
    <3> QED
      BY <3>1, <3>2, <3>3 DEF j
  <2>3. Reverse(Contents) = [i \in 1 .. n |-> q[(n - i) + 1]]
    BY <1>1 DEF Reverse
  <2> QED
    BY <2>1, <2>2, <2>3
<1>7. ASSUME NEW i \in 1 .. Size PROVE Contents[i] = Subscript(start, i - 1)
  <2>1. start + (i - 1) \in Int /\ start + (i - 1) = start + i - 1 /\ i \in 1 .. n
    BY <1>1, <1>2
  <2>2. ((start + (i - 1)) % Words) % capacity = (start + i - 1) % capacity
    BY <1>3, <2>1
  <2> QED
    BY <1>1, <1>2, <2>1, <2>2 DEF Subscript, Deref, Mod
<1>8. IteratorsAgree
  BY <1>6, <1>7 DEF IteratorsAgree
<1> QED
  BY <1>5, <1>8
(* A larger buffer holds what the old one held, from its first slot on.    *)
LEMMA GrownHolds ==
  ASSUME NEW q, BufferHolds(q), 2 * capacity <= MaxCapacity
  PROVE  Holds(Grown, 2 * capacity, 0, Size, q)
<1> DEFINE n == Len(q)
           c == 2 * capacity
<1>1. Contents = q /\ Size = n /\ BufferShape /\ q \in Seq(Values)
  BY HoldsContents
<1>2. capacity \in Nat \ {0} /\ Words \in Nat /\ n \in 0 .. capacity
      /\ 2 * capacity <= Words
  BY SizeOf DEF BufferHolds
<1>3. c \in Capacities /\ c \in Nat \ {0} /\ capacity <= c - 1
  BY <1>1, <1>2, CapacityIs DEF BufferShape
<1>4. 0 \in Offsets /\ n \in Offsets /\ n \in Int /\ n <= c
  BY <1>2 DEF Offsets
<1>5. n = (0 + n) % Words
  <2>1. 0 + n = n /\ 0 \in Int
    BY <1>4
  <2> HIDE DEF n
  <2>2. n % Words = n
    BY <1>4, <2>1, WordsAdd
  <2> QED
    BY <2>1, <2>2
<1>6. \A x \in 0 .. (c - 1) : x % c = x
  <2> SUFFICES ASSUME NEW x \in 0 .. (c - 1) PROVE x % c = x
    OBVIOUS
  <2>1. x = c * 0 + x /\ x \in Int /\ 0 \in Int
    BY <1>2
  <2> HIDE DEF c
  <2> QED
    BY <1>3, <2>1, ModUnique
<1>7. Grown = [x \in 0 .. (c - 1) |-> IF x < n THEN q[x + 1] ELSE Raw]
  BY <1>1 DEF Grown
<1>8. Grown \in [0 .. (c - 1) -> Contained]
  <2>1. ASSUME NEW x \in 0 .. (c - 1), x < n PROVE q[x + 1] \in Contained
    <3>1. x + 1 \in 1 .. n
      BY <1>2, <2>1
    <3> QED
      BY <1>1, <3>1 DEF Contained
  <2> QED
    BY <1>7, <2>1 DEF Contained
<1>9. ASSUME NEW i \in 1 .. n PROVE Grown[(0 + i - 1) % c] = q[i]
  <2>1. i - 1 \in 0 .. (c - 1) /\ 0 + i - 1 = i - 1 /\ i - 1 < n /\ (i - 1) + 1 = i
    BY <1>2
  <2> HIDE DEF c, n
  <2>2. (0 + i - 1) % c = i - 1
    BY <1>6, <2>1
  <2> QED
    BY <1>7, <2>1, <2>2
<1>10. ASSUME NEW x \in 0 .. (c - 1), Grown[x] # Raw
       PROVE  \E i \in 1 .. n : x = (0 + i - 1) % c
  <2>1. x < n
    BY <1>7, <1>10
  <2>2. x + 1 \in 1 .. n /\ 0 + (x + 1) - 1 = x
    BY <1>2, <2>1
  <2> QED
    BY <1>6, <2>2
<1> HIDE DEF c, n
<1>11. Holds(Grown, c, 0, n, q)
  BY <1>1, <1>3, <1>4, <1>5, <1>8, <1>9, <1>10 DEF Holds, n
<1> QED
  BY <1>1, <1>11 DEF c

(* A push has room, unless it finds a full buffer that does not grow.      *)
LEMMA RoomHolds ==
  ASSUME NEW q, BufferHolds(q), Room.capacity <= MaxCapacity,
         ~(Size = capacity /\ ~NeedsGrow)
  PROVE  /\ Holds(Room.buffer, Room.capacity, Room.start, Room.end, q)
         /\ Len(q) < Room.capacity
<1>1. Size = Len(q) /\ capacity \in Nat \ {0} /\ Len(q) \in 0 .. capacity
  BY HoldsContents, SizeOf DEF BufferHolds
<1>2. CASE NeedsGrow
  <2>1. /\ Room.capacity = 2 * capacity /\ Room.buffer = Grown
        /\ Room.start = 0 /\ Room.end = Size
    BY <1>2 DEF Room, GrownFields, GrownStart
  <2> QED
    BY <1>1, <2>1, GrownHolds
<1>3. CASE ~NeedsGrow
  <2>1. /\ Room.capacity = capacity /\ Room.buffer = buffer
        /\ Room.start = start /\ Room.end = end
    BY <1>3 DEF Room, Fields
  <2> QED
    BY <1>1, <1>3, <2>1 DEF BufferHolds
<1> QED
  BY <1>2, <1>3

LEMMA PushBackHolds ==
  ASSUME NEW q, BufferHolds(q), NEW v \in Values, PushBack(v), ~overfull'
  PROVE  BufferHolds(Append(q, v))'
<1> DEFINE b == Room.buffer
           c == Room.capacity
           s == Room.start
           e == Room.end
<1>1. /\ c <= MaxCapacity /\ ~(Size = capacity /\ ~NeedsGrow)
      /\ buffer' = [b EXCEPT ![e % c] = v] /\ capacity' = c
      /\ start' = s /\ end' = Inc(e)
  BY DEF PushBack, Push, Pushed
<1>2. Holds(b, c, s, e, q) /\ Len(q) < c
  BY <1>1, RoomHolds
<1> HIDE DEF b, c, s, e
<1>3. Holds([b EXCEPT ![e % c] = v], c, s, Inc(e), Append(q, v))
  BY <1>2, PushedBack
<1>4. Holds(buffer', capacity', start', end', Append(q, v))
  BY <1>1, <1>3
<1> QED
  BY <1>4 DEF BufferHolds, Holds, Capacities, Offsets, Contained, IsPowerOf2

LEMMA PushFrontHolds ==
  ASSUME NEW q, BufferHolds(q), NEW v \in Values, PushFront(v), ~overfull'
  PROVE  BufferHolds(<<v>> \o q)'
<1> DEFINE b == Room.buffer
           c == Room.capacity
           s == Room.start
           e == Room.end
<1>1. /\ c <= MaxCapacity /\ ~(Size = capacity /\ ~NeedsGrow)
      /\ buffer' = [b EXCEPT ![Dec(s) % c] = v] /\ capacity' = c
      /\ start' = Dec(s) /\ end' = e
  BY DEF PushFront, Push, Pushed
<1>2. Holds(b, c, s, e, q) /\ Len(q) < c
  BY <1>1, RoomHolds
<1> HIDE DEF b, c, s, e
<1>3. Holds([b EXCEPT ![Dec(s) % c] = v], c, Dec(s), e, <<v>> \o q)
  BY <1>2, PushedFront
<1>4. Holds(buffer', capacity', start', end', <<v>> \o q)
  BY <1>1, <1>3
<1> QED
  BY <1>4 DEF BufferHolds, Holds, Capacities, Offsets, Contained, IsPowerOf2

LEMMA PopBackHolds ==
  ASSUME NEW q, BufferHolds(q), PopBack
  PROVE  /\ q # << >> /\ result' = Last(q) /\ Last(q) \in Values
         /\ BufferHolds(Front(q))'
<1>1. /\ buffer' = [buffer EXCEPT ![Dec(end) % capacity] = Raw]
      /\ result' = buffer[Dec(end) % capacity] /\ start # end
      /\ end' = Dec(end) /\ start' = start /\ capacity' = capacity
  BY DEF PopBack, Cleared, Mod
<1>2. q # << >>
  <2> SUFFICES ASSUME q = << >> PROVE FALSE
    OBVIOUS
  <2>1. end = (start + 0) % Words /\ start \in Offsets /\ start \in Int
    BY SizeOf DEF BufferHolds, Holds
  <2> QED
    BY <1>1, <2>1, WordsAdd
<1>3. Holds(buffer, capacity, start, end, q)
  BY DEF BufferHolds
<1>4. /\ buffer[Dec(end) % capacity] = Last(q) /\ Last(q) \in Values
      /\ Holds([buffer EXCEPT ![Dec(end) % capacity] = Raw], capacity, start,
               Dec(end), Front(q))
  BY <1>2, <1>3, PoppedBack
<1>5. Holds(buffer', capacity', start', end', Front(q))
  BY <1>1, <1>4
<1> QED
  BY <1>1, <1>2, <1>4, <1>5
     DEF BufferHolds, Holds, Capacities, Offsets, Contained, IsPowerOf2

LEMMA PopFrontHolds ==
  ASSUME NEW q, BufferHolds(q), PopFront
  PROVE  /\ q # << >> /\ result' = Head(q) /\ Head(q) \in Values
         /\ BufferHolds(Tail(q))'
<1>1. /\ buffer' = [buffer EXCEPT ![start % capacity] = Raw]
      /\ result' = buffer[start % capacity] /\ start # end
      /\ start' = Inc(start) /\ end' = end /\ capacity' = capacity
  BY DEF PopFront, Cleared, Mod
<1>2. q # << >>
  <2> SUFFICES ASSUME q = << >> PROVE FALSE
    OBVIOUS
  <2>1. end = (start + 0) % Words /\ start \in Offsets /\ start \in Int
    BY SizeOf DEF BufferHolds, Holds
  <2> QED
    BY <1>1, <2>1, WordsAdd
<1>3. Holds(buffer, capacity, start, end, q)
  BY DEF BufferHolds
<1>4. /\ buffer[start % capacity] = Head(q) /\ Head(q) \in Values
      /\ Holds([buffer EXCEPT ![start % capacity] = Raw], capacity, Inc(start),
               end, Tail(q))
  BY <1>2, <1>3, PoppedFront
<1>5. Holds(buffer', capacity', start', end', Tail(q))
  BY <1>1, <1>4
<1> QED
  BY <1>1, <1>2, <1>4, <1>5
     DEF BufferHolds, Holds, Capacities, Offsets, Contained, IsPowerOf2
LEMMA BufferInit == Init => BufferInv
<1> SUFFICES ASSUME Init PROVE BufferInv
  OBVIOUS
<1> DEFINE q == << >>
<1>1. q \in Seq(Values) /\ Len(q) = 0
  OBVIOUS
<1>2. /\ capacity \in Capacities /\ capacity \in Nat \ {0}
      /\ FirstOffset \in Offsets /\ FirstOffset \in Int /\ 0 \in Int
  <2>1. capacity \in Capacities
    BY DEF Init
  <2> QED
    BY <2>1, CapacityIs, WordsAssumption DEF Offsets
<1>3. FirstOffset = (FirstOffset + 0) % Words
  <2>1. FirstOffset % Words = FirstOffset
    BY <1>2, WordsAdd
  <2> QED
    BY <1>2, <2>1
<1>4. BufferHolds(q)
  <2> HIDE DEF q
  <2> QED
    BY <1>1, <1>2, <1>3 DEF Init, BufferHolds, Holds, Contained
<1>5. TypeOK
  BY <1>2 DEF Init, TypeOK, Offsets
<1> QED
  BY <1>4, <1>5 DEF BufferInv

LEMMA NextBufferInv == BufferInv /\ [Next]_vars => BufferInv'
<1> SUFFICES ASSUME BufferInv, [Next]_vars PROVE BufferInv'
  OBVIOUS
<1>1. CASE UNCHANGED vars
  <2>1. (\E q : BufferHolds(q)) => (\E q : BufferHolds(q))'
    BY <1>1 DEF vars, BufferHolds, Holds, Capacities, Offsets, Contained
  <2>2. TypeOK' /\ overfull' = overfull
    BY <1>1 DEF BufferInv, TypeOK, vars, Capacities
  <2> QED
    BY <2>1, <2>2 DEF BufferInv
<1>2. CASE Next
  <2>1. PICK q : BufferHolds(q)
    <3>1. ~overfull
      BY <1>2 DEF Next, PushBack, PushFront, Push, PopBack, PopFront, PopNothing,
         Usable
    <3> QED
      BY <3>1 DEF BufferInv
  <2>2. TypeOK
    BY DEF BufferInv
  <2>3. ~overfull' => \E p : BufferHolds(p)'
    <3> SUFFICES ASSUME ~overfull' PROVE \E p : BufferHolds(p)'
      OBVIOUS
    <3>1. ASSUME NEW v \in Values, PushBack(v) PROVE BufferHolds(Append(q, v))'
      BY <2>1, <3>1, PushBackHolds
    <3>2. ASSUME NEW v \in Values, PushFront(v) PROVE BufferHolds(<<v>> \o q)'
      BY <2>1, <3>2, PushFrontHolds
    <3>3. CASE PopBack
      BY <2>1, <3>3, PopBackHolds
    <3>4. CASE PopFront
      BY <2>1, <3>4, PopFrontHolds
    <3>5. CASE PopNothing
      <4>1. BufferHolds(q)'
        BY <2>1, <3>5 DEF PopNothing, BufferHolds, Holds, Capacities, Offsets,
           Contained
      <4> QED
        BY <4>1
    <3> QED
      BY <1>2, <3>1, <3>2, <3>3, <3>4, <3>5 DEF Next
  <2>4. result' \in Values \cup {NoElement} /\ overfull' \in BOOLEAN
    <3>1. ASSUME NEW v \in Values, PushBack(v) \/ PushFront(v)
          PROVE  result' = result /\ overfull' \in BOOLEAN
      BY <2>2, <3>1 DEF PushBack, PushFront, Push, TypeOK
    <3>2. CASE PopBack
      BY <2>1, <2>2, <3>2, PopBackHolds DEF TypeOK, PopBack
    <3>3. CASE PopFront
      BY <2>1, <2>2, <3>3, PopFrontHolds DEF TypeOK, PopFront
    <3>4. CASE PopNothing
      BY <2>2, <3>4 DEF TypeOK, PopNothing
    <3> QED
      BY <1>2, <2>2, <3>1, <3>2, <3>3, <3>4 DEF Next, TypeOK
  <2>5. CASE ~overfull'
    <3>1. PICK p : BufferHolds(p)'
      BY <2>3, <2>5
    <3>2. TypeOK'
      BY <2>4, <3>1 DEF TypeOK, BufferHolds, Holds, Offsets, Contained
    <3> QED
      BY <3>1, <3>2 DEF BufferInv
  <2>6. CASE overfull'
    <3>1. PICK v \in Values : PushBack(v) \/ PushFront(v)
      <4>1. ~overfull
        BY <1>2 DEF Next, PushBack, PushFront, Push, PopBack, PopFront, PopNothing,
           Usable
      <4> QED
        BY <1>2, <2>6, <4>1 DEF Next, PopBack, PopFront, PopNothing
    <3>2. ~NeedsGrow /\ capacity' = capacity
      BY <2>6, <3>1 DEF PushBack, PushFront, Push, Usable, Room, Fields
    <3>3. /\ Inc(end) \in Offsets /\ Dec(start) \in Offsets
          /\ capacity \in Nat \ {0}
      <4>1. end \in Offsets /\ start \in Offsets /\ capacity \in Capacities
        BY <2>2 DEF TypeOK, Offsets
      <4> QED
        BY <4>1, WordSteps, CapacityIs
    <3>4. /\ start' \in Offsets /\ end' \in Offsets
          /\ \E x \in Int : buffer' = [buffer EXCEPT ![x % capacity] = v]
      <4>1. end \in Int /\ Dec(start) \in Int /\ start \in Offsets /\ end \in Offsets
        BY <2>2, <3>3 DEF TypeOK, Offsets
      <4>2. CASE PushBack(v)
        BY <3>2, <3>3, <4>1, <4>2 DEF PushBack, Pushed, Room, Fields
      <4>3. CASE PushFront(v)
        BY <3>2, <3>3, <4>1, <4>3 DEF PushFront, Pushed, Room, Fields
      <4> QED
        BY <3>1, <4>2, <4>3
    <3>5. buffer' \in [0 .. (capacity' - 1) -> Values \cup {Raw}]
      <4>1. PICK x \in Int : buffer' = [buffer EXCEPT ![x % capacity] = v]
        BY <3>4
      <4>2. x % capacity \in 0 .. (capacity - 1)
        BY <3>3, ModIs
      <4> QED
        BY <2>2, <3>2, <4>1, <4>2 DEF TypeOK
    <3>6. TypeOK'
      BY <2>2, <2>4, <3>2, <3>4, <3>5 DEF TypeOK, Offsets, Capacities
    <3> QED
      BY <2>6, <3>6 DEF BufferInv
  <2> QED
    BY <2>4, <2>5, <2>6
<1> QED
  BY <1>1, <1>2

LEMMA BufferInvariant == PartSpec => []BufferInv
<1>1. PartInit => BufferInv
  BY BufferInit DEF PartInit
<1>2. BufferInv /\ [PartNext]_allVars => BufferInv'
  <2>1. [PartNext]_allVars => [Next]_vars
    BY DEF PartNext, BufferNext, ListNext, DelayedNext, ZipfNext, MarksNext,
       allVars
  <2> QED
    BY <2>1, NextBufferInv
<1> QED
  BY <1>1, <1>2, PTL DEF PartSpec

(* A push misses a full buffer only if its elements end at offset 0, and   *)
(* makes a buffer with room grow only if the sum that it compares with     *)
(* does not fit into a word.                                               *)
THEOREM FullBufferIsSeen == PartSpec => []BufferSeesFull
<1>1. BufferInv => FullIsSeen
  <2> SUFFICES ASSUME BufferInv PROVE FullIsSeen
    OBVIOUS
  <2>1. /\ capacity \in Nat \ {0} /\ Words \in Nat /\ 2 * capacity <= Words
        /\ start \in Offsets /\ end \in Offsets
        /\ start \in Int /\ end \in Int
    BY CapacityIs DEF BufferInv, TypeOK, Offsets
  <2>2. Size = IF start <= end THEN end - start ELSE end - start + Words
    BY <2>1, WordsBetween DEF Size
  <2>3. (start + capacity - 1) % Words =
          IF start + capacity - 1 < Words THEN start + capacity - 1
          ELSE start + capacity - 1 - Words
    <3> DEFINE a == start + capacity - 1
               b == start + capacity - 1 - Words
    <3>1. a \in Int /\ Words \in Nat \ {0} /\ 0 \in Int /\ 1 \in Int
      BY <2>1
    <3>2. CASE a < Words
      <4>1. a = Words * 0 + a /\ a \in 0 .. (Words - 1)
        BY <2>1, <3>2 DEF Offsets
      <4> HIDE DEF a
      <4>2. a % Words = a
        BY <3>1, <4>1, ModUnique
      <4> QED
        BY <3>2, <4>2 DEF a
    <3>3. CASE ~(a < Words)
      <4>1. a = Words * 1 + b /\ b \in 0 .. (Words - 1)
        BY <2>1, <3>3 DEF Offsets
      <4> HIDE DEF a, b
      <4>2. a % Words = b
        BY <3>1, <4>1, ModUnique
      <4> QED
        BY <3>3, <4>2 DEF a, b
    <3> QED
      BY <3>2, <3>3
  <2>4. ~overfull => Size <= capacity
    <3> SUFFICES ASSUME ~overfull PROVE Size <= capacity
      OBVIOUS
    <3>1. PICK q : BufferHolds(q)
      BY DEF BufferInv
    <3> QED
      BY <3>1, HoldsContents, SizeOf DEF BufferHolds
  <2> QED
    BY <2>1, <2>2, <2>3, <2>4 DEF FullIsSeen, NeedsGrow, Offsets
<1>2. BufferInv => BufferSeesFull
  BY <1>1 DEF BufferSeesFull
<1> QED
  BY <1>2, BufferInvariant, PTL

(* The slots of the elements, and no others, hold objects, and iterators   *)
(* see the same elements forwards, backwards and by subscripts, with any   *)
(* capacity, number of words and first offset.                             *)
THEOREM BufferIsConsistent == PartSpec => []BufferStateInv
<1>1. BufferInv => BufferStateInv
  <2> SUFFICES ASSUME BufferInv PROVE BufferStateInv
    OBVIOUS
  <2>1. TypeOK
    BY DEF BufferInv
  <2>2. ObjectsAreElements /\ IteratorsAgree
    <3>1. CASE overfull
      BY <3>1 DEF ObjectsAreElements, IteratorsAgree
    <3>2. CASE ~overfull
      <4>1. PICK q : BufferHolds(q)
        BY <3>2 DEF BufferInv
      <4> QED
        BY <4>1, HoldsState
    <3> QED
      BY <3>1, <3>2
  <2> QED
    BY <2>1, <2>2 DEF BufferStateInv, StateInv
<1> QED
  BY <1>1, BufferInvariant, PTL

(* The buffer is a deque until a push meets a full buffer that it does not *)
(* recognize.                                                              *)
THEOREM BufferIsDeque == PartSpec => BufferImplementsDeque
<1>1. PartInit => Ends!Init
  <2> SUFFICES ASSUME PartInit PROVE Ends!Init
    OBVIOUS
  <2>1. Init
    BY DEF PartInit
  <2>2. BufferInv /\ ~overfull /\ start = end /\ result = NoElement
    BY <2>1, BufferInit DEF Init
  <2>3. PICK q : BufferHolds(q)
    BY <2>2 DEF BufferInv
  <2>4. Contents = q /\ q \in Seq(Values) /\ Size = Len(q) /\ start \in Offsets
    BY <2>3, HoldsContents DEF BufferShape
  <2>5. Size = 0
    <3>1. Size = start - start /\ start \in Int
      BY <2>2, <2>4, WordsBetween DEF Size, Offsets
    <3> QED
      BY <3>1
  <2>6. Contents = << >>
    BY <2>4, <2>5, EmptySeq
  <2> QED
    BY <2>2, <2>6 DEF Ends!Init
<1>2. BufferInv /\ [PartNext]_allVars
        => [part = "buffer" /\ ~overfull' => Ends!Next]_(Ends!vars)
  <2> SUFFICES ASSUME BufferInv, [PartNext]_allVars,
                      part = "buffer", ~overfull'
               PROVE  Ends!Next \/ UNCHANGED Ends!vars
    OBVIOUS
  <2>1. CASE UNCHANGED vars
    <3>1. Contents' = Contents
      BY <2>1 DEF Contents, Deref, Mod, Following, Inc, vars
    <3> QED
      BY <2>1, <3>1 DEF Ends!vars, vars
  <2>2. CASE Next
    <3>1. ~overfull
      BY <2>2 DEF Next, PushBack, PushFront, Push, PopBack, PopFront, PopNothing,
         Usable
    <3>2. PICK q : BufferHolds(q)
      BY <3>1 DEF BufferInv
    <3>3. Contents = q
      BY <3>2, HoldsContents
    <3>4. \A p : BufferHolds(p)' => Contents' = p
      <4>1. HoldsWhatItVisits'
        BY ContentsHeld, PTL
      <4> QED
        BY <4>1 DEF HoldsWhatItVisits
    <3>5. ASSUME NEW v \in Values, PushBack(v) PROVE Ends!Next
      <4>1. Contents' = Append(q, v)
        BY <3>2, <3>4, <3>5, PushBackHolds
      <4>2. result' = result
        BY <3>5 DEF PushBack, Push
      <4> QED
        BY <3>3, <4>1, <4>2 DEF Ends!Next, Ends!PushBack
    <3>6. ASSUME NEW v \in Values, PushFront(v) PROVE Ends!Next
      <4>1. Contents' = <<v>> \o q
        BY <3>2, <3>4, <3>6, PushFrontHolds
      <4>2. result' = result
        BY <3>6 DEF PushFront, Push
      <4> QED
        BY <3>3, <4>1, <4>2 DEF Ends!Next, Ends!PushFront, Ends!Cons
    <3>7. CASE PopBack
      <4>1. q # << >> /\ result' = Last(q) /\ Contents' = Front(q)
        BY <3>2, <3>4, <3>7, PopBackHolds
      <4> QED
        BY <3>3, <4>1 DEF Ends!Next, Ends!PopBack, Ends!Last, Ends!Front, Last,
           Front
    <3>8. CASE PopFront
      <4>1. q # << >> /\ result' = Head(q) /\ Contents' = Tail(q)
        BY <3>2, <3>4, <3>8, PopFrontHolds
      <4> QED
        BY <3>3, <4>1 DEF Ends!Next, Ends!PopFront
    <3>9. CASE PopNothing
      <4>1. Contents' = Contents
        BY <3>9 DEF PopNothing, Contents, Deref, Mod, Following, Inc
      <4>2. Contents = << >>
        <5>1. /\ q \in Seq(Values) /\ Size = Len(q) /\ start \in Offsets
              /\ start = end
          BY <3>2, <3>9, HoldsContents DEF BufferShape, PopNothing
        <5>2. Size = start - start /\ start \in Int
          BY <5>1, WordsBetween DEF Size, Offsets
        <5> QED
          <6>1. Len(q) = 0
            BY <5>1, <5>2
          <6> QED
            BY <3>3, <5>1, <6>1, EmptySeq
      <4> QED
        BY <3>9, <4>1, <4>2 DEF PopNothing, Ends!Next, Ends!PopNothing
    <3> QED
      BY <2>2, <3>5, <3>6, <3>7, <3>8, <3>9 DEF Next
  <2> QED
    BY <2>1, <2>2 DEF PartNext, BufferNext, ListNext, DelayedNext, ZipfNext,
       MarksNext, allVars
<1> QED
  BY <1>1, <1>2, BufferInvariant, PTL DEF PartSpec, BufferImplementsDeque

------------------------------------------------------------------------------
USE ZipfAssumption, MarksAssumption

------------------------------------------------------------------------------
(* ZipfKeygen.  The sums are the function that their recursive definition  *)
(* describes.                                                              *)
LEMMA SumsOfWeights ==
  ASSUME NEW u \in Nat, NEW w \in [1 .. u -> Nat]
  PROVE  Zipf!Sums(u, w) \in [0 .. u -> Nat] /\ Zipf!Sums(u, w)[0] = 0
<1> DEFINE Summed(n, f) ==
             f[0] = 0 /\ \A i \in 1 .. n : f[i] = f[i - 1] + w[i]
           Good == {n \in 0 .. u : \E f \in [0 .. n -> Nat] : Summed(n, f)}
<1>1. 0 \in Good
  <2> DEFINE f == [i \in 0 .. 0 |-> 0]
  <2>1. f \in [0 .. 0 -> Nat] /\ Summed(0, f)
    OBVIOUS
  <2> HIDE DEF f, Summed
  <2> QED
    BY <2>1
<1>2. ASSUME NEW n \in 1 .. u, n - 1 \in Good PROVE n \in Good
  <2>1. PICK f \in [0 .. n - 1 -> Nat] : Summed(n - 1, f)
    BY <1>2
  <2> DEFINE g == [i \in 0 .. n |-> IF i = n THEN f[n - 1] + w[n] ELSE f[i]]
  <2>2. g \in [0 .. n -> Nat]
    <3>1. f[n - 1] + w[n] \in Nat
      BY <2>1
    <3>2. \A i \in 0 .. n : i # n => f[i] \in Nat
      BY <2>1
    <3> QED
      BY <3>1, <3>2
  <2>3. g[0] = 0
    BY <2>1
  <2>4. ASSUME NEW i \in 1 .. n PROVE g[i] = g[i - 1] + w[i]
    <3>1. i - 1 \in 0 .. n /\ i - 1 # n /\ i \in 0 .. n
      OBVIOUS
    <3>2. CASE i = n
      BY <3>1, <3>2
    <3>3. CASE i # n
      BY <2>1, <3>1, <3>3
    <3> QED
      BY <3>2, <3>3
  <2>5. Summed(n, g)
    BY <2>3, <2>4
  <2> HIDE DEF g, Summed
  <2> QED
    BY <2>2, <2>5
<1> HIDE DEF Good
<1>3. u \in Good
  <2>1. \A n \in 0 .. u : n \in Good
    BY <1>1, <1>2, UpTo
  <2> QED
    BY <2>1
<1>4. PICK f \in [0 .. u -> Nat] : Summed(u, f)
  BY <1>3 DEF Good
<1>5. f = [i \in 0 .. u |-> IF i = 0 THEN 0 ELSE f[i - 1] + w[i]]
  BY <1>4
<1> DEFINE s == Zipf!Sums(u, w)
<1>6. s = [i \in 0 .. u |-> IF i = 0 THEN 0 ELSE s[i - 1] + w[i]]
  BY <1>5 DEF Zipf!Sums
<1> HIDE DEF s
<1> DEFINE Same == {i \in 0 .. u : s[i] = f[i]}
<1>7. 0 \in Same
  BY <1>4, <1>6
<1>8. ASSUME NEW n \in 1 .. u, n - 1 \in Same PROVE n \in Same
  BY <1>5, <1>6, <1>8
<1> HIDE DEF Same
<1>9. \A i \in 0 .. u : i \in Same
  BY <1>7, <1>8, UpTo
<1>10. s = f
  BY <1>5, <1>6, <1>9 DEF Same
<1> QED
  BY <1>4, <1>10 DEF s

(* The first of the keys whose sum is not below the random number.         *)
LEMMA FastKeyFits ==
  ASSUME Zipf!IndInv, universe > 0, NEW x \in Nat, precomp[fastSteps] >= x
  PROVE  LET k == Zipf!FastKey(x)
         IN  /\ k \in 1 .. universe
             /\ precomp[k - 1] <= x /\ x <= precomp[k]
<1> DEFINE First(i) == precomp[i] >= x /\ \A j \in 1 .. (i - 1) : precomp[j] < x
           Enough == {i \in 1 .. fastSteps : precomp[i] >= x}
<1>1. /\ universe \in Nat /\ fastSteps \in 1 .. universe
      /\ precomp \in [0 .. universe -> Nat] /\ precomp[0] = 0
  BY DEF Zipf!IndInv, Zipf!KeyFitsNumber, Zipf!TypeOK
<1>2. Enough # {} /\ Enough \in SUBSET Nat
  BY <1>1
<1>3. PICK i \in Enough : \A j \in Enough : i <= j
  <2> HIDE DEF Enough
  <2> QED
    BY <1>2, LeastElement
<1>4. i \in 1 .. fastSteps /\ First(i)
  BY <1>1, <1>3
<1> DEFINE k == Zipf!FastKey(x)
<1>5. k \in 1 .. fastSteps /\ First(k)
  BY <1>4 DEF Zipf!FastKey
<1> HIDE DEF k
<1>6. precomp[k - 1] <= x
  <2>1. CASE k = 1
    BY <1>1, <2>1
  <2>2. CASE k # 1
    <3>1. k - 1 \in 1 .. (k - 1) /\ k - 1 \in 0 .. universe
      BY <1>1, <1>5, <2>2
    <3>2. precomp[k - 1] < x /\ precomp[k - 1] \in Nat
      BY <1>1, <1>5, <3>1
    <3> QED
      BY <3>2
  <2> QED
    BY <2>1, <2>2
<1> QED
  BY <1>1, <1>5, <1>6 DEF k

LEMMA ZipfStep == Zipf!IndInv /\ Zipf!Next => Zipf!IndInv'
<1> SUFFICES ASSUME Zipf!IndInv, Zipf!Next PROVE Zipf!IndInv'
  OBVIOUS
<1> USE DEF Zipf!IndInv, Zipf!KeyFitsNumber, Zipf!SearchConverges, Zipf!TypeOK,
            Zipf!Searching, Zipf!StillWide, Zipf!Middle
<1>1. ASSUME NEW u \in 1 .. MaxUniverse, NEW w \in Zipf!Weights(u),
             Zipf!Initialize(u, w)
      PROVE  Zipf!IndInv'
  <2>1. w \in [1 .. u -> Nat] /\ u \in Nat
    BY DEF Zipf!Weights
  <2>2. precomp' \in [0 .. u -> Nat] /\ precomp'[0] = 0
    BY <1>1, <2>1, SumsOfWeights DEF Zipf!Initialize
  <2>3. fastSteps' \in 1 .. u
    BY <1>1 DEF Zipf!Initialize, Zipf!MinOf
  <2> QED
    BY <1>1, <2>1, <2>2, <2>3 DEF Zipf!Initialize
<1>2. ASSUME NEW x \in 0 .. precomp[universe], Zipf!GenerateFast(x)
      PROVE  Zipf!IndInv'
  <2>1. x \in Nat
    OBVIOUS
  <2>2. key' \in 1 .. universe /\ precomp[key' - 1] <= x /\ x <= precomp[key']
    BY <1>2, <2>1, FastKeyFits DEF Zipf!GenerateFast
  <2> QED
    BY <1>2, <2>1, <2>2 DEF Zipf!GenerateFast
<1>3. ASSUME NEW x \in 0 .. precomp[universe], Zipf!Generate(x)
      PROVE  Zipf!IndInv'
  BY <1>3 DEF Zipf!Generate
<1>4. CASE Zipf!Halve
  <2> DEFINE m == (r + l) \div 2
  <2>1. m \in 0 .. universe /\ l < m /\ m < r
    BY <1>4 DEF Zipf!Halve
  <2> HIDE DEF m
  <2>2. precomp[m] \in Nat
    BY <2>1
  <2>3. CASE precomp[m] > t_p
    BY <1>4, <2>1, <2>2, <2>3 DEF Zipf!Halve, m
  <2>4. CASE ~(precomp[m] > t_p)
    BY <1>4, <2>1, <2>2, <2>4 DEF Zipf!Halve, m
  <2> QED
    BY <2>3, <2>4
<1>5. CASE Zipf!Return
  <2>1. l + 1 = r /\ r \in 1 .. universe
    BY <1>5 DEF Zipf!Return
  <2> QED
    BY <1>5, <2>1 DEF Zipf!Return, Zipf!Found
<1> QED
  BY <1>1, <1>2, <1>3, <1>4, <1>5 DEF Zipf!Next

LEMMA ZipfInvariant == PartSpec => []Zipf!IndInv
<1>1. PartInit => Zipf!IndInv
  BY DEF PartInit, Zipf!Init, Zipf!IndInv, Zipf!KeyFitsNumber,
     Zipf!SearchConverges, Zipf!TypeOK, Zipf!Searching
<1>2. Zipf!IndInv /\ UNCHANGED zipfVars => Zipf!IndInv'
  BY DEF zipfVars, Zipf!IndInv, Zipf!KeyFitsNumber, Zipf!SearchConverges,
     Zipf!TypeOK, Zipf!Searching, Zipf!StillWide, Zipf!Middle
<1>3. [PartNext]_allVars => Zipf!Next \/ UNCHANGED zipfVars
  BY DEF PartNext, BufferNext, ListNext, DelayedNext, ZipfNext, MarksNext,
     allVars
<1> QED
  BY <1>1, <1>2, <1>3, ZipfStep, PTL DEF PartSpec

(* The key that generate returns exists, and the random number lies in its *)
(* part of the sums, for every number of keys and all weights.             *)
THEOREM GeneratedKeyFits == PartSpec => []KeyFitsNumber
<1>1. Zipf!IndInv => KeyFitsNumber
  BY DEF Zipf!IndInv, KeyFitsNumber
<1> QED
  BY <1>1, ZipfInvariant, PTL

(* A search keeps the number between its two ends, and its middle strictly *)
(* between them: it cannot go on for ever.                                 *)
THEOREM SearchEndsAtKey == PartSpec => []KeySearchConverges
<1>1. Zipf!IndInv => KeySearchConverges
  BY DEF Zipf!IndInv, KeySearchConverges
<1> QED
  BY <1>1, ZipfInvariant, PTL

------------------------------------------------------------------------------
(* MarkPointer.  A word is its address and its flags: the properties of    *)
(* all operations follow from which bits each of them may change.          *)
WordIs(w, a, marks) ==
  w = a \cup {Bits - 1 - i : i \in marks}

LEMMA FlagsOnTop ==
  ASSUME NEW a \in Marks!Address, NEW marks \in SUBSET Marks!Flags,
         NEW w, w = a \cup {Bits - 1 - i : i \in marks}
  PROVE  /\ w \in Marks!Word
         /\ Marks!Clear(w) = a
         /\ \A i \in Marks!Flags : Marks!GetMark(i, w) <=> i \in marks
         /\ Marks!IsMarked(w) <=> marks # {}
         /\ Marks!GetAllMarks(w) = {MarkBits - 1 - i : i \in marks}
<1> USE DEF Marks!Address, Marks!Flags, Marks!Low
<1>1. \A b \in a : b \in Nat /\ b < Bits - MarkBits
  OBVIOUS
<1>2. \A i \in marks : i \in Nat /\ i < MarkBits
  OBVIOUS
<1>0. \A b : b \in w <=> b \in a \/ \E i \in marks : b = Bits - 1 - i
  OBVIOUS
<1>3. w \in Marks!Word
  <2>1. \A b \in w : b \in 0 .. (Bits - 1)
    BY <1>0, <1>1, <1>2
  <2> QED
    BY <2>1 DEF Marks!Word
<1>4. Marks!Clear(w) = a
  <2>1. \A b : b \in w /\ b \in 0 .. (Bits - MarkBits - 1) <=> b \in a
    <3>1. \A i \in marks : Bits - 1 - i \notin 0 .. (Bits - MarkBits - 1)
      BY <1>2
    <3>2. \A b \in a : b \in 0 .. (Bits - MarkBits - 1)
      BY <1>1
    <3> QED
      BY <1>0, <3>1, <3>2
  <2>2. Marks!Clear(w) = w \cap (0 .. (Bits - MarkBits - 1))
    BY DEF Marks!Clear, Marks!Lower
  <2> QED
    BY <2>1, <2>2
<1>5. \A i \in Marks!Flags : Marks!GetMark(i, w) <=> i \in marks
  <2> TAKE i \in Marks!Flags
  <2>1. Bits - 1 - i \notin a
    BY <1>1
  <2>2. Bits - 1 - i \in w <=> i \in marks
    BY <2>1
  <2> QED
    BY <2>2 DEF Marks!GetMark, Marks!Flag
<1>6. Marks!IsMarked(w) <=> marks # {}
  <2>1. Marks!IsMarked(w) <=> w \ (0 .. (Bits - MarkBits - 1)) # {}
    BY DEF Marks!IsMarked, Marks!Lower
  <2>2. \A b \in w : b \notin 0 .. (Bits - MarkBits - 1)
                      <=> \E i \in marks : b = Bits - 1 - i
    BY <1>0, <1>1, <1>2
  <2> QED
    BY <1>0, <2>1, <2>2
<1>7. Marks!GetAllMarks(w) = {MarkBits - 1 - i : i \in marks}
  <2>1. {x \in w : x >= Bits - MarkBits} = {Bits - 1 - i : i \in marks}
    <3>1. \A b : b \in w /\ b >= Bits - MarkBits
                   <=> \E i \in marks : b = Bits - 1 - i
      <4>1. \A i \in marks : Bits - 1 - i >= Bits - MarkBits
        BY <1>2
      <4>2. \A b \in a : ~(b >= Bits - MarkBits)
        BY <1>1
      <4> QED
        BY <1>0, <4>1, <4>2
    <3> QED
      BY <3>1
  <2>2. \A i \in marks : (Bits - 1 - i) - (Bits - MarkBits) = MarkBits - 1 - i
    OBVIOUS
  <2> QED
    BY <2>1, <2>2 DEF Marks!GetAllMarks
<1> QED
  BY <1>3, <1>4, <1>5, <1>6, <1>7

MarksInv == Marks!TypeOK /\ WordIs(tar, address, marked)

LEMMA MarksStep == MarksInv /\ Marks!Next => MarksInv'
<1> SUFFICES ASSUME MarksInv, Marks!Next PROVE MarksInv'
  OBVIOUS
<1> USE DEF MarksInv, Marks!TypeOK, WordIs
<1>0. \A i \in Marks!Flags : Bits - 1 - i \in 0 .. (Bits - 1) \ (0 .. (Marks!Low - 1))
  BY DEF Marks!Flags, Marks!Low
<1>1. ASSUME NEW a \in Marks!Address, Marks!Store(a) PROVE MarksInv'
  <2>1. a \in Marks!Word
    BY DEF Marks!Address, Marks!Word, Marks!Low
  <2> QED
    BY <1>1, <2>1 DEF Marks!Store
<1>2. ASSUME NEW t \in Threads, Marks!Load(t) PROVE MarksInv'
  BY <1>2 DEF Marks!Load
<1>3. ASSUME NEW t \in Threads, NEW i \in Marks!Flags, Marks!AtomicMark(t, i)
      PROVE  MarksInv'
  <2>1. CASE tar = exp[t]
    <3>1. /\ tar' = tar \cup {Bits - 1 - i} /\ marked' = marked \cup {i}
          /\ UNCHANGED <<exp, address>>
      BY <1>3, <2>1 DEF Marks!AtomicMark, Marks!Mark, Marks!Flag
    <3>2. tar' \in Marks!Word
      BY <1>0, <3>1 DEF Marks!Word
    <3> QED
      BY <3>1, <3>2
  <2>2. CASE tar # exp[t]
    BY <1>2, <1>3, <2>2 DEF Marks!AtomicMark
  <2> QED
    BY <2>1, <2>2
<1>4. ASSUME NEW i \in Marks!Flags, Marks!StoreUnmarked(i) PROVE MarksInv'
  <2>1. /\ tar' = tar \ {Bits - 1 - i} /\ marked' = marked \ {i}
        /\ UNCHANGED <<exp, address>>
    BY <1>4 DEF Marks!StoreUnmarked, Marks!Unmark, Marks!Mask, Marks!Flag,
       Marks!Word
  <2>2. Bits - 1 - i \notin address
    BY <1>0 DEF Marks!Address
  <2>3. \A j \in marked : j # i => Bits - 1 - j # Bits - 1 - i
    BY DEF Marks!Flags
  <2>4. tar' = address \cup {Bits - 1 - j : j \in marked \ {i}}
    BY <2>1, <2>2, <2>3
  <2> QED
    BY <2>1, <2>4 DEF Marks!Word
<1>5. CASE Marks!StoreCleared
  <2>1. Marks!Clear(tar) = address
    <3>1. address \in Marks!Address /\ marked \in SUBSET Marks!Flags
      OBVIOUS
    <3>2. tar = address \cup {Bits - 1 - i : i \in marked}
      OBVIOUS
    <3> QED
      BY <3>1, <3>2, FlagsOnTop
  <2>2. address \in Marks!Word
    BY DEF Marks!Address, Marks!Word, Marks!Low
  <2> QED
    BY <1>5, <2>1, <2>2 DEF Marks!StoreCleared
<1>6. ASSUME NEW marks \in SUBSET Marks!Flags, Marks!StoreMarks(marks)
      PROVE  MarksInv'
  <2> DEFINE new == {i \in Marks!Flags : MarkBits - 1 - i \in marks}
  <2>1. /\ tar' = tar \cup {b + Bits - MarkBits : b \in marks}
        /\ marked' = marked \cup new
        /\ UNCHANGED <<exp, address>>
    BY <1>6 DEF Marks!StoreMarks, Marks!SetAllMarks, Marks!Low, Marks!Flags
  <2>2. {b + Bits - MarkBits : b \in marks} = {Bits - 1 - i : i \in new}
    <3>1. ASSUME NEW b \in marks
          PROVE  MarkBits - 1 - b \in new
                   /\ b + Bits - MarkBits = Bits - 1 - (MarkBits - 1 - b)
      BY DEF Marks!Flags
    <3>2. ASSUME NEW i \in new
          PROVE  MarkBits - 1 - i \in marks
                   /\ (MarkBits - 1 - i) + Bits - MarkBits = Bits - 1 - i
      BY DEF Marks!Flags
    <3> QED
      BY <3>1, <3>2
  <2>3. new \in SUBSET Marks!Flags
    OBVIOUS
  <2> HIDE DEF new
  <2>4. tar' = address \cup {Bits - 1 - i : i \in marked \cup new}
    BY <2>1, <2>2
  <2>5. tar' \in Marks!Word
    BY <1>0, <2>1, <2>2, <2>3 DEF Marks!Word
  <2> QED
    BY <2>1, <2>3, <2>4, <2>5
<1> QED
  BY <1>1, <1>2, <1>3, <1>4, <1>5, <1>6 DEF Marks!Next

(* The flags of a pointer and its address do not touch each other, for all *)
(* numbers of bits and of flags, and however threads' CASes interleave.    *)
THEOREM FlagsStayApart == PartSpec => []FlagsAndAddressApart
<1>1. PartInit => MarksInv
  BY DEF PartInit, Marks!Init, MarksInv, Marks!TypeOK, WordIs, Marks!Word,
     Marks!Address, Marks!Flags
<1>2. MarksInv /\ UNCHANGED marksVars => MarksInv'
  BY DEF marksVars, MarksInv, Marks!TypeOK, WordIs
<1>3. [PartNext]_allVars => Marks!Next \/ UNCHANGED marksVars
  BY DEF PartNext, BufferNext, ListNext, DelayedNext, ZipfNext, MarksNext,
     allVars
<1>4. MarksInv => FlagsAndAddressApart
  BY FlagsOnTop DEF MarksInv, Marks!TypeOK, FlagsAndAddressApart,
     Marks!FlagsAndAddressApart, WordIs
<1> QED
  BY <1>1, <1>2, <1>3, <1>4, MarksStep, PTL DEF PartSpec

------------------------------------------------------------------------------
(* DelayedReclamation.  A thread's guards are a function of its guard      *)
(* variables; Weight says whether a value of one is a guard of o.          *)
Guards(g, o) == {s \in Slots : g[s] # NoGuard /\ g[s].to = o}
Weight(p, o) == IF p # NoGuard /\ p.to = o THEN 1 ELSE 0
GuardValues == Delayed!Pointers \cup {NoGuard}

LEMMA CountGuards ==
  ASSUME NEW g \in [Slots -> GuardValues], NEW o \in Objects
  PROVE  IsFiniteSet(Guards(g, o)) /\ Cardinality(Guards(g, o)) \in Nat
BY GuardsAssumption, FS_Subset, FS_CardinalityType DEF Guards

LEMMA OneGuardChanges ==
  ASSUME NEW g \in [Slots -> GuardValues], NEW s \in Slots,
         NEW p \in GuardValues, NEW o \in Objects
  PROVE  Cardinality(Guards([g EXCEPT ![s] = p], o)) =
           Cardinality(Guards(g, o)) - Weight(g[s], o) + Weight(p, o)
<1> DEFINE h == [g EXCEPT ![s] = p]
           rest == Guards(g, o) \ {s}
<1>1. Guards(h, o) \ {s} = rest
  BY DEF Guards
<1>2. s \in Guards(g, o) <=> Weight(g[s], o) = 1
  BY DEF Guards, Weight
<1>3. s \in Guards(h, o) <=> Weight(p, o) = 1
  BY DEF Guards, Weight
<1>4. h \in [Slots -> GuardValues]
  OBVIOUS
<1>5. /\ IsFiniteSet(Guards(g, o)) /\ Cardinality(Guards(g, o)) \in Nat
      /\ IsFiniteSet(Guards(h, o)) /\ Cardinality(Guards(h, o)) \in Nat
  BY <1>4, CountGuards
<1>6. Weight(g[s], o) \in {0, 1} /\ Weight(p, o) \in {0, 1}
  BY DEF Weight
<1> HIDE DEF h
<1>7. Cardinality(rest) = Cardinality(Guards(g, o)) - Weight(g[s], o)
  <2>1. CASE s \in Guards(g, o)
    <3>1. Cardinality(rest) = Cardinality(Guards(g, o)) - 1
      BY <1>5, <2>1, FS_RemoveElement
    <3> QED
      BY <1>2, <2>1, <3>1
  <2>2. CASE s \notin Guards(g, o)
    <3>1. rest = Guards(g, o)
      BY <2>2
    <3> QED
      BY <1>2, <1>5, <1>6, <2>2, <3>1
  <2> QED
    BY <2>1, <2>2
<1>8. Cardinality(rest) = Cardinality(Guards(h, o)) - Weight(p, o)
  <2>1. CASE s \in Guards(h, o)
    BY <1>1, <1>3, <1>5, <2>1, FS_RemoveElement, ZenonT(60)
  <2>2. CASE s \notin Guards(h, o)
    <3>1. rest = Guards(h, o)
      BY <1>1, <2>2
    <3> QED
      BY <1>3, <1>5, <1>6, <2>2, <3>1
  <2> QED
    BY <2>1, <2>2
<1> HIDE DEF rest
<1> QED
  BY <1>5, <1>6, <1>7, <1>8 DEF h

LEMMA GuardingIs ==
  ASSUME Delayed!GuardTypeOK, NEW t \in Threads, NEW o \in Objects
  PROVE  /\ Delayed!Guarding(t, o) = Guards(guard[t], o)
         /\ Delayed!Cardinality(Delayed!Guarding(t, o))
              = Cardinality(Guards(guard[t], o))
         /\ guard[t] \in [Slots -> GuardValues]
BY DEF Delayed!GuardTypeOK, Delayed!Guarding, Delayed!Exists, Guards,
       GuardValues, Delayed!Cardinality, Cardinality

(* One guard variable changes, and protections are told of the difference. *)
LEMMA GuardsKeepBalance ==
  ASSUME Delayed!GuardTypeOK, Delayed!GuardsBalance,
         NEW t \in Threads, NEW h \in [Slots -> GuardValues],
         guard' = [guard EXCEPT ![t] = h],
         protection' \in [Threads -> [Objects -> Int]],
         \A u \in Threads, o \in Objects :
           protection'[u][o] = IF u = t THEN Cardinality(Guards(h, o))
                                        ELSE protection[u][o]
  PROVE  Delayed!GuardTypeOK' /\ Delayed!GuardsBalance'
<1>1. Delayed!GuardTypeOK'
  BY DEF Delayed!GuardTypeOK, GuardValues
<1>2. ASSUME NEW u \in Threads, NEW o \in Objects
      PROVE  protection'[u][o] =
               Delayed!Cardinality(Delayed!Guarding(u, o))'
  <2>1. Delayed!Cardinality(Delayed!Guarding(u, o))'
          = Cardinality(Guards(guard'[u], o))
    BY <1>1 DEF Delayed!GuardTypeOK, Delayed!Guarding, Delayed!Exists, Guards,
       Delayed!Cardinality, Cardinality
  <2>2. CASE u = t
    BY <2>1, <2>2 DEF Delayed!GuardTypeOK
  <2>3. CASE u # t
    <3>1. guard'[u] = guard[u]
      BY <2>3 DEF Delayed!GuardTypeOK
    <3>2. protection[u][o] = Cardinality(Guards(guard[u], o))
      BY GuardingIs DEF Delayed!GuardsBalance
    <3> QED
      BY <2>1, <2>3, <3>1, <3>2
  <2> QED
    BY <2>2, <2>3
<1> QED
  BY <1>1, <1>2 DEF Delayed!GuardsBalance

ToldOf(t, d) ==
  /\ protection' \in [Threads -> [Objects -> Int]]
  /\ \A u \in Threads, o \in Objects :
       protection'[u][o] =
         protection[u][o] + IF u = t THEN d[o] ELSE 0

LEMMA ProtectTells ==
  ASSUME Delayed!GuardTypeOK, NEW t \in Threads, NEW p \in Delayed!Pointers,
         Delayed!Protect(t, p)
  PROVE  ToldOf(t, [o \in Objects |-> Weight(p, o)])
<1>1. p.to \in Objects \cup {NoPtr} /\ p # NoGuard
  BY GuardsAssumption DEF Delayed!Pointers
<1>2. CASE p.to = NoPtr
  BY <1>1, <1>2, GuardsAssumption
     DEF Delayed!Protect, Delayed!Told, Delayed!GuardTypeOK, ToldOf, Weight
<1>3. CASE p.to # NoPtr
  <2>1. protection' = [protection EXCEPT ![t][p.to] = @ + 1]
    BY <1>3 DEF Delayed!Protect, Delayed!Told
  <2> QED
    BY <1>1, <1>3, <2>1 DEF Delayed!GuardTypeOK, ToldOf, Weight
<1> QED
  BY <1>2, <1>3

LEMMA UnprotectTells ==
  ASSUME Delayed!GuardTypeOK, NEW t \in Threads, NEW p \in Delayed!Pointers,
         Delayed!Unprotect(t, p)
  PROVE  ToldOf(t, [o \in Objects |-> -Weight(p, o)])
<1>1. p.to \in Objects \cup {NoPtr} /\ p # NoGuard
  BY GuardsAssumption DEF Delayed!Pointers
<1>2. CASE p.to = NoPtr
  BY <1>1, <1>2, GuardsAssumption
     DEF Delayed!Unprotect, Delayed!Told, Delayed!GuardTypeOK, ToldOf, Weight
<1>3. CASE p.to # NoPtr
  <2>1. protection' = [protection EXCEPT ![t][p.to] = @ + -1]
    BY <1>3 DEF Delayed!Unprotect, Delayed!Told
  <2> QED
    BY <1>1, <1>3, <2>1 DEF Delayed!GuardTypeOK, ToldOf, Weight
<1> QED
  BY <1>2, <1>3

LEMMA NothingTold ==
  ASSUME Delayed!GuardTypeOK, UNCHANGED protection, NEW t \in Threads
  PROVE  ToldOf(t, [o \in Objects |-> 0])
BY DEF Delayed!GuardTypeOK, ToldOf

LEMMA BalanceKept ==
  ASSUME Delayed!GuardTypeOK, Delayed!GuardsBalance,
         NEW t \in Threads, NEW h \in [Slots -> GuardValues], NEW d,
         guard' = [guard EXCEPT ![t] = h], ToldOf(t, d),
         \A o \in Objects : Cardinality(Guards(h, o))
                              = Cardinality(Guards(guard[t], o)) + d[o]
  PROVE  Delayed!GuardTypeOK' /\ Delayed!GuardsBalance'
<1>1. \A o \in Objects : protection[t][o] = Cardinality(Guards(guard[t], o))
  BY GuardingIs DEF Delayed!GuardsBalance
<1>2. \A u \in Threads, o \in Objects : protection[u][o] \in Int
  BY DEF Delayed!GuardTypeOK
<1>3. \A u \in Threads, o \in Objects :
        protection'[u][o] = IF u = t THEN Cardinality(Guards(h, o))
                                     ELSE protection[u][o]
  BY <1>1, <1>2 DEF ToldOf
<1> QED
  BY <1>3, GuardsKeepBalance DEF ToldOf

LEMMA GuardBalance ==
  ASSUME Delayed!GuardTypeOK, Delayed!GuardsBalance, NEW t \in Threads,
         \/ Delayed!UseGuards(t)
         \/ \E s \in Slots, p \in Delayed!Pointers : Delayed!Guard(t, s, p)
  PROVE  Delayed!GuardTypeOK' /\ Delayed!GuardsBalance'
<1> DEFINE g == guard[t]
           Balance == Delayed!GuardTypeOK' /\ Delayed!GuardsBalance'
<1>0. g \in [Slots -> GuardValues]
  BY GuardingIs DEF Delayed!GuardTypeOK, GuardValues
<1>1. \A o \in Objects : Cardinality(Guards(g, o)) \in Nat
  BY <1>0, CountGuards
<1>2. /\ Delayed!Null \in Delayed!Pointers
      /\ \A o \in Objects :
           Weight(Delayed!Null, o) = 0 /\ Weight(NoGuard, o) = 0
  BY GuardsAssumption DEF Delayed!Null, Delayed!Pointer, Delayed!Pointers, Weight
<1>3. \A p, o : Weight(p, o) \in {0, 1}
  BY DEF Weight
<1>4. NoGuard \in GuardValues /\ Delayed!Pointers \subseteq GuardValues
  BY DEF GuardValues
(* A variable that was no guard.                                           *)
<1>5. ASSUME NEW s \in Slots, Delayed!Empty(t, s) PROVE Balance
  <2> DEFINE h == [g EXCEPT ![s] = Delayed!Null]
  <2>1. /\ g[s] = NoGuard /\ guard' = [guard EXCEPT ![t] = h]
        /\ UNCHANGED protection
    BY <1>5 DEF Delayed!Empty, Delayed!Exists, Delayed!GuardTypeOK
  <2>2. h \in [Slots -> GuardValues]
    BY <1>0, <1>2, <1>4
  <2>3. \A o \in Objects : Cardinality(Guards(h, o))
          = Cardinality(Guards(g, o)) + [x \in Objects |-> 0][o]
    BY <1>0, <1>1, <1>2, <1>4, <2>1, OneGuardChanges
  <2> HIDE DEF h
  <2> QED
    BY <2>1, <2>2, <2>3, NothingTold, BalanceKept
<1>6. ASSUME NEW s \in Slots, NEW p \in Delayed!Pointers, Delayed!Guard(t, s, p)
      PROVE  Balance
  <2> DEFINE h == [g EXCEPT ![s] = p]
             d == [o \in Objects |-> Weight(p, o)]
  <2>1. g[s] = NoGuard /\ guard' = [guard EXCEPT ![t] = h]
    BY <1>6 DEF Delayed!Guard, Delayed!Exists, Delayed!GuardTypeOK
  <2>2. h \in [Slots -> GuardValues]
    BY <1>0, <1>4
  <2>3. \A o \in Objects :
          Cardinality(Guards(h, o)) = Cardinality(Guards(g, o)) + d[o]
    BY <1>0, <1>1, <1>2, <1>3, <1>4, <2>1, OneGuardChanges
  <2>4. ToldOf(t, d)
    BY <1>6, ProtectTells DEF Delayed!Guard
  <2> HIDE DEF h, d
  <2> QED
    BY <2>1, <2>2, <2>3, <2>4, BalanceKept
(* A variable that was a guard.                                            *)
<1>7. ASSUME NEW s \in Slots, NEW p \in GuardValues, Delayed!Exists(t, s),
             guard' = [guard EXCEPT ![t][s] = p],
             \A o \in Objects : Weight(p, o) = 0,
             Delayed!Unprotect(t, guard[t][s])
      PROVE  Balance
  <2> DEFINE h == [g EXCEPT ![s] = p]
             d == [o \in Objects |-> -Weight(g[s], o)]
  <2>1. g[s] \in Delayed!Pointers /\ guard' = [guard EXCEPT ![t] = h]
    BY <1>0, <1>7 DEF Delayed!Exists, Delayed!GuardTypeOK, GuardValues
  <2>2. h \in [Slots -> GuardValues]
    BY <1>0, <1>4
  <2>3. \A o \in Objects :
          Cardinality(Guards(h, o)) = Cardinality(Guards(g, o)) + d[o]
    BY <1>0, <1>1, <1>3, <1>7, OneGuardChanges
  <2>4. ToldOf(t, d)
    BY <1>7, <2>1, UnprotectTells
  <2> HIDE DEF h, d
  <2> QED
    BY <2>1, <2>2, <2>3, <2>4, BalanceKept
<1>8. ASSUME NEW s \in Slots, Delayed!Destruct(t, s) PROVE Balance
  BY <1>2, <1>4, <1>7, <1>8 DEF Delayed!Destruct
<1>9. ASSUME NEW s \in Slots, Delayed!Release(t, s) PROVE Balance
  BY <1>2, <1>4, <1>7, <1>9 DEF Delayed!Release
<1>10. ASSUME NEW s \in Slots, Delayed!Unmark(t, s) PROVE Balance
  <2> DEFINE p == [g[s] EXCEPT !.marked = FALSE]
             h == [g EXCEPT ![s] = p]
  <2>1. /\ g[s] \in Delayed!Pointers /\ guard' = [guard EXCEPT ![t] = h]
        /\ UNCHANGED protection
    BY <1>0, <1>10 DEF Delayed!Unmark, Delayed!Exists, Delayed!GuardTypeOK,
       GuardValues
  <2>2. p \in Delayed!Pointers /\ p.to = g[s].to
    BY <2>1 DEF Delayed!Pointers
  <2>3. \A o \in Objects : Weight(p, o) = Weight(g[s], o)
    BY <2>1, <2>2, GuardsAssumption DEF Weight
  <2> HIDE DEF p
  <2>4. h \in [Slots -> GuardValues]
    BY <1>0, <1>4, <2>2
  <2>5. \A o \in Objects : Cardinality(Guards(h, o))
          = Cardinality(Guards(g, o)) + [x \in Objects |-> 0][o]
    BY <1>0, <1>1, <1>3, <1>4, <2>2, <2>3, OneGuardChanges
  <2> HIDE DEF h
  <2> QED
    BY <2>1, <2>4, <2>5, NothingTold, BalanceKept
(* A guard moves: its value goes to s, and it becomes null.                *)
<1>11. ASSUME NEW s \in Slots, NEW from \in Slots, s # from,
              Delayed!Exists(t, from), Delayed!MovedTo(t, s, from)
       PROVE  \E h \in [Slots -> GuardValues] :
                /\ guard' = [guard EXCEPT ![t] = h]
                /\ \A o \in Objects :
                     Cardinality(Guards(h, o))
                       = Cardinality(Guards(g, o)) - Weight(g[s], o)
  <2> DEFINE p == g[from]
             k == [g EXCEPT ![s] = p]
             h == [k EXCEPT ![from] = Delayed!Null]
  <2>1. p \in GuardValues /\ k \in [Slots -> GuardValues] /\ k[from] = p
    BY <1>0, <1>11
  <2>2. h \in [Slots -> GuardValues] /\ guard' = [guard EXCEPT ![t] = h]
    BY <1>0, <1>2, <1>4, <1>11, <2>1
       DEF Delayed!MovedTo, Delayed!SourceAfter, Delayed!GuardTypeOK
  <2>3. ASSUME NEW o \in Objects
        PROVE  Cardinality(Guards(h, o))
                 = Cardinality(Guards(g, o)) - Weight(g[s], o)
    <3>1. Cardinality(Guards(k, o))
            = Cardinality(Guards(g, o)) - Weight(g[s], o) + Weight(p, o)
      BY <1>0, <2>1, OneGuardChanges
    <3> HIDE DEF k
    <3>2. Cardinality(Guards(h, o))
            = Cardinality(Guards(k, o)) - Weight(p, o) + Weight(Delayed!Null, o)
      <4>1. Delayed!Null \in GuardValues /\ k \in [Slots -> GuardValues]
        BY <1>2, <1>4, <2>1
      <4>2. Cardinality(Guards(h, o)) = Cardinality(Guards(k, o))
              - Weight(k[from], o) + Weight(Delayed!Null, o)
        BY <4>1, OneGuardChanges
      <4> QED
        BY <2>1, <4>2
    <3> QED
      BY <1>1, <1>2, <1>3, <3>1, <3>2
  <2> HIDE DEF h
  <2> QED
    BY <2>2, <2>3
<1>12. ASSUME NEW s \in Slots, NEW from \in Slots,
              Delayed!MoveConstruct(t, s, from)
       PROVE  Balance
  <2>1. s # from /\ g[s] = NoGuard /\ UNCHANGED protection
    BY <1>12 DEF Delayed!MoveConstruct, Delayed!Exists
  <2>2. PICK h \in [Slots -> GuardValues] :
          /\ guard' = [guard EXCEPT ![t] = h]
          /\ \A o \in Objects : Cardinality(Guards(h, o))
                                  = Cardinality(Guards(g, o)) - Weight(g[s], o)
    BY <1>11, <1>12, <2>1 DEF Delayed!MoveConstruct
  <2>3. \A o \in Objects : Cardinality(Guards(h, o))
          = Cardinality(Guards(g, o)) + [x \in Objects |-> 0][o]
    BY <1>1, <1>2, <2>1, <2>2
  <2> QED
    BY <2>1, <2>2, <2>3, NothingTold, BalanceKept
<1>13. ASSUME NEW s \in Slots, NEW from \in Slots,
              Delayed!MoveAssign(t, s, from)
       PROVE  Balance
  <2> DEFINE d == [o \in Objects |-> -Weight(g[s], o)]
  <2>1. s # from /\ g[s] \in Delayed!Pointers
    BY <1>0, <1>13 DEF Delayed!MoveAssign, Delayed!Exists, GuardValues
  <2>2. PICK h \in [Slots -> GuardValues] :
          /\ guard' = [guard EXCEPT ![t] = h]
          /\ \A o \in Objects : Cardinality(Guards(h, o))
                                  = Cardinality(Guards(g, o)) - Weight(g[s], o)
    BY <1>11, <1>13, <2>1 DEF Delayed!MoveAssign
  <2>3. \A o \in Objects :
          Cardinality(Guards(h, o)) = Cardinality(Guards(g, o)) + d[o]
    BY <1>1, <1>3, <2>2
  <2>4. ToldOf(t, d)
    BY <1>13, <2>1, UnprotectTells DEF Delayed!MoveAssign
  <2> HIDE DEF d
  <2> QED
    BY <2>2, <2>3, <2>4, BalanceKept
<1> QED
  BY <1>5, <1>6, <1>8, <1>9, <1>10, <1>12, <1>13
     DEF Delayed!UseGuards, Delayed!MoveGuards

(* A thread changes its own guards, and has none of an object that it did  *)
(* not guard before, unless it is given a guard of it.                     *)
OthersKeepGuards(t) == \A u \in Threads : u # t => guard'[u] = guard[u]

LEMMA UseGuardsOnlyMoves ==
  ASSUME Delayed!GuardTypeOK, NEW t \in Threads, Delayed!UseGuards(t)
  PROVE  /\ OthersKeepGuards(t)
         /\ \A o \in Objects :
              Delayed!Guarding(t, o)' # {} => Delayed!Guarding(t, o) # {}
<1> USE DEF Delayed!Exists, Delayed!GuardTypeOK, Delayed!Null, Delayed!Pointer
<1>1. OthersKeepGuards(t)
  BY DEF OthersKeepGuards, Delayed!UseGuards, Delayed!MoveGuards,
     Delayed!MoveConstruct, Delayed!MoveAssign, Delayed!MovedTo, Delayed!Empty,
     Delayed!Destruct, Delayed!Release, Delayed!Unmark
<1>2. ASSUME NEW s \in Slots, NEW o \in Objects,
             guard'[t][s] # NoGuard, guard'[t][s].to = o
      PROVE  \E v \in Slots : guard[t][v] # NoGuard /\ guard[t][v].to = o
  <2>1. NoPtr # o
    BY GuardsAssumption
  <2>2. CASE \E v \in Slots : Delayed!Empty(t, v)
    BY <1>2, <2>1, <2>2 DEF Delayed!Empty
  <2>3. CASE \E v \in Slots : Delayed!Destruct(t, v)
    BY <1>2, <2>1, <2>3 DEF Delayed!Destruct
  <2>4. CASE \E v \in Slots : Delayed!Release(t, v)
    BY <1>2, <2>1, <2>4 DEF Delayed!Release
  <2>5. CASE \E v \in Slots : Delayed!Unmark(t, v)
    <3>1. PICK v \in Slots : Delayed!Unmark(t, v)
      BY <2>5
    <3>2. CASE v = s
      <4>1. guard[t][s] # NoGuard /\ guard[t][s] \in Delayed!Pointers
        BY <3>1, <3>2 DEF Delayed!Unmark
      <4>2. guard'[t][s] = [guard[t][s] EXCEPT !.marked = FALSE]
        BY <3>1, <3>2 DEF Delayed!Unmark
      <4> QED
        BY <1>2, <4>1, <4>2 DEF Delayed!Pointers
    <3>3. CASE v # s
      BY <1>2, <3>1, <3>3 DEF Delayed!Unmark
    <3> QED
      BY <3>2, <3>3
  <2>6. CASE Delayed!MoveGuards(t)
    <3>1. PICK v \in Slots, from \in Slots :
            Delayed!Exists(t, from) /\ Delayed!MovedTo(t, v, from)
      BY <2>6 DEF Delayed!MoveGuards, Delayed!MoveConstruct, Delayed!MoveAssign
    <3>2. guard'[t][s] \in {guard[t][s], guard[t][from], Delayed!Null}
      BY <3>1 DEF Delayed!MovedTo, Delayed!SourceAfter
    <3> QED
      BY <1>2, <2>1, <3>1, <3>2
  <2> QED
    BY <2>2, <2>3, <2>4, <2>5, <2>6 DEF Delayed!UseGuards
<1> QED
  BY <1>1, <1>2 DEF Delayed!Guarding

LEMMA GuardAddsOne ==
  ASSUME Delayed!GuardTypeOK, NEW t \in Threads, NEW s \in Slots,
         NEW p \in Delayed!Pointers, Delayed!Guard(t, s, p)
  PROVE  /\ OthersKeepGuards(t)
         /\ \A o \in Objects :
              Delayed!Guarding(t, o)' # {} =>
                p.to = o \/ Delayed!Guarding(t, o) # {}
BY DEF Delayed!GuardTypeOK, Delayed!Guard, Delayed!Exists, Delayed!Guarding,
   OthersKeepGuards

(* The steps that leave the guards as they are.                            *)
LEMMA GuardsUnchanged ==
  ASSUME Delayed!GuardTypeOK, Delayed!GuardsBalance,
         UNCHANGED <<guard, protection>>
  PROVE  /\ Delayed!GuardTypeOK' /\ Delayed!GuardsBalance'
         /\ \A t \in Threads, o \in Objects :
              Delayed!Guarding(t, o)' = Delayed!Guarding(t, o)
         /\ \A t \in Threads : Delayed!HasGuards(t)' <=> Delayed!HasGuards(t)
<1>1. \A t \in Threads, o \in Objects :
        Delayed!Guarding(t, o)' = Delayed!Guarding(t, o)
  BY DEF Delayed!Guarding, Delayed!Exists
<1>2. \A t \in Threads : Delayed!HasGuards(t)' <=> Delayed!HasGuards(t)
  BY DEF Delayed!HasGuards, Delayed!Exists
<1>3. Delayed!GuardTypeOK'
  BY DEF Delayed!GuardTypeOK
<1>4. ASSUME NEW t \in Threads, NEW o \in Objects
      PROVE  protection'[t][o]
               = Delayed!Cardinality(Delayed!Guarding(t, o))'
  <2>1. protection[t][o] = Delayed!Cardinality(Delayed!Guarding(t, o))
    BY DEF Delayed!GuardsBalance
  <2>2. Delayed!Cardinality(Delayed!Guarding(t, o))'
          = Delayed!Cardinality(Delayed!Guarding(t, o))
    BY DEF Delayed!Guarding, Delayed!Exists, Delayed!Cardinality
  <2> QED
    BY <2>1, <2>2
<1> QED
  BY <1>1, <1>2, <1>3, <1>4 DEF Delayed!GuardsBalance

(* The steps that only use guards.                                         *)
LEMMA GuardsUsed ==
  ASSUME Delayed!IndInv, NEW t \in Threads, ~finished[t],
         Delayed!GuardTypeOK', Delayed!GuardsBalance', OthersKeepGuards(t),
         \A o \in Objects : Delayed!Guarding(t, o)' # {} =>
           mem[o] # "free" /\ (mem[o] = "private" => made[t] = o),
         UNCHANGED <<cell, mem, made, pending, freelist, finished>>
  PROVE  Delayed!IndInv'
<1>1. Delayed!TypeOK'
  BY DEF Delayed!IndInv, Delayed!StateInv, Delayed!TypeOK
<1>2. Delayed!RetiredIsListedOnce'
  BY DEF Delayed!IndInv, Delayed!StateInv, Delayed!RetiredIsListedOnce,
     Delayed!WaitsOnlyAt, Delayed!Waits, Delayed!Positions
<1>3. Delayed!ObjectsApart'
  BY DEF Delayed!IndInv, Delayed!ObjectsApart
<1>4. ASSUME NEW u \in Threads, NEW o \in Objects,
             Delayed!Guarding(u, o)' # {}
      PROVE  mem[o] # "free" /\ (mem[o] = "private" => made[u] = o)
  <2>1. CASE u = t
    BY <1>4, <2>1
  <2>2. CASE u # t
    <3>1. Delayed!Guarding(u, o)' = Delayed!Guarding(u, o)
      BY <2>2 DEF Delayed!Guarding, Delayed!Exists, OthersKeepGuards
    <3> QED
      BY <1>4, <3>1 DEF Delayed!IndInv, Delayed!GuardsAreBacked
  <2> QED
    BY <2>1, <2>2
<1>5. ASSUME NEW u \in Threads, finished[u]
      PROVE  ~Delayed!HasGuards(u)' /\ made[u] = NoPtr /\ pending[u] = NoPtr
  <2>1. u # t /\ guard'[u] = guard[u]
    BY <1>5 DEF OthersKeepGuards
  <2>2. ~Delayed!HasGuards(u)
    BY <1>5 DEF Delayed!IndInv, Delayed!GuardsAreBacked
  <2>3. ~Delayed!HasGuards(u)'
    BY <2>1, <2>2 DEF Delayed!HasGuards, Delayed!Exists
  <2> QED
    BY <1>5, <2>3 DEF Delayed!IndInv, Delayed!GuardsAreBacked
<1> QED
  BY <1>1, <1>2, <1>3, <1>4, <1>5 DEF Delayed!IndInv, Delayed!StateInv,
     Delayed!GuardsAreBacked

LEMMA GuardStepIndInv ==
  ASSUME Delayed!IndInv, NEW t \in Threads, ~finished[t],
         UNCHANGED <<cell, mem, made, pending, freelist, finished>>,
         \/ Delayed!UseGuards(t)
         \/ \E s \in Slots, o \in Objects : Delayed!ProtectRaw(t, s, o)
         \/ \E c \in Cells, s \in Slots : Delayed!ProtectCell(t, s, c)
  PROVE  Delayed!IndInv'
<1>0. Delayed!GuardTypeOK /\ Delayed!GuardsBalance /\ Delayed!TypeOK
  BY DEF Delayed!IndInv, Delayed!StateInv, Delayed!TypeOK
<1>1. \A o \in Objects : Delayed!Guarding(t, o) # {} =>
        mem[o] # "free" /\ (mem[o] = "private" => made[t] = o)
  BY DEF Delayed!IndInv, Delayed!GuardsAreBacked
<1>2. CASE Delayed!UseGuards(t)
  <2>1. Delayed!GuardTypeOK' /\ Delayed!GuardsBalance'
    BY <1>0, <1>2, GuardBalance
  <2> QED
    BY <1>0, <1>1, <1>2, <2>1, UseGuardsOnlyMoves, GuardsUsed
<1>3. ASSUME NEW s \in Slots, NEW p \in Delayed!Pointers,
             Delayed!Guard(t, s, p),
             p.to # NoPtr =>
               /\ mem[p.to] # "free"
               /\ mem[p.to] = "private" => made[t] = p.to
      PROVE  Delayed!IndInv'
  <2>1. Delayed!GuardTypeOK' /\ Delayed!GuardsBalance'
    BY <1>0, <1>3, GuardBalance
  <2>2. \A o \in Objects : Delayed!Guarding(t, o)' # {} =>
          mem[o] # "free" /\ (mem[o] = "private" => made[t] = o)
    BY <1>0, <1>1, <1>3, GuardAddsOne, GuardsAssumption
  <2> QED
    BY <1>0, <1>3, <2>1, <2>2, GuardAddsOne, GuardsUsed
<1>4. ASSUME NEW s \in Slots, NEW o \in Objects, Delayed!ProtectRaw(t, s, o)
      PROVE  Delayed!IndInv'
  <2> DEFINE p == Delayed!Pointer(o, FALSE)
  <2>1. p \in Delayed!Pointers /\ p.to = o
    BY DEF Delayed!Pointer, Delayed!Pointers
  <2>2. mem[o] # "free" /\ (mem[o] = "private" => made[t] = o)
    BY <1>1, <1>4, GuardsAssumption DEF Delayed!ProtectRaw, Delayed!IndInv,
       Delayed!ObjectsApart
  <2> HIDE DEF p
  <2> QED
    BY <1>3, <1>4, <2>1, <2>2 DEF Delayed!ProtectRaw, p
<1>5. ASSUME NEW c \in Cells, NEW s \in Slots, Delayed!ProtectCell(t, s, c)
      PROVE  Delayed!IndInv'
  <2> DEFINE p == cell[c]
  <2>1. p \in Delayed!Pointers
    BY <1>0 DEF Delayed!TypeOK
  <2>2. p.to # NoPtr => mem[p.to] = "live"
    BY DEF Delayed!IndInv, Delayed!ObjectsApart
  <2> QED
    BY <1>3, <1>5, <2>1, <2>2 DEF Delayed!ProtectCell
<1> QED
  BY <1>2, <1>4, <1>5

(* The steps that change nothing but the memory and what a thread has      *)
(* made: neither what is shared nor what waits.                            *)
LEMMA WaitsUnchanged ==
  ASSUME Delayed!RetiredIsListedOnce, UNCHANGED <<pending, freelist>>,
         \A o \in Objects : mem'[o] = "retired" <=> mem[o] = "retired"
  PROVE  Delayed!RetiredIsListedOnce'
BY DEF Delayed!RetiredIsListedOnce, Delayed!WaitsOnlyAt, Delayed!Waits,
   Delayed!Positions

LEMMA MakeIndInv ==
  ASSUME Delayed!IndInv, NEW t \in Threads, ~finished[t],
         Delayed!DeleteRaw(t) \/ \E o \in Objects : Delayed!CreatePointer(t, o)
  PROVE  Delayed!IndInv'
<1> USE GuardsAssumption DEF Delayed!IndInv, Delayed!StateInv, Delayed!TypeOK
<1>1. CASE Delayed!DeleteRaw(t)
  <2>1. /\ made[t] # NoPtr /\ Delayed!Guarding(t, made[t]) = {}
        /\ mem' = [mem EXCEPT ![made[t]] = "free"]
        /\ made' = [made EXCEPT ![t] = NoPtr]
        /\ UNCHANGED <<guard, protection, cell, pending, freelist, finished>>
    BY <1>1 DEF Delayed!DeleteRaw, Delayed!guardVars
  <2>2. made[t] \in Objects /\ mem[made[t]] = "private"
    BY <2>1 DEF Delayed!ObjectsApart
  <2>3. /\ Delayed!GuardTypeOK' /\ Delayed!GuardsBalance'
        /\ \A u \in Threads, o \in Objects :
             Delayed!Guarding(u, o)' = Delayed!Guarding(u, o)
        /\ \A u \in Threads : Delayed!HasGuards(u)' <=> Delayed!HasGuards(u)
    BY <2>1, GuardsUnchanged
  <2>4. Delayed!TypeOK'
    BY <2>1, <2>2, <2>3
  <2>5. Delayed!RetiredIsListedOnce'
    BY <2>1, <2>2, WaitsUnchanged
  <2>6. Delayed!ObjectsApart'
    BY <2>1, <2>2 DEF Delayed!ObjectsApart
  <2>7. Delayed!GuardsAreBacked'
    <3>1. ASSUME NEW u \in Threads, NEW o \in Objects,
                 Delayed!Guarding(u, o) # {}
          PROVE  mem'[o] # "free" /\ (mem'[o] = "private" => made'[u] = o)
      <4>1. mem[o] # "free" /\ (mem[o] = "private" => made[u] = o)
        BY <3>1 DEF Delayed!GuardsAreBacked
      <4>2. o # made[t]
        BY <2>1, <2>2, <3>1, <4>1 DEF Delayed!ObjectsApart
      <4> QED
        BY <2>1, <2>2, <4>1, <4>2
    <3>2. ASSUME NEW u \in Threads, finished[u]
          PROVE  /\ ~Delayed!HasGuards(u)
                 /\ made'[u] = NoPtr /\ pending'[u] = NoPtr
      BY <2>1, <3>2 DEF Delayed!GuardsAreBacked
    <3> QED
      BY <2>1, <2>3, <3>1, <3>2 DEF Delayed!GuardsAreBacked
  <2> QED
    BY <2>3, <2>4, <2>5, <2>6, <2>7
<1>2. ASSUME NEW o \in Objects, Delayed!CreatePointer(t, o)
      PROVE  Delayed!IndInv'
  <2>1. /\ made[t] = NoPtr /\ mem[o] = "free"
        /\ mem' = [mem EXCEPT ![o] = "private"]
        /\ made' = [made EXCEPT ![t] = o]
        /\ UNCHANGED <<guard, protection, cell, pending, freelist, finished>>
    BY <1>2 DEF Delayed!CreatePointer, Delayed!guardVars
  <2>3. /\ Delayed!GuardTypeOK' /\ Delayed!GuardsBalance'
        /\ \A u \in Threads, x \in Objects :
             Delayed!Guarding(u, x)' = Delayed!Guarding(u, x)
        /\ \A u \in Threads : Delayed!HasGuards(u)' <=> Delayed!HasGuards(u)
    BY <2>1, GuardsUnchanged
  <2>4. Delayed!TypeOK'
    BY <2>1, <2>3
  <2>5. Delayed!RetiredIsListedOnce'
    BY <2>1, WaitsUnchanged
  <2>6. Delayed!ObjectsApart'
    BY <2>1 DEF Delayed!ObjectsApart
  <2>7. Delayed!GuardsAreBacked'
    <3>1. ASSUME NEW u \in Threads, NEW x \in Objects,
                 Delayed!Guarding(u, x) # {}
          PROVE  mem'[x] # "free" /\ (mem'[x] = "private" => made'[u] = x)
      <4>1. mem[x] # "free" /\ (mem[x] = "private" => made[u] = x)
        BY <3>1 DEF Delayed!GuardsAreBacked
      <4> QED
        BY <2>1, <4>1
    <3>2. ASSUME NEW u \in Threads, finished[u]
          PROVE  /\ ~Delayed!HasGuards(u)
                 /\ made'[u] = NoPtr /\ pending'[u] = NoPtr
      BY <2>1, <3>2 DEF Delayed!GuardsAreBacked
    <3> QED
      BY <2>1, <2>3, <3>1, <3>2 DEF Delayed!GuardsAreBacked
  <2> QED
    BY <2>3, <2>4, <2>5, <2>6, <2>7
<1> QED
  BY <1>1, <1>2

(* GuardsAreBacked after a step that leaves the guards as they are.        *)
LEMMA BackedAfter ==
  ASSUME Delayed!IndInv, UNCHANGED <<guard, protection>>,
         \A u \in Threads, o \in Objects : Delayed!Guarding(u, o) # {} =>
           mem'[o] # "free" /\ (mem'[o] = "private" => made'[u] = o),
         \A u \in Threads : finished'[u] =>
           ~Delayed!HasGuards(u) /\ made'[u] = NoPtr /\ pending'[u] = NoPtr
  PROVE  /\ Delayed!GuardTypeOK' /\ Delayed!GuardsBalance'
         /\ Delayed!GuardsAreBacked'
<1>1. Delayed!GuardTypeOK /\ Delayed!GuardsBalance
  BY DEF Delayed!IndInv, Delayed!StateInv, Delayed!TypeOK
<1> QED
  BY <1>1, GuardsUnchanged DEF Delayed!GuardsAreBacked

LEMMA ExchangeIndInv ==
  ASSUME Delayed!IndInv, NEW t \in Threads, ~finished[t],
         NEW c \in Cells, Delayed!Exchange(t, c)
  PROVE  Delayed!IndInv'
<1> USE GuardsAssumption DEF Delayed!IndInv, Delayed!StateInv, Delayed!TypeOK
<1> DEFINE new == made[t]
           old == cell[c].to
<1>1. /\ pending[t] = NoPtr
      /\ cell' = [cell EXCEPT ![c] = [to |-> new, marked |-> FALSE]]
      /\ pending' = [pending EXCEPT ![t] = old]
      /\ made' = [made EXCEPT ![t] = NoPtr]
      /\ mem' = [o \in Objects |-> IF o = new THEN "live" ELSE
                                   IF o = old THEN "retired" ELSE mem[o]]
      /\ UNCHANGED <<guard, protection, freelist, finished>>
  BY DEF Delayed!Exchange, Delayed!Pointer, Delayed!guardVars
<1>2. /\ new \in Objects \cup {NoPtr} /\ old \in Objects \cup {NoPtr}
      /\ new # NoPtr => mem[new] = "private"
      /\ old # NoPtr => mem[old] = "live"
  BY DEF Delayed!ObjectsApart, Delayed!Pointers
<1> HIDE DEF new, old
<1>3. Delayed!GuardTypeOK' /\ Delayed!GuardsBalance' /\ Delayed!GuardsAreBacked'
  <2>1. ASSUME NEW u \in Threads, NEW o \in Objects,
               Delayed!Guarding(u, o) # {}
        PROVE  mem'[o] # "free" /\ (mem'[o] = "private" => made'[u] = o)
    <3>1. mem[o] # "free" /\ (mem[o] = "private" => made[u] = o)
      BY <2>1 DEF Delayed!GuardsAreBacked
    <3>2. CASE mem'[o] = "private"
      <4>1. o # new /\ mem[o] = "private"
        BY <1>1, <3>2
      <4>2. u # t
        BY <3>1, <4>1 DEF new
      <4> QED
        BY <1>1, <3>1, <3>2, <4>1, <4>2
    <3> QED
      BY <1>1, <3>1, <3>2
  <2>2. ASSUME NEW u \in Threads, finished'[u]
        PROVE  /\ ~Delayed!HasGuards(u)
               /\ made'[u] = NoPtr /\ pending'[u] = NoPtr
    BY <1>1, <2>2 DEF Delayed!GuardsAreBacked
  <2> QED
    BY <1>1, <2>1, <2>2, BackedAfter
<1>4. Delayed!TypeOK'
  BY <1>1, <1>2, <1>3 DEF Delayed!Pointers
<1>5. Delayed!ObjectsApart'
  <2>1. \A d \in Cells : cell'[d].to = IF d = c THEN new ELSE cell[d].to
    BY <1>1
  <2>2. \A d \in Cells : d # c /\ cell[d].to # NoPtr
          => cell[d].to # old /\ cell[d].to # new /\ mem[cell[d].to] = "live"
    BY <1>2 DEF Delayed!ObjectsApart, old
  <2>3. \A d \in Cells : cell'[d].to # NoPtr => mem'[cell'[d].to] = "live"
    <3> SUFFICES ASSUME NEW d \in Cells, cell'[d].to # NoPtr
                 PROVE  mem'[cell'[d].to] = "live"
      OBVIOUS
    <3>1. cell'[d].to \in Objects
      BY <1>4 DEF Delayed!Pointers
    <3> QED
      BY <1>1, <2>1, <2>2, <3>1
  <2>4. \A d, e \in Cells : cell'[d].to = cell'[e].to
                              => d = e \/ cell'[d].to = NoPtr
    BY <2>1, <2>2, SMTT(40) DEF Delayed!ObjectsApart
  <2>5. \A u \in Threads : made'[u] # NoPtr =>
          u # t /\ made'[u] = made[u] /\ made[u] # new
            /\ made[u] # old /\ mem[made[u]] = "private" /\ made[u] \in Objects
    BY <1>1, <1>2 DEF Delayed!ObjectsApart, new
  <2>6. \A u \in Threads : made'[u] # NoPtr => mem'[made'[u]] = "private"
    BY <1>1, <2>5
  <2>7. \A u, v \in Threads : made'[u] = made'[v] => u = v \/ made'[u] = NoPtr
    BY <2>5 DEF Delayed!ObjectsApart
  <2> QED
    BY <2>3, <2>4, <2>6, <2>7 DEF Delayed!ObjectsApart
<1>6. Delayed!RetiredIsListedOnce'
  <2>1. \A u \in Threads : \A i \in Delayed!Positions(u), o \in Objects :
          o # old => (Delayed!Waits(u, i, o)' <=> Delayed!Waits(u, i, o))
    BY <1>1, <1>2 DEF Delayed!Waits
  <2>2. \A u \in Threads : Delayed!Positions(u)' = Delayed!Positions(u)
    BY <1>1 DEF Delayed!Positions
  <2>3. ASSUME NEW o \in Objects, o # old
        PROVE  IF mem'[o] = "retired"
               THEN \E u \in Threads : \E i \in Delayed!Positions(u) :
                      Delayed!WaitsOnlyAt(u, i, o)'
               ELSE \A u \in Threads : \A i \in Delayed!Positions(u) :
                      ~Delayed!Waits(u, i, o)'
    <3>1. mem'[o] = "retired" <=> mem[o] = "retired"
      BY <1>1, <1>2, <2>3
    <3> QED
      BY <2>1, <2>2, <2>3, <3>1
         DEF Delayed!RetiredIsListedOnce, Delayed!WaitsOnlyAt
  <2>4. ASSUME NEW o \in Objects, o = old
        PROVE  /\ mem'[o] = "retired" /\ 0 \in Delayed!Positions(t)
               /\ Delayed!WaitsOnlyAt(t, 0, o)'
    <3>1. o # new /\ mem'[o] = "retired"
      BY <1>1, <1>2, <2>4
    <3>2. 0 \in Delayed!Positions(t)
      BY DEF Delayed!Positions
    <3>3. \A u \in Threads : \A i \in Delayed!Positions(u) :
            ~Delayed!Waits(u, i, o)
      BY <1>1, <1>2, <2>4 DEF Delayed!RetiredIsListedOnce
    <3>4. Delayed!Waits(t, 0, o)'
      BY <1>1, <2>4 DEF Delayed!Waits
    <3>5. \A u \in Threads : \A i \in Delayed!Positions(u) :
            Delayed!Waits(u, i, o)' => u = t /\ i = 0
      BY <1>1, <2>4, <3>3 DEF Delayed!Waits
    <3> QED
      BY <2>2, <3>1, <3>2, <3>4, <3>5 DEF Delayed!WaitsOnlyAt
  <2>5. ASSUME NEW o \in Objects
        PROVE  IF mem'[o] = "retired"
               THEN \E u \in Threads : \E i \in Delayed!Positions(u) :
                      Delayed!WaitsOnlyAt(u, i, o)'
               ELSE \A u \in Threads : \A i \in Delayed!Positions(u) :
                      ~Delayed!Waits(u, i, o)'
    <3>1. CASE o = old
      BY <2>4, <3>1
    <3> QED
      BY <2>3, <3>1
  <2> QED
    BY <2>2, <2>5 DEF Delayed!RetiredIsListedOnce
<1> QED
  BY <1>3, <1>4, <1>5, <1>6

LEMMA SafeDeleteIndInv ==
  ASSUME Delayed!IndInv, NEW t \in Threads, ~finished[t], Delayed!SafeDelete(t),
         NEW n \in Nat, n = Len(freelist[t])
  PROVE  Delayed!IndInv'
<1> USE GuardsAssumption DEF Delayed!IndInv, Delayed!StateInv, Delayed!TypeOK
<1> DEFINE old == pending[t]
<1>1. /\ old \in Objects
      /\ freelist' = [freelist EXCEPT ![t] = Append(@, old)]
      /\ pending' = [pending EXCEPT ![t] = NoPtr]
      /\ UNCHANGED <<guard, protection, cell, mem, made, finished>>
  BY DEF Delayed!SafeDelete, Delayed!Delay, Delayed!guardVars
<1>2. /\ freelist'[t] \in Seq(Objects) /\ Len(freelist'[t]) = n + 1
      /\ \A i \in 1 .. n : freelist'[t][i] = freelist[t][i]
      /\ freelist'[t][n + 1] = old
      /\ \A u \in Threads : u # t => freelist'[u] = freelist[u]
  BY <1>1
<1> HIDE DEF old
<1>3. Delayed!GuardTypeOK' /\ Delayed!GuardsBalance' /\ Delayed!GuardsAreBacked'
  BY <1>1, BackedAfter DEF Delayed!GuardsAreBacked
<1>4. Delayed!TypeOK'
  BY <1>1, <1>2, <1>3
<1>5. Delayed!ObjectsApart'
  BY <1>1 DEF Delayed!ObjectsApart
<1>6. Delayed!RetiredIsListedOnce'
  <2>1. \A u \in Threads : Delayed!Positions(u)' =
          IF u = t THEN Delayed!Positions(u) \cup {n + 1}
                   ELSE Delayed!Positions(u)
    <3>1. \A u \in Threads : u # t =>
            Delayed!Positions(u)' = Delayed!Positions(u)
      BY <1>2 DEF Delayed!Positions
    <3>2. Delayed!Positions(t)' = 0 .. (n + 1) /\ Delayed!Positions(t) = 0 .. n
      BY <1>2 DEF Delayed!Positions
    <3>3. 0 .. (n + 1) = (0 .. n) \cup {n + 1}
      OBVIOUS
    <3> QED
      BY <3>1, <3>2, <3>3
  <2>2. /\ 0 \in Delayed!Positions(t) /\ n + 1 \notin Delayed!Positions(t)
        /\ \A u \in Threads : Delayed!Positions(u) \subseteq Nat
    BY DEF Delayed!Positions
  <2>3. Delayed!Waits(t, 0, old)
    BY DEF Delayed!Waits, old
  <2>4. ASSUME NEW u \in Threads, NEW i \in Delayed!Positions(u)',
               NEW o \in Objects
        PROVE  Delayed!Waits(u, i, o)' <=>
                 IF u = t /\ i = n + 1 THEN o = old ELSE
                 IF u = t /\ i = 0 THEN FALSE ELSE Delayed!Waits(u, i, o)
    <3>1. CASE u # t
      BY <1>1, <1>2, <3>1 DEF Delayed!Waits
    <3>2. CASE u = t /\ i = 0
      BY <1>1, <3>2 DEF Delayed!Waits
    <3>3. CASE u = t /\ i = n + 1
      BY <1>1, <1>2, <3>3 DEF Delayed!Waits
    <3>4. CASE u = t /\ i # 0 /\ i # n + 1
      <4>1. i \in 1 .. n
        <5>1. i \in 0 .. n
          BY <2>1, <3>4 DEF Delayed!Positions
        <5> QED
          BY <3>4, <5>1
      <4> QED
        BY <1>1, <1>2, <3>4, <4>1 DEF Delayed!Waits
    <3> QED
      BY <3>1, <3>2, <3>3, <3>4
  <2>5. ASSUME NEW o \in Objects
        PROVE  IF mem'[o] = "retired"
               THEN \E u \in Threads : \E i \in Delayed!Positions(u)' :
                      Delayed!WaitsOnlyAt(u, i, o)'
               ELSE \A u \in Threads : \A i \in Delayed!Positions(u)' :
                      ~Delayed!Waits(u, i, o)'
    <3>1. mem'[o] = mem[o] /\ (o # old => ~Delayed!Waits(t, 0, o))
      BY <1>1 DEF Delayed!Waits, old
    <3>2. CASE o = old
      <4>1. mem[o] = "retired"
        BY <2>2, <2>3, <3>2 DEF Delayed!RetiredIsListedOnce
      <4>2. PICK v \in Threads : \E k \in Delayed!Positions(v) :
              Delayed!WaitsOnlyAt(v, k, o)
        BY <4>1 DEF Delayed!RetiredIsListedOnce
      <4>3. \A u \in Threads : \A i \in Delayed!Positions(u) :
              Delayed!Waits(u, i, o) => u = t /\ i = 0
        BY <2>2, <2>3, <3>2, <4>2 DEF Delayed!WaitsOnlyAt
      <4>4. n + 1 \in Delayed!Positions(t)'
        BY <2>1
      <4>5. Delayed!Waits(t, n + 1, o)'
        BY <2>4, <3>2, <4>4
      <4>6. \A u \in Threads : \A i \in Delayed!Positions(u)' :
              Delayed!Waits(u, i, o)' => u = t /\ i = n + 1
        BY <2>1, <2>4, <4>3
      <4>7. Delayed!WaitsOnlyAt(t, n + 1, o)'
        BY <4>5, <4>6 DEF Delayed!WaitsOnlyAt
      <4> QED
        BY <3>1, <4>1, <4>4, <4>7
    <3>3. CASE o # old
      <4>1. \A u \in Threads : \A i \in Delayed!Positions(u)' :
              Delayed!Waits(u, i, o)' <=>
                i \in Delayed!Positions(u) /\ Delayed!Waits(u, i, o)
        BY <2>1, <2>2, <2>4, <3>1, <3>3
      <4>2. \A u \in Threads : Delayed!Positions(u) \subseteq Delayed!Positions(u)'
        BY <2>1
      <4>3. CASE mem[o] = "retired"
        <5>0. PICK u \in Threads : \E i \in Delayed!Positions(u) :
                Delayed!WaitsOnlyAt(u, i, o)
          BY <4>3 DEF Delayed!RetiredIsListedOnce
        <5>1. PICK i \in Delayed!Positions(u) : Delayed!WaitsOnlyAt(u, i, o)
          BY <5>0
        <5>2. Delayed!WaitsOnlyAt(u, i, o)'
          BY <4>1, <4>2, <5>1 DEF Delayed!WaitsOnlyAt
        <5> QED
          BY <3>1, <4>2, <4>3, <5>1, <5>2
      <4>4. CASE mem[o] # "retired"
        BY <3>1, <4>1, <4>4 DEF Delayed!RetiredIsListedOnce
      <4> QED
        BY <4>3, <4>4
    <3> QED
      BY <3>2, <3>3
  <2> QED
    BY <2>5 DEF Delayed!RetiredIsListedOnce
<1> QED
  BY <1>3, <1>4, <1>5, <1>6

LEMMA DestroyIndInv ==
  ASSUME Delayed!IndInv, NEW t \in Threads, Delayed!DestroyNext(t),
         NEW n \in Nat, n = Len(freelist[t])
  PROVE  Delayed!IndInv'
<1> USE GuardsAssumption DEF Delayed!IndInv, Delayed!StateInv, Delayed!TypeOK
<1> DEFINE old == Head(freelist[t])
<1>1. /\ \A u \in Threads : finished[u]
      /\ freelist[t] # << >> /\ freelist[t] \in Seq(Objects)
      /\ mem' = [mem EXCEPT ![old] = "free"]
      /\ freelist' = [freelist EXCEPT ![t] = Tail(@)]
      /\ UNCHANGED <<guard, protection, cell, made, pending, finished>>
  BY DEF Delayed!DestroyNext, Delayed!FreelistAfter, Delayed!AllFinished,
     Delayed!guardVars
<1>2. /\ n > 0 /\ old \in Objects /\ old = freelist[t][1]
      /\ freelist'[t] \in Seq(Objects) /\ Len(freelist'[t]) = n - 1
      /\ \A i \in 1 .. (n - 1) : freelist'[t][i] = freelist[t][i + 1]
      /\ \A u \in Threads : u # t => freelist'[u] = freelist[u]
  BY <1>1
<1> HIDE DEF old
<1>3. \A u \in Threads : ~Delayed!HasGuards(u) /\ made[u] = NoPtr
        /\ pending[u] = NoPtr /\ \A o \in Objects : Delayed!Guarding(u, o) = {}
  BY <1>1 DEF Delayed!GuardsAreBacked, Delayed!HasGuards, Delayed!Guarding
<1>4. Delayed!GuardTypeOK' /\ Delayed!GuardsBalance' /\ Delayed!GuardsAreBacked'
  BY <1>1, <1>3, BackedAfter
<1>5. Delayed!TypeOK'
  BY <1>1, <1>2, <1>4
<1>6. 1 \in Delayed!Positions(t) /\ Delayed!Waits(t, 1, freelist[t][1])
  BY <1>2 DEF Delayed!Positions, Delayed!Waits
<1>7. /\ mem[old] = "retired"
      /\ \A u \in Threads : \A i \in Delayed!Positions(u) :
           Delayed!Waits(u, i, old) => u = t /\ i = 1
  <2>1. mem[old] = "retired"
    BY <1>2, <1>6 DEF Delayed!RetiredIsListedOnce
  <2>2. PICK v \in Threads : \E k \in Delayed!Positions(v) :
          Delayed!WaitsOnlyAt(v, k, old)
    BY <1>2, <2>1 DEF Delayed!RetiredIsListedOnce
  <2> QED
    BY <1>2, <1>6, <2>1, <2>2 DEF Delayed!WaitsOnlyAt
<1>8. Delayed!ObjectsApart'
  BY <1>1, <1>3, <1>7 DEF Delayed!ObjectsApart
<1>9. Delayed!RetiredIsListedOnce'
  <2>1. /\ \A u \in Threads : u # t =>
             Delayed!Positions(u)' = Delayed!Positions(u)
        /\ Delayed!Positions(t)' = 0 .. (n - 1)
        /\ Delayed!Positions(t) = 0 .. n
    BY <1>2 DEF Delayed!Positions
  <2>2. \A u \in Threads : \A i \in Delayed!Positions(u)', o \in Objects :
          u # t => (Delayed!Waits(u, i, o)' <=> Delayed!Waits(u, i, o))
    BY <1>1, <1>2 DEF Delayed!Waits
  <2>3. \A i \in 1 .. (n - 1) : \A o \in Objects :
          Delayed!Waits(t, i, o)' <=> Delayed!Waits(t, i + 1, o)
    BY <1>2 DEF Delayed!Waits
  <2>4. \A o \in Objects :
          ~Delayed!Waits(t, 0, o)' /\ ~Delayed!Waits(t, 0, o)
    BY <1>1, <1>3 DEF Delayed!Waits
  <2>5. ASSUME NEW o \in Objects, mem'[o] = "retired"
        PROVE  \E u \in Threads : \E i \in Delayed!Positions(u)' :
                 Delayed!WaitsOnlyAt(u, i, o)'
    <3>1. mem[o] = "retired" /\ o # old
      BY <1>1, <1>2, <2>5
    <3>2. PICK u \in Threads : \E i \in Delayed!Positions(u) :
            Delayed!WaitsOnlyAt(u, i, o)
      BY <3>1 DEF Delayed!RetiredIsListedOnce
    <3>3. PICK i \in Delayed!Positions(u) : Delayed!WaitsOnlyAt(u, i, o)
      BY <3>2
    <3>4. CASE u # t
      <4>1. i \in Delayed!Positions(u)' /\ Delayed!Waits(u, i, o)'
        BY <2>1, <2>2, <3>3, <3>4 DEF Delayed!WaitsOnlyAt
      <4>2. ASSUME NEW v \in Threads, NEW k \in Delayed!Positions(v)',
                   Delayed!Waits(v, k, o)'
            PROVE  v = u /\ k = i
        <5>1. CASE v # t
          BY <2>1, <2>2, <3>3, <4>2, <5>1 DEF Delayed!WaitsOnlyAt
        <5>2. CASE v = t
          <6>1. k \in 1 .. (n - 1)
            BY <2>1, <2>4, <4>2, <5>2
          <6>2. Delayed!Waits(t, k + 1, o) /\ k + 1 \in Delayed!Positions(t)
            BY <2>1, <2>3, <4>2, <5>2, <6>1
          <6> QED
            BY <3>3, <3>4, <6>2 DEF Delayed!WaitsOnlyAt
        <5> QED
          BY <5>1, <5>2
      <4> QED
        BY <4>1, <4>2 DEF Delayed!WaitsOnlyAt
    <3>5. CASE u = t
      <4>1. i \in 0 .. n /\ i # 0 /\ i # 1
        BY <1>2, <2>1, <2>4, <3>1, <3>3, <3>5
           DEF Delayed!WaitsOnlyAt, Delayed!Waits
      <4>2. i - 1 \in 1 .. (n - 1) /\ i - 1 \in Delayed!Positions(t)'
        BY <2>1, <4>1
      <4>3. Delayed!Waits(t, i - 1, o)'
        <5>1. Delayed!Waits(t, (i - 1) + 1, o)
          BY <3>3, <3>5, <4>1 DEF Delayed!WaitsOnlyAt
        <5> QED
          BY <2>3, <4>2, <5>1
      <4>4. ASSUME NEW v \in Threads, NEW k \in Delayed!Positions(v)',
                   Delayed!Waits(v, k, o)'
            PROVE  v = t /\ k = i - 1
        <5>1. CASE v # t
          BY <2>1, <2>2, <3>3, <3>5, <4>4, <5>1 DEF Delayed!WaitsOnlyAt
        <5>2. CASE v = t
          <6>1. k \in 1 .. (n - 1)
            BY <2>1, <2>4, <4>4, <5>2
          <6>2. Delayed!Waits(t, k + 1, o) /\ k + 1 \in Delayed!Positions(t)
            BY <2>1, <2>3, <4>4, <5>2, <6>1
          <6>3. k + 1 = i
            BY <3>3, <6>2 DEF Delayed!WaitsOnlyAt
          <6> QED
            BY <5>2, <6>1, <6>3
        <5> QED
          BY <5>1, <5>2
      <4> QED
        BY <4>2, <4>3, <4>4 DEF Delayed!WaitsOnlyAt
    <3> QED
      BY <3>4, <3>5
  <2>6. ASSUME NEW o \in Objects, mem'[o] # "retired",
               NEW u \in Threads, NEW i \in Delayed!Positions(u)',
               Delayed!Waits(u, i, o)'
        PROVE  FALSE
    <3>1. PICK k \in Delayed!Positions(u) : Delayed!Waits(u, k, o)
      <4>1. CASE u # t
        BY <2>1, <2>2, <2>6, <4>1
      <4>2. CASE u = t
        <5>1. i \in 1 .. (n - 1)
          BY <2>1, <2>4, <2>6, <4>2
        <5>2. Delayed!Waits(t, i + 1, o) /\ i + 1 \in Delayed!Positions(t)
          BY <2>1, <2>3, <2>6, <4>2, <5>1
        <5> QED
          BY <4>2, <5>2
      <4> QED
        BY <4>1, <4>2
    <3>2. mem[o] = "retired" /\ o = old
      BY <1>1, <2>6, <3>1 DEF Delayed!RetiredIsListedOnce
    <3>3. u = t
      BY <1>7, <3>1, <3>2
    <3>4. i \in 1 .. (n - 1)
      BY <2>1, <2>4, <2>6, <3>3
    <3>5. Delayed!Waits(t, i + 1, o) /\ i + 1 \in Delayed!Positions(t)
      BY <2>1, <2>3, <2>6, <3>3, <3>4
    <3> QED
      BY <1>7, <3>2, <3>4, <3>5
  <2> QED
    BY <2>5, <2>6 DEF Delayed!RetiredIsListedOnce
<1> QED
  BY <1>4, <1>5, <1>8, <1>9

LEMMA QuietIndInv ==
  ASSUME Delayed!IndInv,
         \/ \E c \in Cells : Delayed!MarkCell(c)
         \/ \E t \in Threads : Delayed!Finish(t)
         \/ Delayed!GetHandles
  PROVE  Delayed!IndInv'
<1> USE GuardsAssumption DEF Delayed!IndInv, Delayed!StateInv, Delayed!TypeOK
<1>1. UNCHANGED <<guard, protection, mem, made, pending, freelist>>
  BY DEF Delayed!MarkCell, Delayed!Finish, Delayed!GetHandles, Delayed!guardVars
<1>2. /\ cell' \in [Cells -> Delayed!Pointers]
      /\ \A c \in Cells : cell'[c].to = cell[c].to
  <2>1. CASE UNCHANGED cell
    BY <2>1
  <2>2. ASSUME NEW c \in Cells, Delayed!MarkCell(c)
        PROVE  /\ cell' \in [Cells -> Delayed!Pointers]
               /\ \A d \in Cells : cell'[d].to = cell[d].to
    <3> DEFINE p == [cell[c] EXCEPT !.marked = TRUE]
    <3>1. p \in Delayed!Pointers /\ p.to = cell[c].to
      BY DEF Delayed!Pointers
    <3>2. cell' = [cell EXCEPT ![c] = p]
      BY <2>2 DEF Delayed!MarkCell
    <3> HIDE DEF p
    <3> QED
      BY <3>1, <3>2
  <2> QED
    BY <2>1, <2>2 DEF Delayed!Finish, Delayed!GetHandles
<1>3. /\ finished' \in [Threads -> BOOLEAN]
      /\ \A u \in Threads : finished'[u] =>
           ~Delayed!HasGuards(u) /\ made[u] = NoPtr /\ pending[u] = NoPtr
  BY DEF Delayed!MarkCell, Delayed!Finish, Delayed!GetHandles,
     Delayed!GuardsAreBacked
<1>4. Delayed!GuardTypeOK' /\ Delayed!GuardsBalance' /\ Delayed!GuardsAreBacked'
  BY <1>1, <1>3, BackedAfter DEF Delayed!GuardsAreBacked
<1>5. Delayed!TypeOK'
  BY <1>1, <1>2, <1>3, <1>4
<1>6. Delayed!ObjectsApart'
  BY <1>1, <1>2 DEF Delayed!ObjectsApart
<1>7. Delayed!RetiredIsListedOnce'
  BY <1>1, WaitsUnchanged
<1> QED
  BY <1>4, <1>5, <1>6, <1>7

LEMMA DelayedStep == Delayed!IndInv /\ Delayed!Next => Delayed!IndInv'
<1> SUFFICES ASSUME Delayed!IndInv, Delayed!Next PROVE Delayed!IndInv'
  OBVIOUS
<1>1. ASSUME NEW t \in Threads, ~finished[t], Delayed!Working(t)
      PROVE  Delayed!IndInv'
  <2>1. CASE Delayed!DeleteRaw(t) \/ \E o \in Objects : Delayed!CreatePointer(t, o)
    BY <1>1, <2>1, MakeIndInv
  <2>2. CASE Delayed!SafeDelete(t)
    <3>1. PICK n \in Nat : n = Len(freelist[t])
      BY DEF Delayed!IndInv, Delayed!StateInv, Delayed!TypeOK
    <3> QED
      BY <1>1, <2>2, <3>1, SafeDeleteIndInv
  <2>3. CASE \E c \in Cells : Delayed!Exchange(t, c)
    BY <1>1, <2>3, ExchangeIndInv
  <2>4. CASE Delayed!Finish(t) \/ \E c \in Cells : Delayed!MarkCell(c)
    BY <2>4, QuietIndInv
  <2>5. CASE \/ Delayed!UseGuards(t) /\ UNCHANGED Delayed!progVars
             \/ \E s \in Slots, o \in Objects : Delayed!ProtectRaw(t, s, o)
             \/ \E c \in Cells, s \in Slots : Delayed!ProtectCell(t, s, c)
    <3>1. UNCHANGED <<cell, mem, made, pending, freelist, finished>>
      BY <2>5 DEF Delayed!progVars, Delayed!ProtectRaw, Delayed!ProtectCell
    <3> QED
      BY <1>1, <2>5, <3>1, GuardStepIndInv
  <2> QED
    BY <1>1, <2>1, <2>2, <2>3, <2>4, <2>5 DEF Delayed!Working
<1>2. ASSUME NEW t \in Threads, Delayed!DestroyNext(t) PROVE Delayed!IndInv'
  <2>1. PICK n \in Nat : n = Len(freelist[t])
    BY DEF Delayed!IndInv, Delayed!StateInv, Delayed!TypeOK
  <2> QED
    BY <1>2, <2>1, DestroyIndInv
<1> QED
  BY <1>1, <1>2, QuietIndInv DEF Delayed!Next

LEMMA DelayedInvariant == PartSpec => []Delayed!IndInv
<1>1. PartInit => Delayed!IndInv
  <2> SUFFICES ASSUME PartInit PROVE Delayed!IndInv
    OBVIOUS
  <2>1. Delayed!Init
    BY DEF PartInit
  <2> USE <2>1, GuardsAssumption DEF Delayed!Init, Delayed!GuardInit
  <2>2. Delayed!TypeOK
    BY DEF Delayed!TypeOK, Delayed!GuardTypeOK, Delayed!Null, Delayed!Pointer,
       Delayed!Pointers
  <2>3. \A t \in Threads, o \in Objects : Delayed!Guarding(t, o) = {}
    BY DEF Delayed!Guarding, Delayed!Exists
  <2>4. Delayed!GuardsBalance
    <3>1. Delayed!Cardinality({}) = 0
      BY FS_EmptySet DEF Delayed!Cardinality, Cardinality
    <3> QED
      BY <2>3, <3>1 DEF Delayed!GuardsBalance
  <2>5. Delayed!RetiredIsListedOnce
    BY DEF Delayed!RetiredIsListedOnce, Delayed!Positions, Delayed!Waits
  <2>6. Delayed!ObjectsApart
    BY DEF Delayed!ObjectsApart, Delayed!Null, Delayed!Pointer
  <2>7. Delayed!GuardsAreBacked
    BY <2>3 DEF Delayed!GuardsAreBacked
  <2> QED
    BY <2>2, <2>4, <2>5, <2>6, <2>7 DEF Delayed!IndInv, Delayed!StateInv
<1>2. Delayed!IndInv /\ UNCHANGED delayedVars => Delayed!IndInv'
  <2> SUFFICES ASSUME Delayed!IndInv, UNCHANGED delayedVars
               PROVE  Delayed!IndInv'
    OBVIOUS
  <2>1. UNCHANGED <<guard, protection, cell, mem, made, pending, freelist,
                    finished>>
    BY DEF delayedVars
  <2>2. Delayed!TypeOK' /\ Delayed!RetiredIsListedOnce' /\ Delayed!ObjectsApart'
    BY <2>1 DEF Delayed!IndInv, Delayed!StateInv, Delayed!TypeOK,
       Delayed!GuardTypeOK, Delayed!RetiredIsListedOnce, Delayed!WaitsOnlyAt,
       Delayed!Waits, Delayed!Positions, Delayed!ObjectsApart
  <2>3. Delayed!GuardsBalance' /\ Delayed!GuardsAreBacked'
    BY <2>1, BackedAfter DEF Delayed!IndInv, Delayed!GuardsAreBacked
  <2> QED
    BY <2>2, <2>3 DEF Delayed!IndInv, Delayed!StateInv
<1>3. [PartNext]_allVars => Delayed!Next \/ UNCHANGED delayedVars
  BY DEF PartNext, BufferNext, ListNext, DelayedNext, ZipfNext, MarksNext,
     allVars
<1> QED
  BY <1>1, <1>2, <1>3, DelayedStep, PTL DEF PartSpec

(* Guards and protections balance however guards are moved, assigned and   *)
(* released, and every retired object is on exactly one free list, once:   *)
(* the destructors of the handles destroy it exactly once.                 *)
THEOREM DelayedIsConsistent == PartSpec => []DelayedStateInv
<1>1. Delayed!IndInv => DelayedStateInv
  BY DEF Delayed!IndInv, DelayedStateInv
<1> QED
  BY <1>1, DelayedInvariant, PTL

(* The refinement of SafeReclamation: what its threads hold are the        *)
(* protections, which balance the guards.                                  *)
LEMMA HeldIsProtection ==
  ASSUME Delayed!GuardTypeOK, Delayed!GuardsBalance
  PROVE  [t \in Threads |-> [o \in Objects |->
            Delayed!Cardinality(Delayed!Guarding(t, o))]] = protection
BY DEF Delayed!GuardTypeOK, Delayed!GuardsBalance

HeldInv ==
  [t \in Threads |-> [o \in Objects |->
     Delayed!Cardinality(Delayed!Guarding(t, o))]] = protection

LEMMA ToldIsContract ==
  ASSUME Delayed!IndInv, HeldInv, HeldInv', NEW t \in Threads,
         NEW o \in Objects, UNCHANGED <<cell, mem>>,
         \/ /\ mem[o] = "private" \/ protection[t][o] > 0
                 \/ \E c \in Cells : cell[c].to = o
            /\ protection' = [protection EXCEPT ![t][o] = @ + 1]
         \/ /\ protection[t][o] > 0
            /\ protection' = [protection EXCEPT ![t][o] = @ - 1]
  PROVE  Delayed!Contract!Next
<1>1. [c \in Cells |-> cell[c].to]' = [c \in Cells |-> cell[c].to]
  OBVIOUS
<1>2. CASE /\ mem[o] = "private" \/ protection[t][o] > 0
                \/ \E c \in Cells : cell[c].to = o
           /\ protection' = [protection EXCEPT ![t][o] = @ + 1]
  <2>1. Delayed!Contract!Protect(t, o)
    BY <1>1, <1>2 DEF Delayed!Contract!Protect, HeldInv
  <2> QED
    BY <2>1 DEF Delayed!Contract!Next
<1>3. CASE /\ protection[t][o] > 0
           /\ protection' = [protection EXCEPT ![t][o] = @ - 1]
  <2>1. Delayed!Contract!Unprotect(t, o)
    BY <1>1, <1>3 DEF Delayed!Contract!Unprotect, HeldInv
  <2> QED
    BY <2>1 DEF Delayed!Contract!Next
<1> QED
  BY <1>2, <1>3

LEMMA ProtectionCounts ==
  ASSUME Delayed!IndInv, NEW t \in Threads, NEW o \in Objects
  PROVE  /\ protection[t][o] \in Nat
         /\ Delayed!Guarding(t, o) # {} <=> protection[t][o] > 0
<1>1. Delayed!GuardTypeOK /\ Delayed!GuardsBalance
  BY DEF Delayed!IndInv, Delayed!StateInv, Delayed!TypeOK
<1>2. protection[t][o] = Cardinality(Guards(guard[t], o))
  BY <1>1, GuardingIs DEF Delayed!GuardsBalance
<1>3. guard[t] \in [Slots -> GuardValues]
  BY <1>1, GuardingIs
<1>4. /\ IsFiniteSet(Guards(guard[t], o))
      /\ Cardinality(Guards(guard[t], o)) \in Nat
  BY <1>3, CountGuards
<1>5. Cardinality(Guards(guard[t], o)) = 0 <=> Guards(guard[t], o) = {}
  BY <1>4, FS_EmptySet
<1>6. Delayed!Guarding(t, o) = Guards(guard[t], o)
  BY <1>1, GuardingIs
<1> QED
  BY <1>2, <1>4, <1>5, <1>6

LEMMA GuardStepKeepsContract ==
  ASSUME Delayed!IndInv, HeldInv, HeldInv', NEW t \in Threads,
         UNCHANGED <<cell, mem>>,
         \/ Delayed!UseGuards(t)
         \/ \E s \in Slots, o \in Objects : Delayed!ProtectRaw(t, s, o)
         \/ \E c \in Cells, s \in Slots : Delayed!ProtectCell(t, s, c)
  PROVE  [Delayed!Contract!Next]_(Delayed!Contract!vars)
<1>1. CASE UNCHANGED protection
  BY <1>1 DEF Delayed!Contract!vars, HeldInv
<1>2. ASSUME NEW p \in Delayed!Pointers, Delayed!Protect(t, p),
             p.to # NoPtr => \/ mem[p.to] = "private"
                             \/ protection[t][p.to] > 0
                             \/ \E c \in Cells : cell[c].to = p.to
      PROVE  [Delayed!Contract!Next]_(Delayed!Contract!vars)
  <2>1. CASE p.to = NoPtr
    BY <1>1, <1>2, <2>1 DEF Delayed!Protect, Delayed!Told
  <2>2. CASE p.to # NoPtr
    <3>1. PICK o \in Objects : o = p.to
      BY <2>2 DEF Delayed!Pointers
    <3>2. protection' = [protection EXCEPT ![t][o] = @ + 1]
      BY <1>2, <2>2, <3>1 DEF Delayed!Protect, Delayed!Told
    <3> QED
      BY <1>2, <2>2, <3>1, <3>2, ToldIsContract
  <2> QED
    BY <2>1, <2>2
<1>3. ASSUME NEW s \in Slots, Delayed!Exists(t, s),
             Delayed!Unprotect(t, guard[t][s])
      PROVE  [Delayed!Contract!Next]_(Delayed!Contract!vars)
  <2>1. guard[t][s] \in Delayed!Pointers
    BY <1>3 DEF Delayed!Exists, Delayed!IndInv, Delayed!StateInv,
       Delayed!TypeOK, Delayed!GuardTypeOK
  <2>2. CASE guard[t][s].to = NoPtr
    BY <1>1, <1>3, <2>2 DEF Delayed!Unprotect, Delayed!Told
  <2>3. CASE guard[t][s].to # NoPtr
    <3>1. PICK o \in Objects : o = guard[t][s].to
      BY <2>1, <2>3 DEF Delayed!Pointers
    <3>2. protection[t][o] > 0
      BY <1>3, <3>1, ProtectionCounts DEF Delayed!Guarding
    <3>3. protection' = [protection EXCEPT ![t][o] = @ + -1]
      BY <1>3, <2>3, <3>1 DEF Delayed!Unprotect, Delayed!Told
    <3>4. protection' = [protection EXCEPT ![t][o] = @ - 1]
      <4>1. protection[t][o] + -1 = protection[t][o] - 1
        BY ProtectionCounts
      <4> QED
        BY <3>3, <4>1
    <3> QED
      BY <3>2, <3>4, ToldIsContract
  <2> QED
    BY <2>2, <2>3
<1>4. CASE Delayed!UseGuards(t)
  BY <1>1, <1>3, <1>4 DEF Delayed!UseGuards, Delayed!MoveGuards,
     Delayed!MoveConstruct, Delayed!MoveAssign, Delayed!Empty,
     Delayed!Destruct, Delayed!Release, Delayed!Unmark
<1>5. ASSUME NEW s \in Slots, NEW o \in Objects, Delayed!ProtectRaw(t, s, o)
      PROVE  [Delayed!Contract!Next]_(Delayed!Contract!vars)
  <2> DEFINE p == Delayed!Pointer(o, FALSE)
  <2>1. p \in Delayed!Pointers /\ p.to = o
    BY DEF Delayed!Pointer, Delayed!Pointers
  <2>2. mem[o] = "private" \/ protection[t][o] > 0
    BY <1>5, GuardsAssumption, ProtectionCounts
       DEF Delayed!ProtectRaw, Delayed!IndInv, Delayed!ObjectsApart
  <2> HIDE DEF p
  <2> QED
    BY <1>2, <1>5, <2>1, <2>2 DEF Delayed!ProtectRaw, Delayed!Guard, p
<1>6. ASSUME NEW c \in Cells, NEW s \in Slots, Delayed!ProtectCell(t, s, c)
      PROVE  [Delayed!Contract!Next]_(Delayed!Contract!vars)
  <2>1. cell[c] \in Delayed!Pointers
    BY DEF Delayed!IndInv, Delayed!StateInv, Delayed!TypeOK
  <2> QED
    BY <1>2, <1>6, <2>1 DEF Delayed!ProtectCell, Delayed!Guard
<1> QED
  BY <1>4, <1>5, <1>6

LEMMA ProgStepKeepsContract ==
  ASSUME Delayed!IndInv, HeldInv, HeldInv', NEW t \in Threads,
         \/ Delayed!DeleteRaw(t) \/ Delayed!SafeDelete(t) \/ Delayed!Finish(t)
         \/ Delayed!DestroyNext(t) \/ Delayed!GetHandles
         \/ \E o \in Objects : Delayed!CreatePointer(t, o)
         \/ \E c \in Cells : Delayed!Exchange(t, c) \/ Delayed!MarkCell(c)
  PROVE  [Delayed!Contract!Next]_(Delayed!Contract!vars)
<1> DEFINE shared == [c \in Cells |-> cell[c].to]
<1>0. Delayed!TypeOK /\ Delayed!ObjectsApart /\ Delayed!GuardsAreBacked
  BY DEF Delayed!IndInv, Delayed!StateInv
<1>1. UNCHANGED protection
  BY DEF Delayed!DeleteRaw, Delayed!SafeDelete, Delayed!Finish,
     Delayed!DestroyNext, Delayed!GetHandles, Delayed!CreatePointer,
     Delayed!Exchange, Delayed!MarkCell, Delayed!guardVars
<1>2. CASE UNCHANGED <<shared, mem>>
  BY <1>1, <1>2 DEF Delayed!Contract!vars, HeldInv
<1>3. CASE Delayed!SafeDelete(t) \/ Delayed!Finish(t) \/ Delayed!GetHandles
  BY <1>2, <1>3 DEF Delayed!SafeDelete, Delayed!Finish, Delayed!GetHandles,
     Delayed!Delay
<1>4. ASSUME NEW c \in Cells, Delayed!MarkCell(c)
      PROVE  [Delayed!Contract!Next]_(Delayed!Contract!vars)
  <2>1. UNCHANGED mem /\ cell' = [cell EXCEPT ![c].marked = TRUE]
    BY <1>4 DEF Delayed!MarkCell
  <2>2. \A d \in Cells : cell'[d].to = cell[d].to
    BY <1>0, <2>1 DEF Delayed!TypeOK, Delayed!Pointers
  <2> QED
    BY <1>2, <2>1, <2>2
<1>5. CASE Delayed!DeleteRaw(t)
  <2>1. PICK o \in Objects : o = made[t]
    BY <1>0, <1>5 DEF Delayed!DeleteRaw, Delayed!TypeOK
  <2>2. mem[o] = "private" /\ mem' = [mem EXCEPT ![o] = "free"]
    BY <1>0, <1>5, <2>1 DEF Delayed!DeleteRaw, Delayed!ObjectsApart
  <2>3. \A u \in Threads : protection[u][o] = 0
    <3> SUFFICES ASSUME NEW u \in Threads, Delayed!Guarding(u, o) # {}
                 PROVE  FALSE
      BY ProtectionCounts
    <3>1. made[u] = o
      BY <1>0, <2>2 DEF Delayed!GuardsAreBacked
    <3>2. u = t
      BY <1>0, <1>5, <2>1, <3>1 DEF Delayed!ObjectsApart, Delayed!DeleteRaw
    <3> QED
      BY <1>5, <2>1, <3>2 DEF Delayed!DeleteRaw
  <2>4. UNCHANGED shared
    BY <1>5 DEF Delayed!DeleteRaw
  <2>5. Delayed!Contract!Discard(o)
    BY <1>1, <2>2, <2>3, <2>4 DEF Delayed!Contract!Discard, HeldInv
  <2> QED
    BY <2>5 DEF Delayed!Contract!Next
<1>6. ASSUME NEW o \in Objects, Delayed!CreatePointer(t, o)
      PROVE  [Delayed!Contract!Next]_(Delayed!Contract!vars)
  <2>1. Delayed!Contract!Create(t, o)
    BY <1>1, <1>6 DEF Delayed!CreatePointer, Delayed!Contract!Create, HeldInv
  <2> QED
    BY <2>1 DEF Delayed!Contract!Next
<1>7. CASE Delayed!DestroyNext(t)
  <2>1. freelist[t] \in Seq(Objects) /\ freelist[t] # << >>
    BY <1>0, <1>7 DEF Delayed!DestroyNext, Delayed!TypeOK
  <2>2. PICK o \in Objects : o = Head(freelist[t]) /\ o = freelist[t][1]
    BY <2>1
  <2>3. 1 \in Delayed!Positions(t) /\ Delayed!Waits(t, 1, o)
    BY <2>1, <2>2 DEF Delayed!Positions, Delayed!Waits
  <2>4. mem[o] = "retired"
    BY <2>3 DEF Delayed!IndInv, Delayed!StateInv, Delayed!RetiredIsListedOnce
  <2>5. \A u \in Threads : Delayed!Guarding(u, o) = {}
    BY <1>0, <1>7 DEF Delayed!DestroyNext, Delayed!AllFinished,
       Delayed!GuardsAreBacked, Delayed!HasGuards, Delayed!Guarding
  <2>6. \A u \in Threads : protection[u][o] = 0
    BY <2>5, ProtectionCounts
  <2>7. mem' = [mem EXCEPT ![o] = "free"] /\ UNCHANGED shared
    BY <1>7, <2>2 DEF Delayed!DestroyNext
  <2>8. Delayed!Contract!Destroy(o)
    BY <1>1, <2>4, <2>6, <2>7 DEF Delayed!Contract!Destroy, HeldInv
  <2> QED
    BY <2>8 DEF Delayed!Contract!Next
<1>8. ASSUME NEW c \in Cells, Delayed!Exchange(t, c)
      PROVE  [Delayed!Contract!Next]_(Delayed!Contract!vars)
  <2>1. PICK new \in Objects \cup {NoPtr} : new = made[t]
    BY <1>0 DEF Delayed!TypeOK
  <2>2. /\ cell' = [cell EXCEPT ![c] = [to |-> new, marked |-> FALSE]]
        /\ mem' = [o \in Objects |-> IF o = new THEN "live" ELSE
                     IF o = cell[c].to THEN "retired" ELSE mem[o]]
    BY <1>8, <2>1 DEF Delayed!Exchange, Delayed!Pointer
  <2>3. shared' = [shared EXCEPT ![c] = new]
    BY <1>0, <2>2 DEF Delayed!TypeOK
  <2>4. new # NoPtr => mem[new] = "private"
    BY <1>0, <2>1 DEF Delayed!ObjectsApart
  <2>5. CASE cell[c].to = new
    <3>1. new = NoPtr
      BY <1>0, <2>1, <2>4, <2>5 DEF Delayed!ObjectsApart
    <3>2. mem' = mem
      BY <1>0, <2>2, <2>5, <3>1, GuardsAssumption DEF Delayed!TypeOK
    <3>3. shared' = shared
      BY <2>3, <2>5
    <3> QED
      BY <1>2, <3>2, <3>3
  <2>6. CASE cell[c].to # new
    <3>1. Delayed!Contract!Exchange(c, new)
      BY <1>1, <2>2, <2>3, <2>4, <2>6
         DEF Delayed!Contract!Exchange, HeldInv
    <3> QED
      BY <3>1 DEF Delayed!Contract!Next
  <2> QED
    BY <2>5, <2>6
<1> QED
  BY <1>3, <1>4, <1>5, <1>6, <1>7, <1>8

(* The delayed manager keeps the promise of all reclamation managers: what *)
(* a guard points to is not destroyed while the guard exists, and no       *)
(* object is destroyed twice.                                              *)
THEOREM DelayedKeepsContract == PartSpec => DelayedImplementsContract
<1>1. PartInit => Delayed!Contract!Init
  <2> SUFFICES ASSUME PartInit PROVE Delayed!Contract!Init
    OBVIOUS
  <2>1. Delayed!Init
    BY DEF PartInit
  <2>2. \A t \in Threads, o \in Objects :
          Delayed!Cardinality(Delayed!Guarding(t, o)) = 0
    <3>1. Delayed!Cardinality({}) = 0
      BY FS_EmptySet DEF Delayed!Cardinality, Cardinality
    <3>2. \A t \in Threads, o \in Objects : Delayed!Guarding(t, o) = {}
      BY <2>1 DEF Delayed!Guarding, Delayed!Exists, Delayed!Init,
         Delayed!GuardInit
    <3> QED
      BY <3>1, <3>2
  <2> QED
    BY <2>1, <2>2 DEF Delayed!Init, Delayed!Contract!Init, Delayed!Null,
       Delayed!Pointer
<1>2. Delayed!IndInv => HeldInv
  BY HeldIsProtection DEF Delayed!IndInv, Delayed!StateInv, Delayed!TypeOK,
     HeldInv
<1>3. /\ Delayed!IndInv /\ HeldInv /\ HeldInv' /\ Delayed!Next
      => [Delayed!Contract!Next]_(Delayed!Contract!vars)
  <2> SUFFICES ASSUME Delayed!IndInv, HeldInv, HeldInv', Delayed!Next
               PROVE  [Delayed!Contract!Next]_(Delayed!Contract!vars)
    OBVIOUS
  <2>1. ASSUME NEW t \in Threads, Delayed!Working(t)
        PROVE  [Delayed!Contract!Next]_(Delayed!Contract!vars)
    <3>1. CASE \/ Delayed!UseGuards(t) /\ UNCHANGED Delayed!progVars
               \/ \E s \in Slots, o \in Objects : Delayed!ProtectRaw(t, s, o)
               \/ \E c \in Cells, s \in Slots : Delayed!ProtectCell(t, s, c)
      <4>1. UNCHANGED <<cell, mem>>
        BY <3>1 DEF Delayed!progVars, Delayed!ProtectRaw, Delayed!ProtectCell
      <4> QED
        BY <3>1, <4>1, GuardStepKeepsContract
    <3> QED
      BY <2>1, <3>1, ProgStepKeepsContract DEF Delayed!Working
  <2>2. ASSUME NEW t \in Threads, Delayed!DestroyNext(t) \/ Delayed!GetHandles
        PROVE  [Delayed!Contract!Next]_(Delayed!Contract!vars)
    BY <2>2, ProgStepKeepsContract
  <2>3. CASE Delayed!GetHandles
    <3>1. UNCHANGED <<guard, protection, cell, mem>>
      BY <2>3 DEF Delayed!GetHandles, Delayed!guardVars
    <3> QED
      BY <3>1 DEF Delayed!Contract!vars, HeldInv
  <2> QED
    BY <2>1, <2>2, <2>3 DEF Delayed!Next
<1>4. [PartNext]_allVars => \/ part = "delayed" /\ Delayed!Next
                            \/ UNCHANGED delayedVars
  BY DEF PartNext, BufferNext, ListNext, DelayedNext, ZipfNext, MarksNext,
     allVars
<1>5. HeldInv /\ HeldInv' /\ UNCHANGED delayedVars
        => UNCHANGED Delayed!Contract!vars
  BY DEF delayedVars, Delayed!Contract!vars, HeldInv
<1>6. /\ Delayed!IndInv /\ HeldInv /\ HeldInv' /\ [PartNext]_allVars
      => [part = "delayed" => Delayed!Contract!Next]_(Delayed!Contract!vars)
  BY <1>3, <1>4, <1>5
<1> QED
  BY <1>1, <1>2, <1>6, DelayedInvariant, PTL
     DEF PartSpec, DelayedImplementsContract
==============================================================================
