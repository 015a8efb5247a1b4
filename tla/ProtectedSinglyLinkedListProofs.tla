-------------------- MODULE ProtectedSinglyLinkedListProofs --------------------
(***************************************************************************)
(* The list that erases, for any threads, finitely many nodes and any      *)
(* values: nobody accesses a node that has been destroyed, the list always *)
(* holds its elements, it implements the abstract one, counts what is      *)
(* there, and lets a thread try again only for a change.                   *)
(*                                                                         *)
(* The invariant arranges the nodes that are reached from _head in a       *)
(* sequence c.  A live node outside of it belongs to the one thread which  *)
(* has unlinked it, and is marked or points to itself; a retired node      *)
(* points to itself.  So an unmarked pointer to another node, read through *)
(* a guard, was read from a node of c and leads to one.                    *)
(*                                                                         *)
(* On top of it lies what each thread has seen of the elements (Tracked),  *)
(* from which follows what each of its steps means to the list (Means).    *)
(***************************************************************************)
EXTENDS ProtectedSinglyLinkedList, WellFoundedInduction, FiniteSetTheorems,
        SequenceTheorems, TLAPS

USE NoPtrAssumption

(* Every set of naturals has a least element: the only form of induction   *)
(* that these proofs need.                                                 *)
LEMMA LeastElement ==
  ASSUME NEW T \in SUBSET Nat, T # {}
  PROVE  \E n \in T : \A m \in T : n <= m
<1> DEFINE R == OpToRel(<, Nat)
<1>1. IsWellFoundedOn(R, Nat)
  BY NatLessThanWellFounded
<1> HIDE DEF R
<1>2. PICK n \in T : \A m \in T : ~(<<m, n>> \in R)
  BY <1>1, WFMin
<1>3. \A m \in T : n <= m
  <2> TAKE m \in T
  <2>1. <<m, n>> \in Nat \X Nat
    OBVIOUS
  <2>2. R = {ss \in Nat \X Nat : ss[1] < ss[2]}
    BY DEF R, OpToRel
  <2>3. ~(m < n)
    BY <1>2, <2>1, <2>2
  <2> QED
    BY <2>3
<1> QED
  BY <1>3

(* Induction over the elements of a set.                                   *)
LEMMA UpTo ==
  ASSUME NEW u \in Nat, NEW S, 0 \in S,
         \A n \in 1 .. u : n - 1 \in S => n \in S
  PROVE  \A n \in 0 .. u : n \in S
<1> DEFINE T == (0 .. u) \ S
<1> SUFFICES ASSUME T # {} PROVE FALSE
  OBVIOUS
<1>1. T \in SUBSET Nat
  OBVIOUS
<1> HIDE DEF T
<1>2. PICK n \in T : \A m \in T : n <= m
  BY <1>1, LeastElement
<1>3. n \in 0 .. u /\ n \notin S /\ n # 0
  BY <1>2 DEF T
<1>4. n - 1 \in S
  BY <1>2, <1>3 DEF T
<1> QED
  BY <1>3, <1>4

------------------------------------------------------------------------------
(* Sequences of nodes.                                                     *)

(* The node at index i + 1, or none after the last.                        *)
NodeAfter(c, i) == IF i < Len(c) THEN c[i + 1] ELSE NoPtr
NodesOn(c) == {c[i] : i \in 1 .. Len(c)}
OneByOne(c) == \A i, j \in 1 .. Len(c) : c[i] = c[j] => i = j

(* The nodes of c follow each other, from p on.                            *)
Linked(nx, p, c) ==
  p = NodeAfter(c, 0) /\ \A i \in 1 .. Len(c) : nx[c[i]].ptr = NodeAfter(c, i)

LEMMA SequenceFits ==
  ASSUME NEW c \in Seq(Objects), OneByOne(c)
  PROVE  Cardinality(Objects) \in Nat /\ Len(c) <= Cardinality(Objects)
<1>1. IsFiniteSet(Objects)
  BY ObjectsAssumption
<1>2. c \in Injection(1 .. Len(c), Objects)
  <2>1. c \in [1 .. Len(c) -> Objects]
    OBVIOUS
  <2> QED
    BY <2>1 DEF OneByOne, Injection, IsInjective
<1>3. Cardinality(1 .. Len(c)) = Len(c)
  <2>1. Cardinality(1 .. Len(c)) = IF 1 > Len(c) THEN 0 ELSE Len(c) - 1 + 1
    BY FS_Interval
  <2> QED
    BY <2>1
<1> QED
  BY <1>1, <1>2, <1>3, FS_Injection, FS_CardinalityType

(* A node, and its neighbours.                                             *)
LEMMA NodeOfSequence ==
  ASSUME NEW c \in Seq(Objects), OneByOne(c), NEW p, NEW nx, Linked(nx, p, c),
         NEW o \in NodesOn(c)
  PROVE  /\ o \in Objects /\ o # NoPtr
         /\ nx[o].ptr \in NodesOn(c) \cup {NoPtr}
         /\ nx[o].ptr # o
<1>1. PICK i \in 1 .. Len(c) : c[i] = o
  BY DEF NodesOn
<1>2. nx[o].ptr = NodeAfter(c, i)
  BY <1>1 DEF Linked
<1>3. o \in Objects
  BY <1>1
<1>4. CASE i < Len(c)
  <2>1. i + 1 \in 1 .. Len(c) /\ i # i + 1
    BY <1>4
  <2>2. nx[o].ptr = c[i + 1]
    BY <1>2, <1>4 DEF NodeAfter
  <2>3. c[i + 1] \in NodesOn(c) /\ c[i + 1] # c[i]
    BY <2>1 DEF NodesOn, OneByOne
  <2> QED
    BY <1>1, <1>3, <2>2, <2>3
<1>5. CASE ~(i < Len(c))
  BY <1>2, <1>3, <1>5 DEF NodeAfter
<1> QED
  BY <1>4, <1>5

LEMMA FirstOfSequence ==
  ASSUME NEW c \in Seq(Objects), NEW p, NEW nx, Linked(nx, p, c)
  PROVE  p \in NodesOn(c) \cup {NoPtr}
<1>1. CASE 0 < Len(c)
  <2>1. 1 \in 1 .. Len(c) /\ p = c[1]
    BY <1>1 DEF Linked, NodeAfter
  <2> QED
    BY <2>1 DEF NodesOn
<1>2. CASE ~(0 < Len(c))
  BY <1>2 DEF Linked, NodeAfter
<1> QED
  BY <1>1, <1>2

LEMMA NothingLinked ==
  ASSUME NEW nx
  PROVE  /\ << >> \in Seq(Objects) /\ OneByOne(<< >>) /\ NodesOn(<< >>) = {}
         /\ Linked(nx, NoPtr, << >>)
BY DEF OneByOne, NodesOn, Linked, NodeAfter

(* A node comes in front.                                                  *)
LEMMA Prepended ==
  ASSUME NEW c \in Seq(Objects), OneByOne(c), NEW p, NEW nx, Linked(nx, p, c),
         NEW o \in Objects \ NodesOn(c), nx[o].ptr = p
  PROVE  LET d == <<o>> \o c
         IN  /\ d \in Seq(Objects) /\ OneByOne(d) /\ Linked(nx, o, d)
             /\ NodesOn(d) = NodesOn(c) \cup {o}
<1> DEFINE d == <<o>> \o c
<1>1. /\ d \in Seq(Objects) /\ Len(d) = Len(c) + 1 /\ d[1] = o /\ Len(c) \in Nat
      /\ \A i \in 1 .. Len(c) : d[i + 1] = c[i]
  OBVIOUS
<1> HIDE DEF d
<1>2. ASSUME NEW i \in 1 .. Len(d)
      PROVE  \/ i = 1 /\ d[i] = o
             \/ i - 1 \in 1 .. Len(c) /\ d[i] = c[i - 1]
  <2>1. CASE i = 1
    BY <1>1, <2>1
  <2>2. CASE i # 1
    <3>1. i - 1 \in 1 .. Len(c) /\ i = (i - 1) + 1
      BY <1>1, <2>2
    <3> QED
      BY <1>1, <3>1
  <2> QED
    BY <2>1, <2>2
<1>3. \A i \in 1 .. Len(c) : c[i] \in NodesOn(c)
  BY DEF NodesOn
<1>4. OneByOne(d)
  <2> SUFFICES ASSUME NEW i \in 1 .. Len(d), NEW j \in 1 .. Len(d), d[i] = d[j]
               PROVE  i = j
    BY DEF OneByOne
  <2>1. CASE i = 1 \/ j = 1
    BY <1>2, <1>3, <2>1
  <2>2. CASE i # 1 /\ j # 1
    <3>1. /\ i - 1 \in 1 .. Len(c) /\ j - 1 \in 1 .. Len(c)
          /\ c[i - 1] = c[j - 1]
      BY <1>2, <2>2
    <3>2. i - 1 = j - 1
      BY <3>1 DEF OneByOne
    <3> QED
      BY <1>1, <3>2
  <2> QED
    BY <2>1, <2>2
<1>5. NodesOn(d) = NodesOn(c) \cup {o}
  <2>1. \A i \in 1 .. Len(d) : d[i] \in NodesOn(c) \cup {o}
    BY <1>2, <1>3
  <2>2. o \in NodesOn(d)
    BY <1>1 DEF NodesOn
  <2>3. \A i \in 1 .. Len(c) : c[i] \in NodesOn(d)
    <3> TAKE i \in 1 .. Len(c)
    <3>1. i + 1 \in 1 .. Len(d) /\ d[i + 1] = c[i]
      BY <1>1
    <3> QED
      BY <3>1 DEF NodesOn
  <2> QED
    BY <2>1, <2>2, <2>3 DEF NodesOn
<1>6. NodeAfter(d, 0) = o
  BY <1>1 DEF NodeAfter
<1>7. \A i \in 0 .. Len(c) : NodeAfter(d, i + 1) = NodeAfter(c, i)
  <2> TAKE i \in 0 .. Len(c)
  <2>1. CASE i < Len(c)
    <3>1. i + 1 \in 1 .. Len(c) /\ i + 1 < Len(d)
      BY <1>1, <2>1
    <3>2. d[(i + 1) + 1] = c[i + 1]
      BY <1>1, <3>1
    <3> QED
      BY <2>1, <3>1, <3>2 DEF NodeAfter
  <2>2. CASE ~(i < Len(c))
    BY <1>1, <2>2 DEF NodeAfter
  <2> QED
    BY <2>1, <2>2
<1>8. ASSUME NEW i \in 1 .. Len(d) PROVE nx[d[i]].ptr = NodeAfter(d, i)
  <2>1. CASE i = 1
    <3>1. NodeAfter(d, 0 + 1) = NodeAfter(c, 0)
      BY <1>1, <1>7
    <3> QED
      BY <1>1, <2>1, <3>1 DEF Linked
  <2>2. CASE i # 1
    <3>1. i - 1 \in 1 .. Len(c) /\ d[i] = c[i - 1] /\ (i - 1) + 1 = i
      BY <1>2, <2>2
    <3>2. NodeAfter(d, i) = NodeAfter(c, i - 1)
      BY <1>1, <1>7, <3>1
    <3> QED
      BY <3>1, <3>2 DEF Linked
  <2> QED
    BY <2>1, <2>2
<1>9. Linked(nx, o, d)
  BY <1>6, <1>8 DEF Linked
<1> QED
  BY <1>1, <1>4, <1>5, <1>9 DEF d

(* c without its node at index k.                                          *)
Without(c, k) ==
  [j \in 1 .. Len(c) - 1 |-> IF j < k THEN c[j] ELSE c[j + 1]]

LEMMA WithoutIs ==
  ASSUME NEW c \in Seq(Objects), OneByOne(c), NEW k \in 1 .. Len(c)
  PROVE  LET d == Without(c, k)
         IN  /\ d \in Seq(Objects) /\ OneByOne(d) /\ Len(d) = Len(c) - 1
             /\ NodesOn(d) = NodesOn(c) \ {c[k]}
             /\ \A j \in 1 .. Len(d) : d[j] = IF j < k THEN c[j] ELSE c[j + 1]
             /\ \A j \in 0 .. Len(d) :
                  NodeAfter(d, j) = NodeAfter(c, IF j < k - 1 THEN j ELSE j + 1)
<1> DEFINE d == Without(c, k)
<1>1. Len(c) \in Nat \ {0} /\ k \in Nat \ {0} /\ k <= Len(c)
  OBVIOUS
<1>2. /\ d \in Seq(Objects) /\ Len(d) = Len(c) - 1
      /\ \A j \in 1 .. Len(d) : d[j] = IF j < k THEN c[j] ELSE c[j + 1]
  <2>1. Len(c) - 1 \in Nat
    BY <1>1
  <2>2. ASSUME NEW j \in 1 .. Len(c) - 1
        PROVE  (IF j < k THEN c[j] ELSE c[j + 1]) \in Objects
    <3>1. j \in 1 .. Len(c) /\ j + 1 \in 1 .. Len(c)
      BY <1>1
    <3> QED
      BY <3>1
  <2>3. d \in [1 .. Len(c) - 1 -> Objects]
    BY <2>2 DEF Without
  <2>4. d \in Seq(Objects) /\ Len(d) = Len(c) - 1
    BY <2>1, <2>3
  <2> QED
    BY <2>4 DEF Without
<1> HIDE DEF d
<1> DEFINE Old(j) == IF j < k THEN j ELSE j + 1
<1>3. ASSUME NEW j \in 1 .. Len(d)
      PROVE  Old(j) \in 1 .. Len(c) /\ Old(j) # k /\ d[j] = c[Old(j)]
  BY <1>1, <1>2
<1>4. OneByOne(d)
  <2> SUFFICES ASSUME NEW i \in 1 .. Len(d), NEW j \in 1 .. Len(d), d[i] = d[j]
               PROVE  i = j
    BY DEF OneByOne
  <2>1. Old(i) \in 1 .. Len(c) /\ Old(j) \in 1 .. Len(c) /\ c[Old(i)] = c[Old(j)]
    BY <1>3
  <2>2. Old(i) = Old(j)
    BY <2>1 DEF OneByOne
  <2> QED
    BY <1>1, <1>2, <2>2
<1>5. NodesOn(d) = NodesOn(c) \ {c[k]}
  <2>1. ASSUME NEW j \in 1 .. Len(d) PROVE d[j] \in NodesOn(c) \ {c[k]}
    BY <1>3 DEF NodesOn, OneByOne
  <2>2. ASSUME NEW j \in 1 .. Len(c), c[j] # c[k] PROVE c[j] \in NodesOn(d)
    <3>1. CASE j < k
      <4>1. j \in 1 .. Len(d) /\ d[j] = c[j]
        BY <1>1, <1>2, <3>1
      <4> QED
        BY <4>1 DEF NodesOn
    <3>2. CASE j > k
      <4>1. j - 1 \in 1 .. Len(d) /\ ~(j - 1 < k) /\ (j - 1) + 1 = j
        BY <1>1, <1>2, <3>2
      <4>2. d[j - 1] = c[j]
        BY <1>2, <4>1
      <4> QED
        BY <4>1, <4>2 DEF NodesOn
    <3>3. j # k
      BY <2>2
    <3> QED
      BY <1>1, <3>1, <3>2, <3>3
  <2> QED
    BY <2>1, <2>2 DEF NodesOn
<1>6. ASSUME NEW j \in 0 .. Len(d)
      PROVE  NodeAfter(d, j) = NodeAfter(c, IF j < k - 1 THEN j ELSE j + 1)
  <2>1. CASE j < Len(d)
    <3>1. j + 1 \in 1 .. Len(d) /\ NodeAfter(d, j) = d[j + 1]
      BY <1>1, <1>2, <2>1 DEF NodeAfter
    <3>2. CASE j < k - 1
      BY <1>1, <1>2, <2>1, <3>1, <3>2 DEF NodeAfter
    <3>3. CASE ~(j < k - 1)
      BY <1>1, <1>2, <2>1, <3>1, <3>3 DEF NodeAfter
    <3> QED
      BY <3>2, <3>3
  <2>2. CASE j = Len(d)
    BY <1>1, <1>2, <2>2 DEF NodeAfter
  <2> QED
    BY <1>1, <1>2, <2>1, <2>2
<1> QED
  BY <1>2, <1>4, <1>5, <1>6 DEF d

(* The node at index k is taken out: head, if k is 1, or the pointer of    *)
(* the node before now leads to the node after.                            *)
LEMMA TakenOut ==
  ASSUME NEW c \in Seq(Objects), OneByOne(c), NEW p, NEW nx, Linked(nx, p, c),
         NEW k \in 1 .. Len(c), NEW q, NEW mx,
         IF k = 1 THEN q = NodeAfter(c, 1) /\ \A o \in NodesOn(c) : mx[o] = nx[o]
         ELSE /\ q = p /\ mx[c[k - 1]].ptr = NodeAfter(c, k)
              /\ \A o \in NodesOn(c) \ {c[k - 1]} : mx[o] = nx[o]
  PROVE  Linked(mx, q, Without(c, k))
<1> DEFINE d == Without(c, k)
           Old(j) == IF j < k THEN j ELSE j + 1
           OldAfter(j) == IF j < k - 1 THEN j ELSE j + 1
<1>1. /\ d \in Seq(Objects) /\ Len(d) = Len(c) - 1
      /\ \A j \in 1 .. Len(d) : d[j] = IF j < k THEN c[j] ELSE c[j + 1]
      /\ \A j \in 0 .. Len(d) : NodeAfter(d, j) = NodeAfter(c, IF j < k - 1 THEN j ELSE j + 1)
  BY WithoutIs
<1> HIDE DEF d
<1>2. Len(c) \in Nat \ {0} /\ k \in Nat \ {0} /\ k <= Len(c)
  OBVIOUS
<1>3. q = NodeAfter(d, 0)
  <2>1. NodeAfter(d, 0) = NodeAfter(c, IF 0 < k - 1 THEN 0 ELSE 0 + 1)
    BY <1>1, <1>2
  <2>2. CASE k = 1
    BY <2>1, <2>2
  <2>3. CASE k # 1
    BY <1>2, <2>1, <2>3 DEF Linked
  <2> QED
    BY <2>2, <2>3
<1>4. ASSUME NEW j \in 1 .. Len(d) PROVE mx[d[j]].ptr = NodeAfter(d, j)
  <2>1. NodeAfter(d, j) = NodeAfter(c, IF j < k - 1 THEN j ELSE j + 1)
    BY <1>1, <1>2
  <2>2. CASE j = k - 1
    <3>1. d[j] = c[k - 1] /\ k # 1 /\ NodeAfter(d, j) = NodeAfter(c, k)
      BY <1>1, <1>2, <2>1, <2>2
    <3> QED
      BY <3>1
  <2>3. CASE j # k - 1
    <3>1. PICK i \in 1 .. Len(c) : d[j] = c[i] /\ i # k - 1
                                   /\ NodeAfter(d, j) = NodeAfter(c, i)
      <4>1. CASE j < k - 1
        BY <1>1, <1>2, <2>1, <4>1
      <4>2. CASE j > k - 1
        <5>1. j + 1 \in 1 .. Len(c) /\ ~(j < k) /\ ~(j < k - 1) /\ j + 1 # k - 1
          BY <1>1, <1>2, <4>2
        <5> QED
          BY <1>1, <2>1, <5>1
      <4> QED
        BY <1>1, <1>2, <2>3, <4>1, <4>2
    <3>2. c[i] \in NodesOn(c)
      BY DEF NodesOn
    <3>3. k # 1 => c[i] # c[k - 1]
      <4>1. k # 1 => k - 1 \in 1 .. Len(c)
        BY <1>2
      <4> QED
        BY <3>1, <4>1 DEF OneByOne
    <3>4. mx[c[i]] = nx[c[i]]
      BY <3>2, <3>3
    <3> QED
      BY <3>1, <3>4 DEF Linked
  <2> QED
    BY <2>2, <2>3
<1> QED
  BY <1>3, <1>4 DEF Linked, d

(* The nodes before o.                                                     *)
Before(c, o) ==
  {c[i] : i \in {j \in 1 .. Len(c) : \E k \in 1 .. Len(c) : c[k] = o /\ j < k}}

LEMMA BeforeIs ==
  ASSUME NEW c \in Seq(Objects), OneByOne(c), NEW k \in 1 .. Len(c)
  PROVE  Before(c, c[k]) = {c[i] : i \in 1 .. k - 1}
<1>1. {j \in 1 .. Len(c) : \E m \in 1 .. Len(c) : c[m] = c[k] /\ j < m} = 1 .. k - 1
  BY DEF OneByOne
<1> QED
  BY <1>1 DEF Before

LEMMA BeforeAlong ==
  ASSUME NEW c \in Seq(Objects), OneByOne(c), NEW p, NEW nx, Linked(nx, p, c)
  PROVE  /\ p # NoPtr => Before(c, p) = {}
         /\ \A o \in NodesOn(c) :
              /\ o \notin Before(c, o) /\ Before(c, o) \subseteq NodesOn(c)
              /\ nx[o].ptr = NoPtr => NodesOn(c) = Before(c, o) \cup {o}
              /\ nx[o].ptr # NoPtr => Before(c, nx[o].ptr) = Before(c, o) \cup {o}
<1>1. ASSUME p # NoPtr PROVE Before(c, p) = {}
  <2>1. 0 < Len(c) /\ p = c[0 + 1]
    BY <1>1 DEF Linked, NodeAfter
  <2>2. 1 \in 1 .. Len(c) /\ p = c[1]
    BY <2>1
  <2>3. Before(c, p) = {c[i] : i \in 1 .. 1 - 1}
    BY <2>2, BeforeIs
  <2> QED
    BY <2>3
<1>2. ASSUME NEW o \in NodesOn(c)
      PROVE  /\ o \notin Before(c, o) /\ Before(c, o) \subseteq NodesOn(c)
             /\ nx[o].ptr = NoPtr => NodesOn(c) = Before(c, o) \cup {o}
             /\ nx[o].ptr # NoPtr => Before(c, nx[o].ptr) = Before(c, o) \cup {o}
  <2>1. PICK k \in 1 .. Len(c) : c[k] = o
    BY DEF NodesOn
  <2>2. Before(c, o) = {c[i] : i \in 1 .. k - 1}
    BY <2>1, BeforeIs
  <2>3. Before(c, o) \subseteq NodesOn(c)
    BY <2>2 DEF NodesOn
  <2>4. o \notin Before(c, o)
    BY <2>1, <2>2 DEF OneByOne
  <2>5. nx[o].ptr = NodeAfter(c, k)
    BY <2>1 DEF Linked
  <2>6. CASE k < Len(c)
    <3>1. k + 1 \in 1 .. Len(c) /\ nx[o].ptr = c[k + 1] /\ (k + 1) - 1 = k
      BY <2>5, <2>6 DEF NodeAfter
    <3>2. nx[o].ptr # NoPtr
      BY <3>1
    <3>3. Before(c, c[k + 1]) = {c[i] : i \in 1 .. (k + 1) - 1}
      BY <3>1, BeforeIs
    <3>4. {c[i] : i \in 1 .. k} = {c[i] : i \in 1 .. k - 1} \cup {c[k]}
      <4>1. 1 .. k = (1 .. k - 1) \cup {k}
        OBVIOUS
      <4> QED
        BY <4>1
    <3> QED
      BY <2>1, <2>2, <2>3, <2>4, <3>1, <3>2, <3>3, <3>4
  <2>7. CASE k = Len(c)
    <3>1. nx[o].ptr = NoPtr
      BY <2>5, <2>7 DEF NodeAfter
    <3>2. 1 .. Len(c) = (1 .. k - 1) \cup {k}
      BY <2>7
    <3>3. NodesOn(c) = {c[i] : i \in 1 .. k - 1} \cup {c[k]}
      BY <3>2 DEF NodesOn
    <3> QED
      BY <2>1, <2>2, <2>3, <2>4, <3>1, <3>3
  <2> QED
    BY <2>6, <2>7
<1> QED
  BY <1>1, <1>2

(* d is c with o in front, or c without o.                                 *)
Pushed(c, d, o) ==
  /\ NodesOn(d) = NodesOn(c) \cup {o}
  /\ \A x \in NodesOn(c) : Before(d, x) = Before(c, x) \cup {o}

Removed(c, d, o) ==
  /\ NodesOn(d) = NodesOn(c) \ {o}
  /\ \A x \in NodesOn(d) : Before(d, x) = Before(c, x) \ {o}

LEMMA PushedIs ==
  ASSUME NEW c \in Seq(Objects), OneByOne(c), NEW o \in Objects \ NodesOn(c),
         OneByOne(<<o>> \o c), NodesOn(<<o>> \o c) = NodesOn(c) \cup {o}
  PROVE  Pushed(c, <<o>> \o c, o)
<1> DEFINE d == <<o>> \o c
<1>1. /\ d \in Seq(Objects) /\ Len(d) = Len(c) + 1 /\ d[1] = o /\ Len(c) \in Nat
      /\ \A i \in 1 .. Len(c) : d[i + 1] = c[i]
  OBVIOUS
<1>2. OneByOne(d) /\ NodesOn(d) = NodesOn(c) \cup {o}
  OBVIOUS
<1> HIDE DEF d
<1>3. ASSUME NEW x \in NodesOn(c) PROVE Before(d, x) = Before(c, x) \cup {o}
  <2>1. PICK k \in 1 .. Len(c) : c[k] = x
    BY DEF NodesOn
  <2>2. Before(c, x) = {c[i] : i \in 1 .. k - 1}
    BY <2>1, BeforeIs
  <2>3. k + 1 \in 1 .. Len(d) /\ d[k + 1] = x /\ (k + 1) - 1 = k
    BY <1>1, <2>1
  <2>4. Before(d, x) = {d[i] : i \in 1 .. k}
    <3>1. Before(d, d[k + 1]) = {d[i] : i \in 1 .. (k + 1) - 1}
      BY <1>1, <1>2, <2>3, BeforeIs
    <3> QED
      BY <2>3, <3>1
  <2>5. ASSUME NEW i \in 1 .. k PROVE d[i] \in {c[j] : j \in 1 .. k - 1} \cup {o}
    <3>1. CASE i = 1
      BY <1>1, <3>1
    <3>2. CASE i # 1
      <4>1. i - 1 \in 1 .. k - 1 /\ i - 1 \in 1 .. Len(c) /\ (i - 1) + 1 = i
        BY <1>1, <3>2
      <4>2. d[i] = c[i - 1]
        BY <1>1, <4>1
      <4> QED
        BY <4>1, <4>2
    <3> QED
      BY <3>1, <3>2
  <2>6. ASSUME NEW j \in 1 .. k - 1 PROVE c[j] \in {d[i] : i \in 1 .. k}
    <3>1. j + 1 \in 1 .. k /\ j \in 1 .. Len(c)
      OBVIOUS
    <3> QED
      BY <1>1, <3>1
  <2>7. o \in {d[i] : i \in 1 .. k}
    BY <1>1
  <2> QED
    BY <2>2, <2>4, <2>5, <2>6, <2>7
<1> QED
  BY <1>2, <1>3 DEF Pushed, d

LEMMA RemovedIs ==
  ASSUME NEW c \in Seq(Objects), OneByOne(c), NEW k \in 1 .. Len(c)
  PROVE  Removed(c, Without(c, k), c[k])
<1> DEFINE d == Without(c, k)
<1>1. /\ d \in Seq(Objects) /\ OneByOne(d) /\ Len(d) = Len(c) - 1
      /\ NodesOn(d) = NodesOn(c) \ {c[k]}
      /\ \A j \in 1 .. Len(d) : d[j] = IF j < k THEN c[j] ELSE c[j + 1]
  BY WithoutIs
<1> HIDE DEF d
<1>2. ASSUME NEW x \in NodesOn(d) PROVE Before(d, x) = Before(c, x) \ {c[k]}
  <2>1. PICK j \in 1 .. Len(d) : d[j] = x
    BY DEF NodesOn
  <2>2. Before(d, x) = {d[i] : i \in 1 .. j - 1}
    BY <1>1, <2>1, BeforeIs
  <2>3. CASE j < k
    <3>1. j \in 1 .. Len(c) /\ x = c[j]
      BY <1>1, <2>1, <2>3
    <3>2. Before(c, x) = {c[i] : i \in 1 .. j - 1}
      BY <3>1, BeforeIs
    <3>3. \A i \in 1 .. j - 1 : d[i] = c[i]
      BY <1>1, <2>3
    <3>4. c[k] \notin Before(c, x)
      BY <2>3, <3>1, <3>2 DEF OneByOne
    <3> QED
      BY <2>2, <3>2, <3>3, <3>4
  <2>4. CASE ~(j < k)
    <3>1. j + 1 \in 1 .. Len(c) /\ x = c[j + 1] /\ (j + 1) - 1 = j
      BY <1>1, <2>1, <2>4
    <3>2. Before(c, x) = {c[i] : i \in 1 .. j}
      <4>1. Before(c, c[j + 1]) = {c[i] : i \in 1 .. (j + 1) - 1}
        BY <3>1, BeforeIs
      <4> QED
        BY <3>1, <4>1
    <3>3. ASSUME NEW i \in 1 .. j - 1 PROVE d[i] \in Before(c, x) \ {c[k]}
      <4>1. i \in 1 .. j /\ i + 1 \in 1 .. j /\ i \in 1 .. Len(c) /\ i + 1 \in 1 .. Len(c)
        BY <3>1
      <4>2. i \in 1 .. Len(d)
        BY <1>1
      <4>3. CASE i < k
        BY <1>1, <3>2, <4>1, <4>2, <4>3 DEF OneByOne
      <4>4. CASE ~(i < k)
        BY <1>1, <3>2, <4>1, <4>2, <4>4 DEF OneByOne
      <4> QED
        BY <4>3, <4>4
    <3>4. ASSUME NEW i \in 1 .. j, c[i] # c[k] PROVE c[i] \in {d[m] : m \in 1 .. j - 1}
      <4>1. CASE i < k
        <5>1. i \in 1 .. j - 1 /\ i \in 1 .. Len(d)
          BY <1>1, <2>4, <4>1
        <5> QED
          BY <1>1, <4>1, <5>1
      <4>2. CASE i > k
        <5>1. i - 1 \in 1 .. j - 1 /\ i - 1 \in 1 .. Len(d) /\ ~(i - 1 < k) /\ (i - 1) + 1 = i
          BY <1>1, <4>2
        <5>2. d[i - 1] = c[i]
          BY <1>1, <5>1
        <5> QED
          BY <5>1, <5>2
      <4>3. i # k
        BY <3>4
      <4> QED
        BY <4>1, <4>2, <4>3
    <3> QED
      BY <2>2, <3>2, <3>3, <3>4
  <2> QED
    BY <2>3, <2>4
<1> QED
  BY <1>1, <1>2 DEF Removed, d

------------------------------------------------------------------------------
(* The invariant.                                                          *)

Chained(c) ==
  /\ OneByOne(c) /\ Linked(next, head, c)
  /\ \A o \in NodesOn(c) : mem[o] = "live"

LEMMA ChainIs ==
  ASSUME NEW c \in Seq(Objects), Chained(c)
  PROVE  Chain = NodesOn(c) \cup {NoPtr}
<1> DEFINE size == Cardinality(Objects)
           Reach(f, n) == IF n = 0 THEN {head} ELSE After(f[n - 1])
           IsReached(f) == f = [n \in 0 .. size |-> Reach(f, n)]
           UpToNode(n) == {NodeAfter(c, i) : i \in 0 .. n}
           sets == [n \in 0 .. size |-> UpToNode(n)]
<1>1. size \in Nat /\ Len(c) \in 0 .. size
  BY SequenceFits DEF Chained
<1> HIDE DEF size
<1>2. /\ UpToNode(0) = {head}
      /\ \A n \in 1 .. size : UpToNode(n) = After(UpToNode(n - 1))
  <2>1. UpToNode(0) = {head}
    BY DEF Chained, Linked
  <2> SUFFICES ASSUME NEW n \in 1 .. size
               PROVE  UpToNode(n) = After(UpToNode(n - 1))
    BY <2>1
  <2>2. \A i \in 0 .. n - 1 : NodeAfter(c, i) # NoPtr =>
          next[NodeAfter(c, i)].ptr = NodeAfter(c, i + 1)
    <3> TAKE i \in 0 .. n - 1
    <3>1. CASE i < Len(c)
      <4>1. i + 1 \in 1 .. Len(c) /\ NodeAfter(c, i) = c[i + 1]
        BY <3>1 DEF NodeAfter
      <4> QED
        BY <4>1 DEF Chained, Linked
    <3>2. CASE ~(i < Len(c))
      BY <3>2 DEF NodeAfter
    <3> QED
      BY <3>1, <3>2
  <2>3. \A i \in 0 .. n - 1 : NodeAfter(c, i) = NoPtr => NodeAfter(c, i + 1) = NoPtr
    <3> TAKE i \in 0 .. n - 1
    <3>1. CASE i < Len(c)
      <4>1. i + 1 \in 1 .. Len(c) /\ NodeAfter(c, i) = c[i + 1]
        BY <3>1 DEF NodeAfter
      <4>2. c[i + 1] \in Objects
        BY <4>1
      <4> QED
        BY <4>1, <4>2
    <3>2. CASE ~(i < Len(c))
      BY <1>1, <3>2 DEF NodeAfter
    <3> QED
      BY <3>1, <3>2
  <2>4. ASSUME NEW x \in UpToNode(n) PROVE x \in After(UpToNode(n - 1))
    <3>1. PICK i \in 0 .. n : x = NodeAfter(c, i)
      OBVIOUS
    <3>2. CASE i < n
      <4>1. i \in 0 .. n - 1
        BY <3>2
      <4> QED
        BY <3>1, <4>1 DEF After
    <3>3. CASE i = n
      <4>1. n - 1 \in 0 .. n - 1 /\ (n - 1) + 1 = n
        OBVIOUS
      <4>2. NodeAfter(c, n - 1) \in UpToNode(n - 1)
        BY <4>1
      <4>3. CASE NodeAfter(c, n - 1) = NoPtr
        <5>1. x = NoPtr
          BY <2>3, <3>1, <3>3, <4>1, <4>3
        <5> QED
          BY <4>2, <4>3, <5>1 DEF After
      <4>4. CASE NodeAfter(c, n - 1) # NoPtr
        <5>1. x = next[NodeAfter(c, n - 1)].ptr
          BY <2>2, <3>1, <3>3, <4>1, <4>4
        <5> HIDE DEF UpToNode
        <5> QED
          BY <4>2, <4>4, <5>1 DEF After
      <4> QED
        BY <4>3, <4>4
    <3> QED
      BY <3>2, <3>3
  <2>5. ASSUME NEW x \in After(UpToNode(n - 1)) PROVE x \in UpToNode(n)
    <3>1. CASE x \in UpToNode(n - 1)
      <4>1. PICK i \in 0 .. n - 1 : x = NodeAfter(c, i)
        BY <3>1
      <4>2. i \in 0 .. n
        OBVIOUS
      <4> QED
        BY <4>1, <4>2
    <3>2. CASE x \notin UpToNode(n - 1)
      <4>1. PICK o \in UpToNode(n - 1) \ {NoPtr} : x = next[o].ptr
        <5> HIDE DEF UpToNode
        <5> QED
          BY <2>5, <3>2 DEF After
      <4>2. PICK i \in 0 .. n - 1 : o = NodeAfter(c, i)
        OBVIOUS
      <4>3. x = NodeAfter(c, i + 1) /\ i + 1 \in 0 .. n
        BY <2>2, <4>1, <4>2
      <4> QED
        BY <4>3
    <3> QED
      BY <3>1, <3>2
  <2> HIDE DEF UpToNode
  <2> QED
    BY <2>4, <2>5
<1>3. IsReached(sets)
  <2>1. ASSUME NEW n \in 0 .. size PROVE UpToNode(n) = Reach(sets, n)
    <3>1. CASE n = 0
      BY <1>2, <3>1
    <3>2. CASE n # 0
      <4>1. n \in 1 .. size /\ n - 1 \in 0 .. size
        BY <1>1, <3>2
      <4>2. sets[n - 1] = UpToNode(n - 1)
        BY <4>1
      <4> HIDE DEF UpToNode, sets
      <4> QED
        BY <1>2, <3>2, <4>1, <4>2
    <3> QED
      BY <3>1, <3>2
  <2> HIDE DEF Reach, UpToNode
  <2> QED
    BY <2>1
<1> DEFINE at == CHOOSE f : IsReached(f)
<1>4. IsReached(at)
  <2> HIDE DEF IsReached, sets
  <2> QED
    BY <1>3
<1>5. Chain = at[size]
  BY DEF Chain, size
<1> HIDE DEF at
<1> DEFINE Same == {n \in 0 .. size : at[n] = UpToNode(n)}
<1>6. 0 \in Same
  <2> HIDE DEF UpToNode
  <2> QED
    BY <1>1, <1>2, <1>4
<1>7. ASSUME NEW n \in 1 .. size, n - 1 \in Same PROVE n \in Same
  <2>1. n \in 0 .. size /\ n # 0 /\ at[n - 1] = UpToNode(n - 1)
    BY <1>1, <1>7
  <2>2. at[n] = After(at[n - 1])
    <3> HIDE DEF UpToNode
    <3> QED
      BY <1>4, <2>1
  <2> HIDE DEF UpToNode
  <2> QED
    BY <1>2, <2>1, <2>2
<1> HIDE DEF Same
<1>8. \A n \in 0 .. size : n \in Same
  BY <1>1, <1>6, <1>7, UpTo
<1>9. Chain = UpToNode(size)
  BY <1>1, <1>5, <1>8 DEF Same
<1>10. ASSUME NEW x \in UpToNode(size) PROVE x \in NodesOn(c) \cup {NoPtr}
  <2>1. PICK i \in 0 .. size : x = NodeAfter(c, i)
    OBVIOUS
  <2>2. CASE i < Len(c)
    <3>1. i + 1 \in 1 .. Len(c) /\ x = c[i + 1]
      BY <2>1, <2>2 DEF NodeAfter
    <3> QED
      BY <3>1 DEF NodesOn
  <2> QED
    BY <2>1, <2>2 DEF NodeAfter
<1>11. NoPtr \in UpToNode(size)
  <2>1. NoPtr = NodeAfter(c, Len(c))
    BY DEF NodeAfter
  <2> QED
    BY <1>1, <2>1
<1>12. ASSUME NEW x \in NodesOn(c) PROVE x \in UpToNode(size)
  <2>1. PICK i \in 1 .. Len(c) : x = c[i]
    BY DEF NodesOn
  <2>2. i - 1 \in 0 .. size /\ x = NodeAfter(c, i - 1)
    BY <1>1, <2>1 DEF NodeAfter
  <2> QED
    BY <2>2
<1> HIDE DEF UpToNode
<1> QED
  BY <1>9, <1>10, <1>11, <1>12

(* The types.                                                              *)
LocType == [op : {"idle", "push", "erase"} \cup Counting, elem : Values,
            prev : Guards, curr : Guards, next : Guards,
            temp : Pointers, count : Nat, removing : BOOLEAN]
MemType == {"free", "private", "live", "retired"}
LinkType == [ptr : Pointers, mark : BOOLEAN]

LEMMA LocTyped ==
  /\ NoLoc \in LocType /\ NoGuard \in Guards
  /\ NoLoc.op = "idle" /\ NoLoc.elem \in Values
  /\ NoLoc.prev = NoGuard /\ NoLoc.curr = NoGuard /\ NoLoc.next = NoGuard
  /\ ~NoLoc.removing /\ NoLoc.temp = NoPtr
  /\ ~NoGuard.safe /\ NoGuard.ptr = NoPtr
<1>1. (CHOOSE v \in Values : TRUE) \in Values
  BY ValuesAssumption
<1>2. NoGuard \in Guards
  BY DEF NoGuard, Guards, Pointers
<1> QED
  BY <1>1, <1>2 DEF NoLoc, LocType, Pointers, NoGuard

LEMMA LocEdited ==
  ASSUME NEW l \in LocType, NEW p \in Pointers, NEW g \in Guards, NEW n \in Nat,
         NEW v \in Values
  PROVE  /\ [l EXCEPT !.temp = p] \in LocType
         /\ [l EXCEPT !.next = g] \in LocType
         /\ [l EXCEPT !.prev = g] \in LocType
         /\ [l EXCEPT !.curr = g, !.temp = p, !.count = n] \in LocType
         /\ [l EXCEPT !.next = g, !.temp = p] \in LocType
         /\ [l EXCEPT !.curr = l.next, !.next = g, !.count = n] \in LocType
         /\ [l EXCEPT !.curr = l.next, !.next = g, !.temp = p] \in LocType
         /\ [l EXCEPT !.temp = p, !.removing = TRUE] \in LocType
         /\ [l EXCEPT !.op = "erase", !.elem = v] \in LocType
         /\ [l EXCEPT !.op = "push", !.elem = v, !.temp = p] \in LocType
         /\ \A op \in Counting : [l EXCEPT !.op = op] \in LocType
BY DEF LocType

LEMMA GuardTyped ==
  ASSUME NEW l \in LinkType
  PROVE  Guard(l) \in Guards
BY DEF Guard, Guards, LinkType

ThreadsTyped ==
  /\ pc \in [Threads -> Steps] /\ loc \in [Threads -> LocType]
ListTyped ==
  /\ head \in Pointers
  /\ next \in [Objects -> LinkType]
  /\ value \in [Objects -> Values]
  /\ mem \in [Objects -> MemType]
HistoryTyped ==
  /\ stable \in [Threads -> SUBSET Objects]
  /\ disturbed \in [Threads -> BOOLEAN]
  /\ changed \in [Threads -> BOOLEAN]
  /\ doubled \in BOOLEAN

LEMMA TypesAre == TypeOK <=> ThreadsTyped /\ ListTyped /\ HistoryTyped
BY DEF TypeOK, ThreadsTyped, ListTyped, HistoryTyped, LocType, MemType, LinkType

LEMMA WatchTyped ==
  ASSUME HistoryTyped, NEW t, Watch(t), doubled' \in BOOLEAN
  PROVE  HistoryTyped'
<1>1. stable' \in [Threads -> SUBSET Objects]
  <2>1. Elements' \subseteq Objects /\ \A u \in Threads : Sought(u)' \subseteq Objects
    BY DEF Elements, Sought
  <2>2. \A u \in Threads : stable[u] \cap Elements' \subseteq Objects
    BY <2>1
  <2> QED
    BY <2>1, <2>2 DEF Watch
<1>2. disturbed' \in [Threads -> BOOLEAN]
  BY DEF Watch
<1>3. changed' \in [Threads -> BOOLEAN]
  BY DEF Watch
<1> QED
  BY <1>1, <1>2, <1>3 DEF HistoryTyped

OthersStay(t) ==
  \A u \in Threads \ {t} : pc'[u] = pc[u] /\ loc'[u] = loc[u]

LEMMA GotoMoves ==
  ASSUME ThreadsTyped, NEW t \in Threads, NEW step, NEW l, Goto(t, step, l)
  PROVE  /\ pc'[t] = step /\ loc'[t] = l /\ OthersStay(t)
         /\ step \in Steps /\ l \in LocType => ThreadsTyped'
BY DEF Goto, ThreadsTyped, OthersStay

LEMMA ReturnMoves ==
  ASSUME ThreadsTyped, NEW t \in Threads, Return(t)
  PROVE  /\ pc'[t] = "idle" /\ loc'[t] = NoLoc /\ OthersStay(t)
         /\ ThreadsTyped'
BY GotoMoves, LocTyped DEF Return, Steps

Restarted(t) ==
  IF loc[t].op = "erase" THEN [NoLoc EXCEPT !.op = "erase", !.elem = loc[t].elem]
  ELSE [NoLoc EXCEPT !.op = loc[t].op]

LEMMA RestartMoves ==
  ASSUME ThreadsTyped, NEW t \in Threads, Restart(t)
  PROVE  /\ pc'[t] = IF loc[t].op = "erase" THEN "start" ELSE "loadHead"
         /\ loc'[t] = Restarted(t) /\ OthersStay(t)
         /\ ThreadsTyped'
<1>1. loc[t].elem \in Values /\ loc[t] \in LocType
  BY DEF ThreadsTyped, LocType
<1>2. Restarted(t) \in LocType
  <2>1. NoLoc \in LocType
    BY LocTyped
  <2>2. [NoLoc EXCEPT !.op = "erase", !.elem = loc[t].elem] \in LocType
    BY <1>1, <2>1 DEF LocType
  <2>3. loc[t].op # "erase" => [NoLoc EXCEPT !.op = loc[t].op] \in LocType
    BY <1>1, <2>1 DEF LocType
  <2> QED
    BY <2>2, <2>3 DEF Restarted
<1>3. CASE loc[t].op = "erase"
  BY <1>2, <1>3, GotoMoves DEF Restart, Restarted, Steps
<1>4. CASE loc[t].op # "erase"
  BY <1>2, <1>4, GotoMoves DEF Restart, Restarted, Steps
<1> QED
  BY <1>3, <1>4

(* Where Decide leads.                                                     *)
Deciding(t, n) == [loc[t] EXCEPT !.next = Guard(n), !.temp = NoPtr]
Forwarded(l) == [l EXCEPT !.curr = l.next, !.next = NoGuard, !.count = @ + 1]
Followed(l) == [l EXCEPT !.prev = l.curr]

StartsAgain(t, n) ==
  ~n.mark /\ (loc[t].removing \/ HasLeft(t, n)) /\ Restart(t)
Ends(t, n) ==
  ~loc[t].removing /\ ~Found(t, n) /\ IsEnd(n) /\ Return(t)
Unlinking(t, n) ==
  n.mark /\ (loc[t].op # "iterate" \/ loc[t].removing)
    /\ Goto(t, "unlink", Deciding(t, n))
Marking(t, n) ==
  ~loc[t].removing /\ Found(t, n) /\ Goto(t, "mark", Deciding(t, n))
Iterating(t, n) ==
  /\ ~loc[t].removing /\ loc[t].op = "iterate" /\ ~IsEnd(n)
  /\ Goto(t, "loadNext", Forwarded(Deciding(t, n)))
Advancing(t, n) ==
  /\ ~loc[t].removing /\ loc[t].op # "iterate" /\ ~Found(t, n)
  /\ ~n.mark /\ n.ptr # NoPtr /\ ~HasLeft(t, n)
  /\ Goto(t, "loadNext", Forwarded(Followed(Deciding(t, n))))

LEMMA DecideLeads ==
  ASSUME NEW t \in Threads, NEW n, Decide(t, n), n.mark \in BOOLEAN,
         loc[t] \in LocType
  PROVE  \/ StartsAgain(t, n) \/ Ends(t, n) \/ Unlinking(t, n)
         \/ Marking(t, n) \/ Iterating(t, n) \/ Advancing(t, n)
<1>1. loc[t].removing \in BOOLEAN /\ Deciding(t, n).op = loc[t].op
  BY DEF Deciding, LocType
<1>2. CASE loc[t].removing
  BY <1>1, <1>2 DEF Decide, StartsAgain, Unlinking, Deciding
<1>3. CASE ~loc[t].removing /\ Found(t, n)
  BY <1>1, <1>3 DEF Decide, Marking, Deciding
<1>4. CASE ~loc[t].removing /\ ~Found(t, n) /\ IsEnd(n)
  BY <1>1, <1>4 DEF Decide, Ends, Deciding
<1>5. CASE ~loc[t].removing /\ ~Found(t, n) /\ ~IsEnd(n)
  <2>1. CASE loc[t].op = "iterate"
    BY <1>1, <1>5, <2>1 DEF Decide, Iterating, Deciding, Forward, Forwarded
  <2>2. CASE loc[t].op # "iterate" /\ n.mark
    BY <1>1, <1>5, <2>2 DEF Decide, Unlinking, Deciding
  <2>3. CASE loc[t].op # "iterate" /\ ~n.mark /\ HasLeft(t, n)
    BY <1>1, <1>5, <2>3 DEF Decide, StartsAgain, Deciding
  <2>4. CASE loc[t].op # "iterate" /\ ~n.mark /\ ~HasLeft(t, n)
    BY <1>1, <1>5, <2>4
       DEF Decide, Advancing, Deciding, Forward, Forwarded, Followed, IsEnd
  <2> QED
    BY <2>1, <2>2, <2>3, <2>4
<1> QED
  BY <1>1, <1>2, <1>3, <1>4, <1>5

LEMMA DecidedTyped ==
  ASSUME ThreadsTyped, NEW t \in Threads, NEW n \in LinkType
  PROVE  /\ Deciding(t, n) \in LocType
         /\ Forwarded(Deciding(t, n)) \in LocType
         /\ Forwarded(Followed(Deciding(t, n))) \in LocType
<1>1. loc[t] \in LocType /\ Guard(n) \in Guards /\ NoPtr \in Pointers
  BY GuardTyped DEF ThreadsTyped, Pointers
<1>2. Deciding(t, n) \in LocType
  BY <1>1, LocEdited DEF Deciding, LocType
<1>3. \A l \in LocType : Forwarded(l) \in LocType /\ Followed(l) \in LocType
  <2> TAKE l \in LocType
  <2>1. l.next \in Guards /\ l.curr \in Guards /\ NoGuard \in Guards /\ l.count + 1 \in Nat
    BY LocTyped DEF LocType
  <2>2. Followed(l) \in LocType
    BY <2>1 DEF LocType, Followed
  <2>3. [l EXCEPT !.curr = l.next, !.next = NoGuard, !.count = l.count + 1] \in LocType
    BY <2>1 DEF LocType
  <2> QED
    BY <2>2, <2>3 DEF Forwarded
<1> QED
  BY <1>2, <1>3

LEMMA DecideTyped ==
  ASSUME ThreadsTyped, NEW t \in Threads, NEW n \in LinkType, Decide(t, n)
  PROVE  ThreadsTyped' /\ OthersStay(t)
<1>1. loc[t] \in LocType /\ n.mark \in BOOLEAN
  BY DEF ThreadsTyped, LinkType
<1>2. "unlink" \in Steps /\ "mark" \in Steps /\ "loadNext" \in Steps
  BY DEF Steps
<1>3. CASE StartsAgain(t, n)
  BY <1>3, RestartMoves DEF StartsAgain
<1>4. CASE Ends(t, n)
  BY <1>4, ReturnMoves DEF Ends
<1>5. CASE Unlinking(t, n)
  BY <1>2, <1>5, GotoMoves, DecidedTyped DEF Unlinking
<1>6. CASE Marking(t, n)
  BY <1>2, <1>6, GotoMoves, DecidedTyped DEF Marking
<1>7. CASE Iterating(t, n)
  BY <1>2, <1>7, GotoMoves, DecidedTyped DEF Iterating
<1>8. CASE Advancing(t, n)
  BY <1>2, <1>8, GotoMoves, DecidedTyped DEF Advancing
<1> QED
  BY <1>1, <1>3, <1>4, <1>5, <1>6, <1>7, <1>8, DecideLeads

LEMMA NullTyped == Null \in LinkType /\ \A p \in Pointers : Link(p, FALSE) \in LinkType
BY DEF Null, Link, LinkType, Pointers

(* The nodes that a thread may stand on.                                   *)
LEMMA LinksTyped ==
  ASSUME ListTyped, NEW o \in Objects
  PROVE  next[o] \in LinkType /\ next[o].ptr \in Pointers /\ next[o].mark \in BOOLEAN
         /\ next[o] = Link(next[o].ptr, next[o].mark)
BY DEF ListTyped, LinkType, Link

(* The types are kept.                                                     *)
LEMMA InitTyped == Init => TypeOK
<1> SUFFICES ASSUME Init PROVE TypeOK
  OBVIOUS
<1>1. ThreadsTyped
  BY LocTyped DEF Init, ThreadsTyped, Steps
<1>2. ListTyped
  BY LocTyped, NullTyped DEF Init, ListTyped, MemType, Pointers
<1>3. HistoryTyped
  BY DEF Init, HistoryTyped
<1> QED
  BY <1>1, <1>2, <1>3, TypesAre

(* What the types of the next step rest on: the nodes threads stand on.    *)
Stands == {"loadNext", "checkNext", "mark", "unlink", "leave"}

StandOnNodes ==
  \A t \in Threads :
    /\ pc[t] \in Stands => loc[t].curr.ptr \in Objects
    /\ pc[t] = "retire" => loc[t].temp \in Objects

LEMMA StepsTyped == TypeOK /\ StandOnNodes /\ [Next]_vars => TypeOK'
<1> SUFFICES ASSUME TypeOK, StandOnNodes, [Next]_vars PROVE TypeOK'
  OBVIOUS
<1> USE DEF Pointers
<1>1. ThreadsTyped /\ ListTyped /\ HistoryTyped
  BY TypesAre
<1>2. (ThreadsTyped /\ ListTyped /\ HistoryTyped)' => TypeOK'
  BY TypesAre, PTL
<1>3. /\ \A t \in Threads : pc[t] \in Steps /\ loc[t] \in LocType
      /\ \A t \in Threads : loc[t].prev \in Guards /\ loc[t].curr \in Guards
           /\ loc[t].next \in Guards /\ loc[t].temp \in Pointers
           /\ loc[t].prev.ptr \in Pointers /\ loc[t].curr.ptr \in Pointers
           /\ loc[t].next.ptr \in Pointers
      /\ head \in Pointers /\ \A o \in Objects : next[o] \in LinkType
  BY <1>1 DEF ThreadsTyped, LocType, Guards, ListTyped
<1>4. /\ \A p \in Pointers, m \in BOOLEAN : Link(p, m) \in LinkType
      /\ Null \in LinkType /\ NoLoc \in LocType /\ NoLoc.elem \in Values
      /\ NoGuard \in Guards
  BY LocTyped DEF Null, Link, LinkType
<1>5. \A s \in {"idle", "pushCas", "start", "loadHead", "checkHead", "loadNext",
                "checkNext", "mark", "unlink", "leave", "retire"} : s \in Steps
  BY DEF Steps
<1>6. UNCHANGED listVars => ListTyped'
  BY <1>1 DEF listVars, ListTyped
<1>7. UNCHANGED doubled => doubled' \in BOOLEAN
  BY <1>1 DEF HistoryTyped
<1> HIDE DEF Pointers
<1>8. ASSUME NEW t \in Threads, NEW o \in Objects, NEW v \in Values, CallPush(t, o, v)
      PROVE  TypeOK'
  <2>1. [NoLoc EXCEPT !.op = "push", !.elem = v, !.temp = o] \in LocType
    BY <1>4 DEF LocType, Pointers
  <2>2. ThreadsTyped'
    BY <1>1, <1>5, <1>8, <2>1, GotoMoves DEF CallPush
  <2>3. ListTyped'
    BY <1>1, <1>3, <1>4, <1>8 DEF CallPush, ListTyped, MemType
  <2>4. HistoryTyped'
    BY <1>1, <1>7, <1>8, WatchTyped DEF CallPush
  <2> QED
    BY <1>2, <2>2, <2>3, <2>4
<1>9. ASSUME NEW t \in Threads, PushCas(t) PROVE TypeOK'
  <2>1. ThreadsTyped'
    BY <1>1, <1>9, ReturnMoves DEF PushCas
  <2>2. ListTyped'
    BY <1>1, <1>3, <1>9 DEF PushCas, ListTyped, MemType
  <2>3. HistoryTyped'
    BY <1>1, <1>7, <1>9, WatchTyped DEF PushCas
  <2> QED
    BY <1>2, <2>1, <2>2, <2>3
<1>10. ASSUME NEW t \in Threads, PushRetry(t) PROVE TypeOK'
  <2>1. ThreadsTyped' /\ HistoryTyped'
    BY <1>1, <1>10 DEF PushRetry, ThreadsTyped, HistoryTyped, history
  <2>2. ListTyped'
    BY <1>1, <1>3, <1>4, <1>10 DEF PushRetry, ListTyped
  <2> QED
    BY <1>2, <2>1, <2>2
<1>11. ASSUME NEW t \in Threads, NEW v \in Erased, CallErase(t, v) PROVE TypeOK'
  <2>1. [NoLoc EXCEPT !.op = "erase", !.elem = v] \in LocType
    BY <1>4, ValuesAssumption DEF LocType
  <2>2. ThreadsTyped'
    BY <1>1, <1>5, <1>11, <2>1, GotoMoves DEF CallErase
  <2> QED
    BY <1>1, <1>2, <1>6, <1>7, <1>11, <2>2, WatchTyped DEF CallErase
<1>12. ASSUME NEW t \in Threads, NEW op \in Counting, Walk(t, op) PROVE TypeOK'
  <2>1. [NoLoc EXCEPT !.op = op] \in LocType
    BY <1>4 DEF LocType
  <2>2. ThreadsTyped'
    BY <1>1, <1>5, <1>12, <2>1, GotoMoves DEF Walk
  <2> QED
    BY <1>1, <1>2, <1>6, <1>7, <1>12, <2>2, WatchTyped DEF Walk
<1>13. ASSUME NEW t \in Threads, Start(t) PROVE TypeOK'
  <2>1. ThreadsTyped'
    BY <1>1, <1>3, <1>5, <1>13, GotoMoves, ReturnMoves DEF Start
  <2> QED
    BY <1>1, <1>2, <1>6, <1>7, <1>13, <2>1, WatchTyped DEF Start
<1>14. ASSUME NEW t \in Threads, NoHead(t) PROVE ThreadsTyped'
  BY <1>1, <1>14, RestartMoves, ReturnMoves DEF NoHead
<1>15. ASSUME NEW t \in Threads, LoadHead(t) PROVE TypeOK'
  <2>1. [loc[t] EXCEPT !.temp = head] \in LocType
    BY <1>3 DEF LocType
  <2>2. ThreadsTyped'
    BY <1>1, <1>5, <1>14, <1>15, <2>1, GotoMoves DEF LoadHead
  <2> QED
    BY <1>1, <1>2, <1>6, <1>7, <1>15, <2>2, WatchTyped DEF LoadHead
<1>16. ASSUME NEW t \in Threads, CheckHead(t) PROVE TypeOK'
  <2>1. [loc[t] EXCEPT !.temp = head] \in LocType
    BY <1>3 DEF LocType
  <2>2. Guard(Link(loc[t].temp, FALSE)) \in Guards /\ NoPtr \in Pointers
    BY <1>3, <1>4, GuardTyped DEF Pointers
  <2>3. [loc[t] EXCEPT !.curr = Guard(Link(loc[t].temp, FALSE)),
                       !.temp = NoPtr, !.count = 1] \in LocType
    BY <1>3, <2>2 DEF LocType
  <2>4. ThreadsTyped'
    BY <1>1, <1>5, <1>14, <1>16, <2>1, <2>3, GotoMoves DEF CheckHead
  <2> QED
    BY <1>1, <1>2, <1>6, <1>7, <1>16, <2>4, WatchTyped DEF CheckHead
<1>17. ASSUME NEW t \in Threads, pc[t] \in Stands
      PROVE  /\ loc[t].curr.ptr \in Objects /\ NextOfCurr(t) \in LinkType
             /\ NextOfCurr(t).ptr \in Pointers /\ NextOfCurr(t).mark \in BOOLEAN
             /\ \A p \in Pointers : [loc[t] EXCEPT !.temp = p] \in LocType
             /\ [loc[t] EXCEPT !.next = NoGuard] \in LocType
  <2>1. loc[t].curr.ptr \in Objects
    BY <1>17 DEF StandOnNodes
  <2>2. \A p \in Pointers : [loc[t] EXCEPT !.temp = p] \in LocType
    BY <1>3 DEF LocType
  <2>3. [loc[t] EXCEPT !.next = NoGuard] \in LocType
    BY <1>3, <1>4 DEF LocType
  <2> QED
    BY <1>1, <2>1, <2>2, <2>3, LinksTyped DEF NextOfCurr
<1>18. ASSUME NEW t \in Threads, LoadNext(t) PROVE TypeOK'
  <2>1. pc[t] \in Stands
    BY <1>18 DEF LoadNext, Stands
  <2>2. CASE NextOfCurr(t).ptr = NoPtr
    <3>1. ThreadsTyped'
      BY <1>1, <1>17, <1>18, <2>1, <2>2, DecideTyped DEF LoadNext
    <3> QED
      BY <1>1, <1>2, <1>6, <1>7, <1>18, <3>1, WatchTyped DEF LoadNext
  <2>3. CASE NextOfCurr(t).ptr # NoPtr
    <3>1. ThreadsTyped'
      BY <1>1, <1>5, <1>17, <1>18, <2>1, <2>3, GotoMoves DEF LoadNext
    <3> QED
      BY <1>1, <1>2, <1>6, <1>7, <1>18, <3>1, WatchTyped DEF LoadNext
  <2> QED
    BY <2>2, <2>3
<1>19. ASSUME NEW t \in Threads, CheckNext(t) PROVE TypeOK'
  <2>1. pc[t] \in Stands
    BY <1>19 DEF CheckNext, Stands
  <2>2. Link(loc[t].temp, NextOfCurr(t).mark) \in LinkType /\ Null \in LinkType
    BY <1>3, <1>4, <1>17, <2>1
  <2>3. ThreadsTyped'
    <3>1. CASE Agrees(loc[t].temp, NextOfCurr(t).ptr)
      BY <1>1, <1>19, <2>2, <3>1, DecideTyped DEF CheckNext
    <3>2. CASE ~Agrees(loc[t].temp, NextOfCurr(t).ptr) /\ NextOfCurr(t).ptr = NoPtr
      BY <1>1, <1>19, <2>2, <3>2, DecideTyped DEF CheckNext
    <3>3. CASE ~Agrees(loc[t].temp, NextOfCurr(t).ptr) /\ NextOfCurr(t).ptr # NoPtr
      BY <1>1, <1>5, <1>17, <1>19, <2>1, <3>3, GotoMoves DEF CheckNext
    <3> QED
      BY <3>1, <3>2, <3>3
  <2> QED
    BY <1>1, <1>2, <1>6, <1>7, <1>19, <2>3, WatchTyped DEF CheckNext
<1>20. ASSUME NEW t \in Threads, Mark(t) PROVE TypeOK'
  <2>1. pc[t] \in Stands
    BY <1>20 DEF Mark, Stands
  <2>2. ThreadsTyped'
    BY <1>1, <1>5, <1>17, <1>20, <2>1, GotoMoves, ReturnMoves DEF Mark
  <2>3. next' \in [Objects -> LinkType]
    <3>1. \A l \in LinkType : [l EXCEPT !.mark = TRUE] \in LinkType
      BY DEF LinkType
    <3>2. \A o \in Objects : [next EXCEPT ![o].mark = TRUE] \in [Objects -> LinkType]
      BY <1>1, <1>3, <3>1 DEF ListTyped
    <3> QED
      BY <1>1, <1>17, <1>20, <2>1, <3>2 DEF Mark, ListTyped
  <2>4. ListTyped' /\ doubled' \in BOOLEAN
    BY <1>1, <1>20, <2>3 DEF Mark, ListTyped, HistoryTyped
  <2> QED
    BY <1>1, <1>2, <1>20, <2>2, <2>4, WatchTyped DEF Mark
<1>21. ASSUME NEW t \in Threads, Unlink(t) PROVE TypeOK'
  <2>1. ThreadsTyped'
    BY <1>1, <1>3, <1>5, <1>21, GotoMoves, RestartMoves DEF Unlink
  <2>2. head' \in Pointers /\ next' \in [Objects -> LinkType]
    <3>1. Link(loc[t].next.ptr, FALSE) \in LinkType
      BY <1>3, <1>4
    <3> QED
      BY <1>1, <1>3, <1>21, <3>1 DEF Unlink, ListTyped
  <2>3. ListTyped'
    BY <1>1, <1>21, <2>2 DEF Unlink, ListTyped
  <2> QED
    BY <1>1, <1>2, <1>7, <1>21, <2>1, <2>3, WatchTyped DEF Unlink
<1>22. ASSUME NEW t \in Threads, Leave(t) PROVE TypeOK'
  <2>1. [loc[t] EXCEPT !.curr = loc[t].next, !.next = NoGuard,
                       !.temp = loc[t].curr.ptr] \in LocType
    BY <1>3, <1>4 DEF LocType
  <2>2. ThreadsTyped'
    BY <1>1, <1>5, <1>22, <2>1, GotoMoves DEF Leave
  <2>3. next' \in [Objects -> LinkType]
    <3>1. Link(loc[t].curr.ptr, FALSE) \in LinkType
      BY <1>3, <1>4
    <3> QED
      BY <1>1, <1>22, <3>1 DEF Leave, ListTyped
  <2>4. ListTyped'
    BY <1>1, <1>22, <2>3 DEF Leave, ListTyped
  <2> QED
    BY <1>1, <1>2, <1>7, <1>22, <2>2, <2>4, WatchTyped DEF Leave
<1>23. ASSUME NEW t \in Threads, Retire(t) PROVE TypeOK'
  <2>1. [loc[t] EXCEPT !.temp = NoPtr, !.removing = TRUE] \in LocType
    BY <1>3 DEF LocType, Pointers
  <2>2. ThreadsTyped'
    BY <1>1, <1>5, <1>23, <2>1, GotoMoves, RestartMoves DEF Retire
  <2>3. ListTyped'
    BY <1>1, <1>23 DEF Retire, ListTyped, MemType
  <2> QED
    BY <1>1, <1>2, <1>7, <1>23, <2>2, <2>3, WatchTyped DEF Retire
<1>24. ASSUME NEW o \in Objects, Destroy(o) PROVE TypeOK'
  <2>1. ThreadsTyped' /\ HistoryTyped'
    BY <1>1, <1>24 DEF Destroy, ThreadsTyped, HistoryTyped, history
  <2>2. ListTyped'
    BY <1>1, <1>4, <1>24 DEF Destroy, ListTyped, MemType
  <2> QED
    BY <1>2, <2>1, <2>2
<1>25. ASSUME Destruct PROVE TypeOK'
  <2>1. ThreadsTyped' /\ HistoryTyped'
    BY <1>1, <1>25 DEF Destruct, ThreadsTyped, HistoryTyped, history
  <2>2. ListTyped'
    BY <1>1, <1>4, <1>25 DEF Destruct, ListTyped, MemType, Pointers
  <2> QED
    BY <1>2, <2>1, <2>2
<1>26. CASE UNCHANGED vars
  <2>1. (ThreadsTyped /\ ListTyped /\ HistoryTyped)'
    BY <1>1, <1>26
       DEF vars, listVars, history, ThreadsTyped, ListTyped, HistoryTyped
  <2> QED
    BY <1>2, <2>1
<1> QED
  BY <1>8, <1>9, <1>10, <1>11, <1>12, <1>13, <1>15, <1>16, <1>18, <1>19, <1>20,
     <1>21, <1>22, <1>23, <1>24, <1>25, <1>26
     DEF Next, Continue, Walks, CallSize, CallIterate, Counting
------------------------------------------------------------------------------
(* What a thread at step p, with the local variables l, relies on, in      *)
(* memory M with the links N and the nodes C in the chain.                 *)
Safe(g) == g.ptr # NoPtr => g.safe
GuardsOf(l) == {l.prev, l.curr, l.next}
Starting == {"start", "loadHead", "checkHead", "pushCas"}

(* The operation and its steps.                                            *)
OpFits(p, l) ==
  /\ p = "idle" <=> l.op = "idle"
  /\ p = "idle" => l = NoLoc
  /\ p = "pushCas" <=> l.op = "push"
  /\ p \in {"start", "mark"} => l.op = "erase"
  /\ l.op = "iterate" =>
       /\ p \in {"loadHead", "checkHead", "loadNext", "checkNext"}
       /\ ~l.removing /\ l.prev.ptr = NoPtr

(* The guards: a node stays as long as a guard keeps it, and curr, which a *)
(* thread stands on, has been guarded in time.                             *)
GuardsFit(p, l, M) ==
  /\ \A g \in GuardsOf(l) :
       g.safe => g.ptr \in Objects /\ M[g.ptr] \in {"live", "retired"}
  /\ p \in Starting => (\A g \in GuardsOf(l) : g = NoGuard) /\ ~l.removing
  /\ p = "checkHead" => l.temp \in Objects
  /\ p \in Stands => l.curr.safe
  /\ p = "leave" => Safe(l.next) /\ l.next.ptr # l.curr.ptr
  /\ p = "retire" => Safe(l.curr)
  /\ p \in Stands \cup {"retire"} => Safe(l.prev)
  /\ l.prev.ptr # NoPtr =>
       l.prev.ptr # l.curr.ptr /\ (p = "leave" => l.prev.ptr # l.next.ptr)

(* The nodes it works on: a new one is its own until it is pushed; one     *)
(* that it is to take out is marked, and keeps its pointer as long as it   *)
(* is in the chain; one that it has taken out is its own until it has been *)
(* retired.                                                                *)
NodesFit(p, l, M, N, C) ==
  /\ p = "pushCas" =>
       /\ l.temp \in Objects /\ M[l.temp] = "private"
       /\ ~N[l.temp].mark /\ N[l.temp].ptr # l.temp
  /\ p \in {"loadNext", "checkNext"} /\ l.op = "iterate" => l.curr.ptr \in C
  /\ p = "mark" => ~l.next.mark
  /\ p = "unlink" /\ l.curr.ptr \in C =>
       N[l.curr.ptr] = Link(l.next.ptr, TRUE) /\ Safe(l.next)
  /\ p = "leave" =>
       M[l.curr.ptr] = "live" /\ l.curr.ptr \notin C /\ N[l.curr.ptr].mark
  /\ p = "retire" =>
       /\ l.temp \in Objects /\ M[l.temp] = "live" /\ l.temp \notin C
       /\ N[l.temp].ptr = l.temp

Fits(p, l, M, N, C) == OpFits(p, l) /\ GuardsFit(p, l, M) /\ NodesFit(p, l, M, N, C)

(* The node outside the chain that is the thread's own.                    *)
Removes(p, l, o) == (p = "leave" /\ l.curr.ptr = o) \/ (p = "retire" /\ l.temp = o)
Has(p, l, o) == Removes(p, l, o) \/ (p = "pushCas" /\ l.temp = o)

(* What others may do to the thread: they leave the nodes it works on      *)
(* alone, but for the mark.                                                *)
Undisturbed(p, l, M, N, C, M2, N2, D) ==
  /\ \A g \in GuardsOf(l) :
       g.safe /\ M[g.ptr] \in {"live", "retired"} => M2[g.ptr] \in {"live", "retired"}
  /\ \A o \in Objects : Has(p, l, o) =>
       /\ M2[o] = M[o] /\ (o \notin C => o \notin D)
       /\ N2[o].ptr = N[o].ptr /\ (N[o].mark => N2[o].mark)
       /\ p = "pushCas" => N2[o] = N[o]
  /\ p = "unlink" /\ l.curr.ptr \in D =>
       l.curr.ptr \in C /\ N2[l.curr.ptr] = N[l.curr.ptr]
  /\ p \in {"loadNext", "checkNext"} /\ l.op = "iterate" /\ l.curr.ptr \in C =>
       l.curr.ptr \in D

LEMMA FitsStill ==
  ASSUME NEW p, NEW l, NEW M, NEW N, NEW C, NEW M2, NEW N2, NEW D,
         Fits(p, l, M, N, C), Undisturbed(p, l, M, N, C, M2, N2, D)
  PROVE  Fits(p, l, M2, N2, D)
<1>1. GuardsFit(p, l, M2)
  BY DEF Fits, GuardsFit, Undisturbed
<1>2. \A g \in GuardsOf(l) : g.safe => g.ptr \in Objects
  BY DEF Fits, GuardsFit
<1>3. NodesFit(p, l, M2, N2, D)
  <2>1. CASE p = "leave"
    <3>1. l.curr.safe /\ l.curr \in GuardsOf(l)
      BY <2>1 DEF Fits, GuardsFit, Stands, GuardsOf
    <3>2. l.curr.ptr \in Objects /\ Has(p, l, l.curr.ptr)
      BY <1>2, <2>1, <3>1 DEF Has, Removes
    <3> QED
      BY <2>1, <3>2 DEF Fits, NodesFit, Undisturbed
  <2>2. CASE p = "retire"
    <3>1. l.temp \in Objects /\ Has(p, l, l.temp)
      BY <2>2 DEF Has, Removes, Fits, NodesFit
    <3> QED
      BY <2>2, <3>1 DEF Fits, NodesFit, Undisturbed
  <2>4. CASE p = "pushCas"
    <3>1. l.temp \in Objects /\ Has(p, l, l.temp)
      BY <2>4 DEF Has, Fits, NodesFit
    <3>2. M2[l.temp] = M[l.temp] /\ N2[l.temp] = N[l.temp]
      BY <2>4, <3>1 DEF Undisturbed
    <3> QED
      BY <2>4, <3>1, <3>2 DEF Fits, NodesFit
  <2>3. CASE p \notin {"leave", "retire", "pushCas"}
    BY <2>3 DEF Fits, NodesFit, Undisturbed
  <2> QED
    BY <2>1, <2>2, <2>3, <2>4
<1> QED
  BY <1>1, <1>3 DEF Fits

(* Which steps follow which.                                               *)
LEMMA IdleFits ==
  ASSUME NEW M, NEW N, NEW C
  PROVE  Fits("idle", NoLoc, M, N, C)
BY LocTyped DEF Fits, OpFits, GuardsFit, NodesFit, GuardsOf, Starting, Stands

Fresh(op, v) == [NoLoc EXCEPT !.op = op, !.elem = v]

LEMMA FreshIs ==
  ASSUME NEW op, NEW v
  PROVE  /\ Fresh(op, v).op = op /\ Fresh(op, v).temp = NoPtr
         /\ ~Fresh(op, v).removing
         /\ Fresh(op, v).prev = NoGuard /\ Fresh(op, v).curr = NoGuard
         /\ Fresh(op, v).next = NoGuard
BY DEF Fresh, NoLoc

LEMMA FreshFits ==
  ASSUME NEW M, NEW N, NEW C, NEW op, NEW v, NEW p,
         \/ p = "start" /\ op = "erase"
         \/ p = "loadHead" /\ op \in {"erase"} \cup Counting
  PROVE  Fits(p, Fresh(op, v), M, N, C)
<1> DEFINE l == Fresh(op, v)
<1>1. /\ l.op = op /\ l.temp = NoPtr /\ ~l.removing
      /\ l.prev = NoGuard /\ l.curr = NoGuard /\ l.next = NoGuard
  BY FreshIs
<1> HIDE DEF l
<1>2. op # "idle" /\ op # "push" /\ (op = "iterate" => p = "loadHead") /\ p # "idle"
      /\ p # "pushCas" /\ (p = "start" => op = "erase") /\ p # "mark"
  BY DEF Counting
<1>3. OpFits(p, l)
  BY <1>1, <1>2, LocTyped DEF OpFits
<1>4. GuardsFit(p, l, M)
  BY <1>1, LocTyped DEF GuardsFit, GuardsOf, Starting, Stands
<1>5. NodesFit(p, l, M, N, C)
  BY <1>2 DEF NodesFit
<1> QED
  BY <1>3, <1>4, <1>5 DEF Fits, l

LEMMA RestartedFits ==
  ASSUME NEW t, NEW M, NEW N, NEW C, loc[t].op \in {"erase"} \cup Counting
  PROVE  Fits(IF loc[t].op = "erase" THEN "start" ELSE "loadHead", Restarted(t), M, N, C)
<1>1. CASE loc[t].op = "erase"
  <2>1. Restarted(t) = Fresh("erase", loc[t].elem)
    BY <1>1 DEF Restarted, Fresh
  <2> QED
    BY <1>1, <2>1, FreshFits
<1>2. CASE loc[t].op # "erase"
  <2>1. Restarted(t) = Fresh(loc[t].op, NoLoc.elem)
    <3>1. NoLoc \in LocType
      BY LocTyped
    <3>2. \A l \in LocType : \A op : [l EXCEPT !.op = op] = [l EXCEPT !.op = op, !.elem = l.elem]
      BY DEF LocType
    <3> QED
      BY <1>2, <3>1, <3>2 DEF Restarted, Fresh
  <2> QED
    BY <1>2, <2>1, FreshFits
<1> QED
  BY <1>1, <1>2
------------------------------------------------------------------------------
(* The invariant.  Whoever has taken a node out is the only one; a retired *)
(* node points to itself; during an iteration nothing is marked.           *)
FitsIn(t, C) == Fits(pc[t], loc[t], mem, next, C)
Owns(t, o) == Has(pc[t], loc[t], o)
Iterates == \E t \in Threads : loc[t].op = "iterate"

NodesAccounted(C) ==
  \A o \in Objects :
    /\ mem[o] = "live" /\ o \notin C => \E t \in Threads : Removes(pc[t], loc[t], o)
    /\ mem[o] = "retired" => next[o].ptr = o
IterationsFit ==
  Iterates =>
    /\ \A t \in Threads : loc[t].op # "erase"
    /\ \A o \in Objects : mem[o] = "live" => IsElement(o)

Inv(c) ==
  /\ TypeOK /\ Chained(c)
  /\ \A t \in Threads : FitsIn(t, NodesOn(c))
  /\ \A t, u \in Threads, o \in Objects : Owns(t, o) /\ Owns(u, o) => t = u
  /\ NodesAccounted(NodesOn(c))
  /\ IterationsFit

IInv == \E c \in Seq(Objects) : Inv(c)

(* A pointer that is neither marked nor leads to its own node is that of a *)
(* node in the chain, and so is what it leads to.                          *)
LEMMA StillInChain ==
  ASSUME NEW c \in Seq(Objects), Inv(c), NEW o \in Objects,
         mem[o] \in {"live", "retired"}, ~next[o].mark, next[o].ptr # o
  PROVE  o \in NodesOn(c)
<1> SUFFICES ASSUME o \notin NodesOn(c) PROVE FALSE
  OBVIOUS
<1>1. mem[o] = "live"
  BY DEF Inv, NodesAccounted
<1>2. PICK t \in Threads : Removes(pc[t], loc[t], o)
  BY <1>1 DEF Inv, NodesAccounted
<1>3. NodesFit(pc[t], loc[t], mem, next, NodesOn(c))
  BY DEF Inv, FitsIn, Fits
<1> QED
  BY <1>2, <1>3 DEF Removes, NodesFit

LEMMA NodesOfChain ==
  ASSUME NEW c \in Seq(Objects), Inv(c)
  PROVE  /\ head \in NodesOn(c) \cup {NoPtr}
         /\ \A o \in NodesOn(c) :
              /\ o \in Objects /\ o # NoPtr /\ mem[o] = "live"
              /\ next[o].ptr \in NodesOn(c) \cup {NoPtr} /\ next[o].ptr # o
<1>1. OneByOne(c) /\ Linked(next, head, c) /\ \A o \in NodesOn(c) : mem[o] = "live"
  BY DEF Inv, Chained
<1> QED
  BY <1>1, NodeOfSequence, FirstOfSequence

(* What a thread may rely on.                                              *)
LEMMA ThreadIs ==
  ASSUME NEW c \in Seq(Objects), Inv(c), NEW t \in Threads
  PROVE  /\ OpFits(pc[t], loc[t]) /\ GuardsFit(pc[t], loc[t], mem)
         /\ NodesFit(pc[t], loc[t], mem, next, NodesOn(c))
         /\ pc[t] \in Steps /\ loc[t] \in LocType
BY TypesAre DEF Inv, FitsIn, Fits, ThreadsTyped

LEMMA StandsOn ==
  ASSUME NEW c \in Seq(Objects), Inv(c), NEW t \in Threads, pc[t] \in Stands
  PROVE  /\ loc[t].curr.safe /\ loc[t].curr.ptr \in Objects /\ loc[t].curr.ptr # NoPtr
         /\ mem[loc[t].curr.ptr] \in {"live", "retired"}
         /\ loc[t].prev.ptr # NoPtr =>
              /\ loc[t].prev.safe /\ loc[t].prev.ptr \in Objects
              /\ mem[loc[t].prev.ptr] \in {"live", "retired"}
<1>1. GuardsFit(pc[t], loc[t], mem)
  BY ThreadIs
<1> QED
  BY <1>1 DEF GuardsFit, GuardsOf, Safe

LEMMA AllStand ==
  ASSUME NEW c \in Seq(Objects), Inv(c)
  PROVE  StandOnNodes
<1> SUFFICES ASSUME NEW t \in Threads, pc[t] = "retire" PROVE loc[t].temp \in Objects
  BY StandsOn DEF StandOnNodes
<1> QED
  BY ThreadIs DEF NodesFit

(* The invariant after a step of thread t, after which d is the chain.     *)
LEMMA StepsInv ==
  ASSUME NEW c \in Seq(Objects), Inv(c), NEW d, TypeOK', Chained(d)',
         NEW t \in Threads, OthersStay(t),
         Fits(pc'[t], loc'[t], mem', next', NodesOn(d)),
         \A u \in Threads \ {t} :
           Undisturbed(pc[u], loc[u], mem, next, NodesOn(c), mem', next', NodesOn(d)),
         \A o \in Objects : Has(pc'[t], loc'[t], o) =>
           Has(pc[t], loc[t], o) \/ mem[o] # mem'[o] \/ o \in NodesOn(c),
         \A o \in Objects :
           /\ mem'[o] = "live" /\ o \notin NodesOn(d) /\ ~Removes(pc'[t], loc'[t], o) =>
                /\ mem[o] = "live" /\ o \notin NodesOn(c) /\ ~Removes(pc[t], loc[t], o)
           /\ mem'[o] = "retired" => next'[o].ptr = o,
         IterationsFit'
  PROVE  Inv(d)'
<1>1. \A u \in Threads : Fits(pc[u], loc[u], mem, next, NodesOn(c))
  BY DEF Inv, FitsIn
<1>2. \A u \in Threads : Fits(pc'[u], loc'[u], mem', next', NodesOn(d))
  BY <1>1, FitsStill DEF OthersStay
<1>3. ASSUME NEW u \in Threads \ {t}, NEW o \in Objects,
             Has(pc[u], loc[u], o), Has(pc'[t], loc'[t], o)
      PROVE  FALSE
  <2>1. ~Has(pc[t], loc[t], o)
    BY <1>3 DEF Inv, Owns
  <2>2. mem'[o] = mem[o]
    BY <1>3 DEF Undisturbed
  <2>3. o \in NodesOn(c)
    BY <1>3, <2>1, <2>2
  <2>4. mem[o] = "live"
    BY <2>3 DEF Inv, Chained
  <2>5. NodesFit(pc[u], loc[u], mem, next, NodesOn(c))
    BY <1>1 DEF Fits
  <2> QED
    BY <1>3, <2>3, <2>4, <2>5 DEF Has, Removes, NodesFit
<1>4. ASSUME NEW u \in Threads, NEW w \in Threads, NEW o \in Objects,
             Has(pc'[u], loc'[u], o), Has(pc'[w], loc'[w], o)
      PROVE  u = w
  <2>1. CASE u = t \/ w = t
    BY <1>3, <1>4, <2>1 DEF OthersStay
  <2>2. CASE u # t /\ w # t
    BY <1>4, <2>2 DEF OthersStay, Inv, Owns
  <2> QED
    BY <2>1, <2>2
<1>5. ASSUME NEW o \in Objects, mem'[o] = "live", o \notin NodesOn(d)
      PROVE  \E u \in Threads : Removes(pc'[u], loc'[u], o)
  <2>1. CASE Removes(pc'[t], loc'[t], o)
    BY <2>1
  <2>2. CASE ~Removes(pc'[t], loc'[t], o)
    <3>1. mem[o] = "live" /\ o \notin NodesOn(c) /\ ~Removes(pc[t], loc[t], o)
      BY <1>5, <2>2
    <3>2. PICK u \in Threads : Removes(pc[u], loc[u], o)
      BY <3>1 DEF Inv, NodesAccounted
    <3> QED
      BY <3>1, <3>2 DEF OthersStay
  <2> QED
    BY <2>1, <2>2
<1>6. NodesAccounted(NodesOn(d))'
  BY <1>5 DEF NodesAccounted
<1> QED
  BY <1>2, <1>4, <1>6 DEF Inv, FitsIn, Owns
LEMMA IterationsGoOn ==
  ASSUME NEW c \in Seq(Objects), Inv(c), NEW t \in Threads, OthersStay(t),
         loc'[t].op \in {loc[t].op, "idle"},
         Iterates => \A o \in Objects : mem'[o] = "live" => IsElement(o)'
  PROVE  IterationsFit'
<1>1. \A u \in Threads : loc'[u].op \in {loc[u].op, "idle"}
  BY DEF OthersStay
<1>2. Iterates' => Iterates
  BY <1>1 DEF Iterates
<1>3. IterationsFit
  BY DEF Inv
<1> QED
  BY <1>1, <1>2, <1>3 DEF IterationsFit

(* A step that does not touch the list.                                    *)
LEMMA QuietStep ==
  ASSUME NEW c \in Seq(Objects), Inv(c), NEW t \in Threads, TypeOK',
         UNCHANGED listVars, OthersStay(t),
         Fits(pc'[t], loc'[t], mem, next, NodesOn(c)),
         pc[t] \notin {"pushCas", "leave", "retire"},
         pc'[t] \notin {"pushCas", "leave", "retire"},
         IterationsFit'
  PROVE  Inv(c)'
<1>1. UNCHANGED <<head, next, value, mem>>
  BY DEF listVars
<1>2. Chained(c)'
  BY <1>1 DEF Inv, Chained
<1>3. \A u \in Threads \ {t} :
        Undisturbed(pc[u], loc[u], mem, next, NodesOn(c), mem', next', NodesOn(c))
  BY <1>1 DEF Undisturbed
<1>4. Fits(pc'[t], loc'[t], mem', next', NodesOn(c))
  BY <1>1
<1>5. \A o \in Objects : ~Has(pc[t], loc[t], o) /\ ~Has(pc'[t], loc'[t], o)
                          /\ ~Removes(pc[t], loc[t], o)
  BY DEF Has, Removes
<1>6. \A o \in Objects : mem'[o] = "retired" => next'[o].ptr = o
  BY <1>1 DEF Inv, NodesAccounted
<1> QED
  BY <1>1, <1>2, <1>3, <1>4, <1>5, <1>6, StepsInv

LEMMA QuietIteration ==
  ASSUME NEW c \in Seq(Objects), Inv(c), NEW t \in Threads,
         UNCHANGED listVars, OthersStay(t), loc'[t].op \in {loc[t].op, "idle"}
  PROVE  IterationsFit'
<1>1. UNCHANGED <<head, next, value, mem>>
  BY DEF listVars
<1>2. Iterates => \A o \in Objects : mem'[o] = "live" => IsElement(o)'
  BY <1>1 DEF Inv, IterationsFit, IsElement
<1> QED
  BY <1>2, IterationsGoOn

(* The steps of one thread.                                                *)
LEMMA Announced ==
  ASSUME NEW M, NEW N, NEW C, NEW p, NEW l \in LocType, Fits(p, l, M, N, C),
         NEW x \in Objects
  PROVE  /\ p \in {"loadHead", "checkHead"} =>
              Fits("checkHead", [l EXCEPT !.temp = x], M, N, C)
         /\ p \in {"loadNext", "checkNext"} =>
              Fits("checkNext", [l EXCEPT !.temp = x], M, N, C)
<1> DEFINE k == [l EXCEPT !.temp = x]
<1>1. /\ k.op = l.op /\ k.prev = l.prev /\ k.curr = l.curr /\ k.next = l.next
      /\ k.removing = l.removing /\ k.temp = x
  BY DEF LocType
<1> HIDE DEF k
<1>2. GuardsOf(k) = GuardsOf(l)
  BY <1>1 DEF GuardsOf
<1>3. OpFits(p, l) /\ GuardsFit(p, l, M) /\ NodesFit(p, l, M, N, C)
  BY DEF Fits
<1>4. ASSUME p \in {"loadHead", "checkHead"} PROVE Fits("checkHead", k, M, N, C)
  <2>1. OpFits("checkHead", k)
    BY <1>1, <1>3, <1>4 DEF OpFits
  <2>2. GuardsFit("checkHead", k, M)
    BY <1>1, <1>2, <1>3, <1>4 DEF GuardsFit, Starting, Stands
  <2> QED
    BY <2>1, <2>2 DEF Fits, NodesFit
<1>5. ASSUME p \in {"loadNext", "checkNext"} PROVE Fits("checkNext", k, M, N, C)
  <2>1. OpFits("checkNext", k)
    BY <1>1, <1>3, <1>5 DEF OpFits
  <2>2. GuardsFit("checkNext", k, M)
    BY <1>1, <1>2, <1>3, <1>5 DEF GuardsFit, Starting, Stands
  <2>3. NodesFit("checkNext", k, M, N, C)
    BY <1>1, <1>3, <1>5 DEF NodesFit
  <2> QED
    BY <2>1, <2>2, <2>3 DEF Fits
<1> QED
  BY <1>4, <1>5 DEF k

LEMMA HeadGuarded ==
  ASSUME NEW M, NEW N, NEW C, NEW l \in LocType, Fits("checkHead", l, M, N, C),
         NEW g, g.safe, g.ptr \in C, g.ptr \in Objects, M[g.ptr] = "live"
  PROVE  Fits("loadNext", [l EXCEPT !.curr = g, !.temp = NoPtr, !.count = 1], M, N, C)
<1> DEFINE k == [l EXCEPT !.curr = g, !.temp = NoPtr, !.count = 1]
<1>1. /\ k.op = l.op /\ k.prev = l.prev /\ k.curr = g /\ k.next = l.next
      /\ k.removing = l.removing
  BY DEF LocType
<1> HIDE DEF k
<1>2. OpFits("checkHead", l) /\ GuardsFit("checkHead", l, M)
  BY DEF Fits
<1>3. OpFits("loadNext", k)
  BY <1>1, <1>2 DEF OpFits
<1>4. GuardsFit("loadNext", k, M)
  <2>1. l.prev = NoGuard /\ l.next = NoGuard
    BY <1>2 DEF GuardsFit, Starting, GuardsOf
  <2> QED
    BY <1>1, <2>1, LocTyped DEF GuardsFit, Starting, Stands, GuardsOf, Safe
<1>5. NodesFit("loadNext", k, M, N, C)
  BY <1>1 DEF NodesFit
<1> QED
  BY <1>3, <1>4, <1>5 DEF Fits, k
LEMMA GuardIs ==
  ASSUME NEW n
  PROVE  /\ Guard(n).ptr = n.ptr /\ Guard(n).mark = n.mark
         /\ Guard(n).safe <=> n.ptr \in Objects /\ mem[n.ptr] = "live"
BY DEF Guard

(* Where Decide leads, the thread's local variables fit.                   *)
LEMMA DecideFits ==
  ASSUME NEW c \in Seq(Objects), Inv(c), NEW t \in Threads,
         pc[t] \in {"loadNext", "checkNext"},
         NEW n \in LinkType, n.ptr = NextOfCurr(t).ptr,
         n.mark \/ n.ptr # NoPtr => n = NextOfCurr(t),
         Decide(t, n)
  PROVE  /\ Fits(pc'[t], loc'[t], mem, next, NodesOn(c))
         /\ pc'[t] \notin {"pushCas", "leave", "retire"}
         /\ loc'[t].op \in {loc[t].op, "idle"}
<1> DEFINE C == NodesOn(c)
           l == loc[t]
           o == loc[t].curr.ptr
           d == Deciding(t, n)
<1>1. /\ pc[t] \in Stands /\ l.curr.safe /\ o \in Objects /\ mem[o] \in {"live", "retired"}
      /\ o # NoPtr /\ l \in LocType /\ l.op \in {"erase"} \cup Counting
      /\ OpFits(pc[t], l) /\ GuardsFit(pc[t], l, mem) /\ NodesFit(pc[t], l, mem, next, C)
  <2>1. pc[t] \in Stands
    BY DEF Stands
  <2>2. l \in LocType /\ OpFits(pc[t], l)
    BY ThreadIs
  <2>3. l.op \in {"erase"} \cup Counting
    BY <2>2 DEF OpFits, LocType
  <2> QED
    BY <2>1, <2>2, <2>3, ThreadIs, StandsOn
<1>2. n.ptr = next[o].ptr /\ (n.mark \/ n.ptr # NoPtr => n = next[o]) /\ n.mark \in BOOLEAN
      /\ n = Link(n.ptr, n.mark) /\ n.ptr \in Pointers
  BY DEF NextOfCurr, LinkType, Link
<1>3. /\ d.op = l.op /\ d.prev = l.prev /\ d.curr = l.curr /\ d.next = Guard(n)
      /\ d.removing = l.removing /\ d.elem = l.elem
  BY <1>1 DEF Deciding, LocType
<1>4. d \in LocType /\ Followed(d) \in LocType /\ NoGuard \in Guards
  <2>1. d \in LocType
    BY <1>1, DecidedTyped, TypesAre DEF Inv
  <2> QED
    BY <2>1, LocTyped DEF Followed, LocType
<1>5. o \in C => n.ptr \in C \cup {NoPtr} /\ n.ptr # o
  BY <1>2, NodesOfChain
<1>6. \A x \in C : x \in Objects /\ x # NoPtr /\ mem[x] = "live"
  BY NodesOfChain
<1>7. n.ptr \in C => Guard(n).safe
  BY <1>6, GuardIs
<1>8. ~n.mark /\ n.ptr # NoPtr /\ n.ptr # o => n.ptr \in C
  BY <1>1, <1>2, <1>5, StillInChain
<1>9. Guard(n).safe => n.ptr \in Objects /\ mem[n.ptr] \in {"live", "retired"}
  BY GuardIs
<1>10. CASE StartsAgain(t, n)
  <2>1. pc'[t] = (IF loc[t].op = "erase" THEN "start" ELSE "loadHead") /\ loc'[t] = Restarted(t)
    BY <1>10, RestartMoves, TypesAre DEF StartsAgain, Inv
  <2>2. Fits(pc'[t], loc'[t], mem, next, C)
    BY <1>1, <2>1, RestartedFits
  <2>3. Restarted(t).op = l.op
    BY LocTyped DEF Restarted, LocType
  <2> QED
    BY <2>1, <2>2, <2>3
<1>11. CASE Ends(t, n)
  <2>1. pc'[t] = "idle" /\ loc'[t] = NoLoc
    BY <1>11, ReturnMoves, TypesAre DEF Ends, Inv
  <2> QED
    BY <2>1, IdleFits, LocTyped
<1>12. CASE Unlinking(t, n)
  <2>1. pc'[t] = "unlink" /\ loc'[t] = d
    BY <1>12, GotoMoves, TypesAre DEF Unlinking, Inv
  <2> HIDE DEF d, l, o, C
  <2>2. l.op # "iterate"
    BY <1>1, <1>12 DEF Unlinking, OpFits, l
  <2>3. OpFits("unlink", d)
    BY <1>1, <1>3, <2>2 DEF OpFits
  <2>4. GuardsFit("unlink", d, mem)
    BY <1>1, <1>3, <1>9, GuardIs DEF GuardsFit, GuardsOf, Starting, Stands
  <2>5. n.mark /\ n = next[o]
    BY <1>2, <1>12 DEF Unlinking
  <2>6. o \in C => Safe(Guard(n)) /\ next[o] = Link(n.ptr, TRUE)
    BY <1>2, <1>5, <1>7, <2>5, GuardIs DEF Safe
  <2>7. NodesFit("unlink", d, mem, next, C)
    BY <1>3, <2>6, GuardIs, ZenonT(60) DEF NodesFit, o, l
  <2> QED
    BY <1>3, <2>1, <2>3, <2>4, <2>7 DEF Fits, l, C
<1>13. CASE Marking(t, n)
  <2>1. pc'[t] = "mark" /\ loc'[t] = d /\ l.op = "erase" /\ ~n.mark
    BY <1>13, GotoMoves, TypesAre DEF Marking, Inv, Found
  <2> HIDE DEF d, l, o, C
  <2>2. OpFits("mark", d)
    BY <1>1, <1>3, <2>1 DEF OpFits
  <2>3. GuardsFit("mark", d, mem)
    BY <1>1, <1>3, <1>9, GuardIs DEF GuardsFit, GuardsOf, Starting, Stands
  <2>4. NodesFit("mark", d, mem, next, C)
    BY <1>3, <2>1, GuardIs DEF NodesFit
  <2> QED
    BY <1>3, <2>1, <2>2, <2>3, <2>4 DEF Fits, l, C
<1>14. CASE Iterating(t, n)
  <2>1. pc'[t] = "loadNext" /\ loc'[t] = Forwarded(d) /\ l.op = "iterate"
    BY <1>14, GotoMoves, TypesAre DEF Iterating, Inv
  <2>2. /\ Forwarded(d).op = l.op /\ Forwarded(d).prev = l.prev
        /\ Forwarded(d).curr = Guard(n) /\ Forwarded(d).next = NoGuard
        /\ Forwarded(d).removing = l.removing
    BY <1>3, <1>4 DEF Forwarded, LocType
  <2> HIDE DEF d, l
  <2>3. o \in C
    BY <1>1, <2>1 DEF NodesFit, l
  <2>4. ~next[o].mark
    <3>1. Iterates
      BY <2>1 DEF Iterates, l
    <3>2. IsElement(o)
      BY <1>1, <1>6, <2>3, <3>1 DEF Inv, IterationsFit
    <3> QED
      BY <3>2 DEF IsElement
  <2>5. n.ptr \in C
    BY <1>2, <1>5, <1>14, <2>3, <2>4 DEF Iterating, IsEnd
  <2> HIDE DEF o, C
  <2>6. Guard(n).safe /\ Guard(n).ptr = n.ptr
    BY <1>7, <2>5, GuardIs
  <2>7. OpFits("loadNext", Forwarded(d)) /\ l.prev.ptr = NoPtr
    BY <1>1, <2>1, <2>2 DEF OpFits
  <2>8. GuardsFit("loadNext", Forwarded(d), mem)
    <3>1. l.prev \in GuardsOf(l) /\ Safe(l.prev)
      BY <2>7 DEF GuardsOf, Safe
    <3> QED
      BY <1>1, <1>9, <2>2, <2>6, <2>7, <3>1, LocTyped DEF GuardsFit, GuardsOf, Starting, Stands
  <2>9. NodesFit("loadNext", Forwarded(d), mem, next, C)
    BY <2>2, <2>5, <2>6 DEF NodesFit
  <2> QED
    BY <2>1, <2>2, <2>7, <2>8, <2>9 DEF Fits, l, C
<1>15. CASE Advancing(t, n)
  <2>1. pc'[t] = "loadNext" /\ loc'[t] = Forwarded(Followed(d)) /\ l.op # "iterate"
    BY <1>15, GotoMoves, TypesAre DEF Advancing, Inv
  <2> DEFINE f == Forwarded(Followed(d))
  <2>2. /\ f.op = l.op /\ f.prev = l.curr /\ f.curr = Guard(n) /\ f.next = NoGuard
        /\ f.removing = l.removing
    BY <1>3, <1>4 DEF Forwarded, Followed, LocType
  <2>3. n.ptr \in C /\ n.ptr # o
    BY <1>8, <1>15 DEF Advancing, HasLeft
  <2> HIDE DEF d, l, f, C
  <2>4. Guard(n).safe /\ Guard(n).ptr = n.ptr
    BY <1>7, <2>3, GuardIs
  <2>5. OpFits("loadNext", f)
    BY <1>1, <2>1, <2>2 DEF OpFits
  <2>6. GuardsFit("loadNext", f, mem)
    <3>1. l.curr.ptr # n.ptr
      BY <2>3 DEF l
    <3> QED
      BY <1>1, <1>9, <2>2, <2>4, <3>1, LocTyped
         DEF GuardsFit, GuardsOf, Starting, Stands, Safe
  <2>7. NodesFit("loadNext", f, mem, next, C)
    BY <2>1, <2>2 DEF NodesFit
  <2> QED
    BY <2>1, <2>2, <2>5, <2>6, <2>7 DEF Fits, l, C, f
<1> QED
  BY <1>1, <1>2, <1>10, <1>11, <1>12, <1>13, <1>14, <1>15, DecideLeads
------------------------------------------------------------------------------
(* The steps.                                                              *)
LEMMA InvInit == Init => Inv(<< >>)
<1> SUFFICES ASSUME Init PROVE Inv(<< >>)
  OBVIOUS
<1>1. NodesOn(<< >>) = {} /\ OneByOne(<< >>) /\ Linked(next, head, << >>)
  BY NothingLinked DEF Init
<1>2. Chained(<< >>)
  BY <1>1 DEF Chained
<1>3. \A t \in Threads : pc[t] = "idle" /\ loc[t] = NoLoc
  BY DEF Init
<1>4. \A t \in Threads : FitsIn(t, NodesOn(<< >>))
  BY <1>3, IdleFits DEF FitsIn
<1>5. \A t \in Threads, o \in Objects : ~Owns(t, o)
  BY <1>3 DEF Owns, Has, Removes
<1>6. NodesAccounted(NodesOn(<< >>))
  BY DEF Init, NodesAccounted
<1>7. IterationsFit
  BY <1>3, LocTyped DEF IterationsFit, Iterates
<1> QED
  BY <1>2, <1>4, <1>5, <1>6, <1>7, InitTyped DEF Inv

LEMMA CallEraseStep ==
  ASSUME NEW c \in Seq(Objects), Inv(c), TypeOK', NEW t \in Threads, NEW v \in Erased,
         CallErase(t, v)
  PROVE  Inv(c)'
<1>1. /\ pc[t] = "idle" /\ pc'[t] = "start" /\ loc'[t] = Fresh("erase", v)
      /\ OthersStay(t) /\ UNCHANGED listVars
  BY GotoMoves, TypesAre DEF CallErase, Fresh, Inv
<1>2. Fits(pc'[t], loc'[t], mem, next, NodesOn(c))
  BY <1>1, FreshFits
<1>3. \A u \in Threads : loc'[u].op # "iterate"
  BY <1>1, FreshIs DEF OthersStay, CallErase
<1>4. IterationsFit'
  BY <1>3 DEF IterationsFit, Iterates
<1> QED
  BY <1>1, <1>2, <1>4, QuietStep

LEMMA WalksStep ==
  ASSUME NEW c \in Seq(Objects), Inv(c), TypeOK', NEW t \in Threads, Walks(t)
  PROVE  Inv(c)'
<1>1. PICK op \in Counting : Walk(t, op) /\ (op = "iterate" => CallIterate(t))
  BY DEF Walks, CallSize, CallIterate, Counting
<1>2. /\ pc[t] = "idle" /\ pc'[t] = "loadHead" /\ loc'[t] = Fresh(op, NoLoc.elem)
      /\ OthersStay(t) /\ UNCHANGED listVars
  <2>1. \A l \in LocType : [l EXCEPT !.op = op] = [l EXCEPT !.op = op, !.elem = l.elem]
    BY DEF LocType
  <2>2. [NoLoc EXCEPT !.op = op] = Fresh(op, NoLoc.elem)
    BY <2>1, LocTyped DEF Fresh
  <2> QED
    BY <1>1, <2>2, GotoMoves, TypesAre DEF Walk, Inv
<1>3. Fits(pc'[t], loc'[t], mem, next, NodesOn(c)) /\ loc'[t].op = op
  BY <1>2, FreshFits, FreshIs
<1>4. UNCHANGED <<head, next, value, mem>> /\ \A o \in Objects : IsElement(o)' = IsElement(o)
  BY <1>2 DEF listVars, IsElement
<1>5. IterationsFit'
  <2>1. CASE op = "iterate"
    <3>1. /\ \A u \in Threads : loc[u].op # "erase"
          /\ \A o \in Objects : mem[o] = "live" => IsElement(o)
      BY <1>1, <2>1 DEF CallIterate
    <3> QED
      BY <1>2, <1>3, <1>4, <2>1, <3>1 DEF IterationsFit, OthersStay
  <2>2. CASE op # "iterate"
    <3>1. op # "erase" /\ IterationsFit
      BY DEF Counting, Inv
    <3>2. Iterates' => Iterates
      BY <1>2, <1>3, <2>2 DEF Iterates, OthersStay
    <3> QED
      BY <1>2, <1>3, <1>4, <3>1, <3>2 DEF IterationsFit, OthersStay
  <2> QED
    BY <2>1, <2>2
<1> QED
  BY <1>2, <1>3, <1>5, QuietStep

(* Back to the start, or an end, without touching the list.                *)
LEMMA RestartStep ==
  ASSUME NEW c \in Seq(Objects), Inv(c), TypeOK', NEW t \in Threads,
         UNCHANGED listVars, Restart(t) \/ Return(t),
         pc[t] \notin {"idle", "pushCas", "leave", "retire"}
  PROVE  Inv(c)'
<1>1. OpFits(pc[t], loc[t]) /\ loc[t] \in LocType /\ ThreadsTyped
  BY ThreadIs, TypesAre DEF Inv
<1>2. loc[t].op \in {"erase"} \cup Counting
  BY <1>1 DEF OpFits, LocType
<1>3. CASE Restart(t)
  <2>1. /\ pc'[t] = (IF loc[t].op = "erase" THEN "start" ELSE "loadHead")
        /\ loc'[t] = Restarted(t) /\ OthersStay(t)
    BY <1>1, <1>3, RestartMoves
  <2>2. Fits(pc'[t], loc'[t], mem, next, NodesOn(c))
    BY <1>2, <2>1, RestartedFits
  <2>3. loc'[t].op = loc[t].op
    BY <2>1, LocTyped DEF Restarted, LocType
  <2>4. IterationsFit'
    BY <2>1, <2>3, QuietIteration
  <2> QED
    BY <2>1, <2>2, <2>4, QuietStep
<1>4. CASE Return(t)
  <2>1. pc'[t] = "idle" /\ loc'[t] = NoLoc /\ OthersStay(t)
    BY <1>1, <1>4, ReturnMoves
  <2>2. Fits(pc'[t], loc'[t], mem, next, NodesOn(c)) /\ loc'[t].op = "idle"
    BY <2>1, IdleFits, LocTyped
  <2>3. IterationsFit'
    BY <2>1, <2>2, QuietIteration
  <2> QED
    BY <2>1, <2>2, <2>3, QuietStep
<1> QED
  BY <1>3, <1>4

LEMMA StartStep ==
  ASSUME NEW c \in Seq(Objects), Inv(c), TypeOK', NEW t \in Threads, Start(t)
  PROVE  Inv(c)'
<1>1. pc[t] = "start" /\ UNCHANGED listVars
  BY DEF Start
<1>2. CASE head = NoPtr
  BY <1>1, <1>2, RestartStep DEF Start
<1>3. CASE head # NoPtr
  <2>1. pc'[t] = "loadHead" /\ loc'[t] = loc[t] /\ OthersStay(t)
    BY <1>3, GotoMoves, TypesAre DEF Start, Inv
  <2>2. OpFits("start", loc[t]) /\ GuardsFit("start", loc[t], mem)
    BY <1>1, ThreadIs
  <2>3. Fits("loadHead", loc[t], mem, next, NodesOn(c))
    BY <2>2 DEF Fits, OpFits, GuardsFit, NodesFit, Starting, Stands
  <2>4. IterationsFit'
    BY <1>1, <2>1, QuietIteration
  <2> QED
    BY <1>1, <2>1, <2>3, <2>4, QuietStep
<1> QED
  BY <1>2, <1>3

LEMMA LoadHeadStep ==
  ASSUME NEW c \in Seq(Objects), Inv(c), TypeOK', NEW t \in Threads,
         UNCHANGED listVars, pc[t] \in {"loadHead", "checkHead"},
         IF head = NoPtr THEN NoHead(t)
         ELSE Goto(t, "checkHead", [loc[t] EXCEPT !.temp = head])
  PROVE  Inv(c)'
<1>1. CASE head = NoPtr
  BY <1>1, RestartStep DEF NoHead
<1>2. CASE head # NoPtr
  <2>1. /\ pc'[t] = "checkHead" /\ loc'[t] = [loc[t] EXCEPT !.temp = head]
        /\ OthersStay(t)
    BY <1>2, GotoMoves, TypesAre DEF Inv
  <2>2. head \in Objects /\ loc[t] \in LocType
    BY <1>2, NodesOfChain, ThreadIs
  <2>3. Fits(pc'[t], loc'[t], mem, next, NodesOn(c))
    BY <2>1, <2>2, Announced DEF Inv, FitsIn
  <2>4. loc'[t].op = loc[t].op
    BY <2>1, <2>2 DEF LocType
  <2>5. IterationsFit'
    BY <2>1, <2>4, QuietIteration
  <2> QED
    BY <2>1, <2>3, <2>5, QuietStep
<1> QED
  BY <1>1, <1>2

LEMMA CheckHeadStep ==
  ASSUME NEW c \in Seq(Objects), Inv(c), TypeOK', NEW t \in Threads, CheckHead(t)
  PROVE  Inv(c)'
<1>1. pc[t] = "checkHead" /\ UNCHANGED listVars
  BY DEF CheckHead
<1>2. CASE ~Agrees(loc[t].temp, head)
  BY <1>1, <1>2, LoadHeadStep DEF CheckHead
<1>3. CASE Agrees(loc[t].temp, head)
  <2> DEFINE g == Guard(Link(loc[t].temp, FALSE))
  <2>1. /\ pc'[t] = "loadNext" /\ OthersStay(t)
        /\ loc'[t] = [loc[t] EXCEPT !.curr = g, !.temp = NoPtr, !.count = 1]
    BY <1>3, GotoMoves, TypesAre DEF CheckHead, Inv
  <2>2. loc[t].temp = head /\ loc[t].temp \in Objects /\ loc[t] \in LocType
    BY <1>1, <1>3, ThreadIs DEF Agrees, GuardsFit
  <2>3. head \in NodesOn(c) /\ mem[head] = "live"
    BY <2>2, NodesOfChain
  <2>4. g.safe /\ g.ptr = head
    BY <2>2, <2>3, GuardIs DEF Link
  <2> HIDE DEF g
  <2>5. Fits("checkHead", loc[t], mem, next, NodesOn(c))
    BY <1>1 DEF Inv, FitsIn
  <2>6. Fits(pc'[t], loc'[t], mem, next, NodesOn(c))
    <3>1. g.safe /\ g.ptr \in NodesOn(c) /\ g.ptr \in Objects /\ mem[g.ptr] = "live"
      BY <2>2, <2>3, <2>4
    <3>2. Fits("loadNext", [loc[t] EXCEPT !.curr = g, !.temp = NoPtr, !.count = 1],
               mem, next, NodesOn(c))
      BY <2>2, <2>5, <3>1, HeadGuarded
    <3> QED
      BY <2>1, <3>2
  <2>7. loc'[t].op = loc[t].op
    BY <2>1, <2>2 DEF LocType
  <2>8. IterationsFit'
    BY <1>1, <2>1, <2>7, QuietIteration
  <2> QED
    BY <1>1, <2>1, <2>6, <2>8, QuietStep
<1> QED
  BY <1>2, <1>3

LEMMA LoadNextStep ==
  ASSUME NEW c \in Seq(Objects), Inv(c), TypeOK', NEW t \in Threads,
         LoadNext(t) \/ CheckNext(t)
  PROVE  Inv(c)'
<1>1. pc[t] \in {"loadNext", "checkNext"} /\ pc[t] \in Stands /\ UNCHANGED listVars
  BY DEF LoadNext, CheckNext, Stands
<1>2. /\ NextOfCurr(t) \in LinkType /\ NextOfCurr(t).ptr \in Pointers
      /\ NextOfCurr(t) = Link(NextOfCurr(t).ptr, NextOfCurr(t).mark)
      /\ NextOfCurr(t).mark \in BOOLEAN
  BY <1>1, StandsOn, LinksTyped, TypesAre DEF Inv, NextOfCurr
<1>3. ASSUME NEW n \in LinkType, n.ptr = NextOfCurr(t).ptr,
             n.mark \/ n.ptr # NoPtr => n = NextOfCurr(t), Decide(t, n)
      PROVE  Inv(c)'
  <2>1. /\ Fits(pc'[t], loc'[t], mem, next, NodesOn(c))
        /\ pc'[t] \notin {"pushCas", "leave", "retire"}
        /\ loc'[t].op \in {loc[t].op, "idle"}
    BY <1>1, <1>3, DecideFits
  <2>2. OthersStay(t)
    BY <1>3, DecideTyped, TypesAre DEF Inv
  <2>3. IterationsFit'
    BY <1>1, <2>1, <2>2, QuietIteration
  <2> QED
    BY <1>1, <2>1, <2>2, <2>3, QuietStep
<1>4. ASSUME NextOfCurr(t).ptr # NoPtr,
             Goto(t, "checkNext", [loc[t] EXCEPT !.temp = NextOfCurr(t).ptr])
      PROVE  Inv(c)'
  <2>1. /\ pc'[t] = "checkNext" /\ loc'[t] = [loc[t] EXCEPT !.temp = NextOfCurr(t).ptr]
        /\ OthersStay(t)
    BY <1>4, GotoMoves, TypesAre DEF Inv
  <2>2. NextOfCurr(t).ptr \in Objects /\ loc[t] \in LocType
    BY <1>2, <1>4, ThreadIs DEF Pointers
  <2>3. Fits(pc'[t], loc'[t], mem, next, NodesOn(c))
    BY <1>1, <2>1, <2>2, Announced DEF Inv, FitsIn
  <2>4. loc'[t].op = loc[t].op
    BY <2>1, <2>2 DEF LocType
  <2>5. IterationsFit'
    BY <1>1, <2>1, <2>4, QuietIteration
  <2> QED
    BY <1>1, <2>1, <2>3, <2>5, QuietStep
<1>5. CASE LoadNext(t)
  <2>1. CASE NextOfCurr(t).ptr = NoPtr
    BY <1>2, <1>3, <1>5, <2>1 DEF LoadNext
  <2>2. CASE NextOfCurr(t).ptr # NoPtr
    BY <1>4, <1>5, <2>2 DEF LoadNext
  <2> QED
    BY <2>1, <2>2
<1>6. CASE CheckNext(t)
  <2>1. CASE Agrees(loc[t].temp, NextOfCurr(t).ptr)
    <3>1. Link(loc[t].temp, NextOfCurr(t).mark) = NextOfCurr(t)
      BY <1>2, <2>1 DEF Agrees
    <3> QED
      BY <1>2, <1>3, <1>6, <2>1, <3>1 DEF CheckNext
  <2>2. CASE ~Agrees(loc[t].temp, NextOfCurr(t).ptr) /\ NextOfCurr(t).ptr = NoPtr
    <3>1. Null \in LinkType /\ Null.ptr = NoPtr /\ ~Null.mark
      BY NullTyped DEF Null, Link
    <3> QED
      BY <1>3, <1>6, <2>2, <3>1 DEF CheckNext
  <2>3. CASE ~Agrees(loc[t].temp, NextOfCurr(t).ptr) /\ NextOfCurr(t).ptr # NoPtr
    BY <1>4, <1>6, <2>3 DEF CheckNext
  <2> QED
    BY <2>1, <2>2, <2>3
<1> QED
  BY <1>5, <1>6
(* The steps of other threads leave a thread alone, but for its nodes.     *)
LEMMA ThreadOwns ==
  ASSUME NEW c \in Seq(Objects), Inv(c), NEW t \in Threads, NEW u \in Threads \ {t},
         NEW o \in Objects, Has(pc[t], loc[t], o)
  PROVE  ~Has(pc[u], loc[u], o)
BY DEF Inv, Owns

(* The memory and the links of one node change.                            *)
LEMMA OneNodeChanges ==
  ASSUME NEW c \in Seq(Objects), Inv(c), NEW u \in Threads, NEW o \in Objects,
         NEW M2, NEW N2,
         \A x \in Objects \ {o} : M2[x] = mem[x] /\ N2[x] = next[x],
         ~Has(pc[u], loc[u], o),
         M2[o] \in {"live", "retired"}
           \/ mem[o] \notin {"live", "retired"} \/ o \notin Guarded(u),
         o \notin NodesOn(c)
  PROVE  Undisturbed(pc[u], loc[u], mem, next, NodesOn(c), M2, N2, NodesOn(c))
<1> DEFINE p == pc[u]
           l == loc[u]
           C == NodesOn(c)
<1>1. GuardsFit(p, l, mem) /\ C \subseteq Objects
  BY ThreadIs, NodesOfChain
<1>2. \A g \in GuardsOf(l) : g.safe => g.ptr \in Objects /\ g.ptr \in Guarded(u)
  BY <1>1 DEF GuardsFit, GuardsOf, Guarded
<1> HIDE DEF p, l, C
<1>3. \A g \in GuardsOf(l) :
        g.safe /\ mem[g.ptr] \in {"live", "retired"} => M2[g.ptr] \in {"live", "retired"}
  BY <1>2
<1>4. \A x \in Objects : Has(p, l, x) => x # o
  BY DEF p, l
<1>5. \A x \in C : N2[x] = next[x]
  BY <1>1 DEF C
<1>6. Undisturbed(p, l, mem, next, C, M2, N2, C)
  BY <1>3, <1>4, <1>5 DEF Undisturbed
<1> QED
  BY <1>6 DEF p, l, C

LEMMA ChainedStill ==
  ASSUME NEW c \in Seq(Objects), Inv(c), UNCHANGED head,
         \A o \in NodesOn(c) : next'[o].ptr = next[o].ptr /\ mem'[o] = "live"
  PROVE  Chained(c)'
<1>1. OneByOne(c) /\ Linked(next, head, c)
  BY DEF Inv, Chained
<1>2. \A i \in 1 .. Len(c) : c[i] \in NodesOn(c)
  BY DEF NodesOn
<1>3. Linked(next', head', c)
  BY <1>1, <1>2 DEF Linked
<1> QED
  BY <1>1, <1>3 DEF Chained

LEMMA CallPushStep ==
  ASSUME NEW c \in Seq(Objects), Inv(c), TypeOK', NEW t \in Threads,
         NEW o \in Objects, NEW v \in Values, CallPush(t, o, v)
  PROVE  Inv(c)'
<1> DEFINE l == [NoLoc EXCEPT !.op = "push", !.elem = v, !.temp = o]
<1>1. /\ pc[t] = "idle" /\ mem[o] = "free" /\ UNCHANGED head
      /\ pc'[t] = "pushCas" /\ loc'[t] = l /\ OthersStay(t)
  BY GotoMoves, TypesAre DEF CallPush, Inv
<1>2. /\ \A x \in Objects \ {o} : mem'[x] = mem[x] /\ next'[x] = next[x]
      /\ mem'[o] = "private" /\ next'[o] = Link(head, FALSE)
  BY TypesAre DEF CallPush, Inv, ListTyped
<1>3. head # o /\ o \notin NodesOn(c)
  BY <1>1, NodesOfChain
<1>4. /\ l.op = "push" /\ l.temp = o /\ l.prev = NoGuard /\ l.curr = NoGuard
      /\ l.next = NoGuard /\ ~l.removing
  BY LocTyped DEF LocType
<1> HIDE DEF l
<1>5. Fits(pc'[t], loc'[t], mem', next', NodesOn(c))
  <2>1. OpFits("pushCas", l)
    BY <1>4 DEF OpFits
  <2>2. GuardsFit("pushCas", l, mem')
    BY <1>4, LocTyped DEF GuardsFit, GuardsOf, Starting, Stands
  <2>3. NodesFit("pushCas", l, mem', next', NodesOn(c))
    BY <1>2, <1>3, <1>4 DEF NodesFit, Link
  <2> QED
    BY <1>1, <2>1, <2>2, <2>3 DEF Fits
<1>6. ASSUME NEW u \in Threads \ {t}
      PROVE  Undisturbed(pc[u], loc[u], mem, next, NodesOn(c), mem', next', NodesOn(c))
  <2>1. ~Has(pc[u], loc[u], o)
    <3>1. NodesFit(pc[u], loc[u], mem, next, NodesOn(c))
      BY ThreadIs
    <3> QED
      BY <1>1, <3>1 DEF Has, Removes, NodesFit
  <2> QED
    BY <1>1, <1>2, <1>3, <2>1, OneNodeChanges
<1>7. Chained(c)'
  <2>1. \A x \in NodesOn(c) : next'[x] = next[x] /\ mem'[x] = "live"
    BY <1>2, <1>3, NodesOfChain
  <2> QED
    BY <1>1, <2>1, ChainedStill
<1>8. \A x \in Objects : Has(pc'[t], loc'[t], x) => x = o
  BY <1>1, <1>4 DEF Has, Removes
<1>9. \A x \in Objects : ~Removes(pc[t], loc[t], x)
  BY <1>1 DEF Removes
<1>10. \A x \in Objects : mem[x] = "retired" => next[x].ptr = x
  BY DEF Inv, NodesAccounted
<1>11. IterationsFit'
  <2>1. Iterates' => Iterates
    BY <1>1, <1>4 DEF Iterates, OthersStay
  <2>2. \A u \in Threads : loc'[u].op = "erase" => loc[u].op = "erase"
    BY <1>1, <1>4 DEF OthersStay
  <2>3. \A x \in Objects : mem'[x] = "live" /\ IsElement(x) => IsElement(x)'
    BY <1>2 DEF IsElement
  <2>4. \A x \in Objects : mem'[x] = "live" => mem[x] = "live"
    BY <1>2
  <2> QED
    BY <2>1, <2>2, <2>3, <2>4 DEF IterationsFit, Inv
<1> QED
  BY <1>1, <1>2, <1>5, <1>6, <1>7, <1>8, <1>9, <1>10, <1>11, StepsInv

LEMMA PushRetryStep ==
  ASSUME NEW c \in Seq(Objects), Inv(c), TypeOK', NEW t \in Threads, PushRetry(t)
  PROVE  Inv(c)'
<1> DEFINE o == loc[t].temp
<1>1. pc[t] = "pushCas" /\ UNCHANGED <<head, mem, pc, loc>> /\ OthersStay(t)
  BY DEF PushRetry, OthersStay
<1>2. o \in Objects /\ mem[o] = "private"
  BY <1>1, ThreadIs DEF NodesFit
<1>3. /\ \A x \in Objects \ {o} : next'[x] = next[x]
      /\ next'[o] = Link(head, FALSE)
  BY <1>2, TypesAre DEF PushRetry, Inv, ListTyped
<1>4. head # o /\ o \notin NodesOn(c)
  BY <1>2, NodesOfChain
<1>5. Fits(pc'[t], loc'[t], mem', next', NodesOn(c))
  <2>1. Fits(pc[t], loc[t], mem, next, NodesOn(c))
    BY DEF Inv, FitsIn
  <2> QED
    BY <1>1, <1>2, <1>3, <1>4, <2>1 DEF Fits, NodesFit, Link
<1>6. ASSUME NEW u \in Threads \ {t}
      PROVE  Undisturbed(pc[u], loc[u], mem, next, NodesOn(c), mem', next', NodesOn(c))
  <2>1. ~Has(pc[u], loc[u], o)
    BY <1>1, <1>2, ThreadOwns DEF Has
  <2> HIDE DEF o
  <2> QED
    BY <1>1, <1>2, <1>3, <1>4, <2>1, OneNodeChanges
<1>7. Chained(c)'
  <2>1. \A x \in NodesOn(c) : next'[x] = next[x] /\ mem'[x] = "live"
    BY <1>1, <1>3, <1>4, NodesOfChain
  <2> QED
    BY <1>1, <2>1, ChainedStill
<1>8. \A x \in Objects : mem[x] = "retired" => next'[x].ptr = x
  BY <1>2, <1>3 DEF Inv, NodesAccounted
<1>9. IterationsFit'
  <2>1. Iterates => \A x \in Objects : mem'[x] = "live" => IsElement(x)'
    BY <1>1, <1>2, <1>3 DEF IsElement, Inv, IterationsFit
  <2> QED
    BY <1>1, <2>1, IterationsGoOn
<1> QED
  BY <1>1, <1>5, <1>6, <1>7, <1>8, <1>9, StepsInv
LEMMA PushCasStep ==
  ASSUME NEW c \in Seq(Objects), Inv(c), TypeOK', NEW t \in Threads, PushCas(t)
  PROVE  \E d \in Seq(Objects) : Inv(d)' /\ Pushed(c, d, loc[t].temp)
<1>0. PICK o \in Objects : pc[t] = "pushCas" /\ o = loc[t].temp
  BY ThreadIs DEF PushCas, NodesFit
<1> DEFINE d == <<o>> \o c
<1>1. /\ pc[t] = "pushCas" /\ UNCHANGED <<next, value>> /\ head' = o /\ head = next[o].ptr
      /\ pc'[t] = "idle" /\ loc'[t] = NoLoc /\ OthersStay(t)
  BY <1>0, ReturnMoves, TypesAre DEF PushCas, Inv, HeadIsStill
<1>2. o \in Objects /\ mem[o] = "private" /\ ~next[o].mark /\ next[o].ptr # o
  BY <1>0, ThreadIs DEF NodesFit
<1>3. (\A x \in Objects \ {o} : mem'[x] = mem[x]) /\ mem'[o] = "live"
  BY <1>0, TypesAre DEF PushCas, Inv, ListTyped
<1>4. \A x \in NodesOn(c) : x # o /\ x \in Objects /\ mem[x] = "live"
  BY <1>2, NodesOfChain
<1>5. /\ d \in Seq(Objects) /\ OneByOne(d) /\ Linked(next, o, d)
      /\ NodesOn(d) = NodesOn(c) \cup {o}
  <2>1. OneByOne(c) /\ Linked(next, head, c)
    BY DEF Inv, Chained
  <2>2. o \in Objects \ NodesOn(c) /\ next[o].ptr = head
    BY <1>1, <1>2, <1>4
  <2> QED
    BY <2>1, <2>2, Prepended
<1> HIDE DEF d
<1>6. Chained(d)'
  <2>1. \A x \in NodesOn(d) : mem'[x] = "live"
    BY <1>3, <1>4, <1>5
  <2> QED
    BY <1>1, <1>5, <2>1 DEF Chained
<1>7. Fits(pc'[t], loc'[t], mem', next', NodesOn(d))
  BY <1>1, IdleFits
<1>8. ASSUME NEW u \in Threads \ {t}
      PROVE  Undisturbed(pc[u], loc[u], mem, next, NodesOn(c), mem', next', NodesOn(d))
  <2>1. ~Has(pc[u], loc[u], o)
    BY <1>0, ThreadOwns DEF Has
  <2>2. GuardsFit(pc[u], loc[u], mem)
    BY ThreadIs
  <2> DEFINE p == pc[u]
             l == loc[u]
             C == NodesOn(c)
             D == NodesOn(d)
  <2>3. D = C \cup {o} /\ next' = next
    BY <1>1, <1>5
  <2> HIDE DEF p, l, C, D
  <2>4. \A g \in GuardsOf(l) :
          g.safe /\ mem[g.ptr] \in {"live", "retired"} => mem'[g.ptr] \in {"live", "retired"}
    BY <1>3, <2>2 DEF GuardsFit, p, l
  <2>5. \A x \in Objects : Has(p, l, x) => x # o
    BY <2>1 DEF p, l
  <2>6. p = "unlink" => l.curr.ptr # o
    <3>1. p = "unlink" => l.curr.safe /\ l.curr \in GuardsOf(l)
      BY <2>2 DEF GuardsFit, GuardsOf, Stands, p, l
    <3> QED
      BY <1>2, <2>2, <3>1 DEF GuardsFit, p, l
  <2>7. Undisturbed(p, l, mem, next, C, mem', next', D)
    BY <1>3, <2>3, <2>4, <2>5, <2>6 DEF Undisturbed
  <2> QED
    BY <2>7 DEF p, l, C, D
<1>9. \A x \in Objects : ~Has(pc'[t], loc'[t], x) /\ ~Removes(pc[t], loc[t], x)
  BY <1>1 DEF Has, Removes
<1>10. \A x \in Objects :
         /\ mem'[x] = "live" /\ x \notin NodesOn(d) => mem[x] = "live" /\ x \notin NodesOn(c)
         /\ mem'[x] = "retired" => next'[x].ptr = x
  BY <1>1, <1>3, <1>5 DEF Inv, NodesAccounted
<1>11. IterationsFit'
  <2>1. Iterates => \A x \in Objects : mem'[x] = "live" => IsElement(x)'
    BY <1>1, <1>2, <1>3 DEF IsElement, Inv, IterationsFit
  <2> QED
    BY <1>1, <2>1, LocTyped, IterationsGoOn
<1>12. Inv(d)'
  BY <1>1, <1>6, <1>7, <1>8, <1>9, <1>10, <1>11, StepsInv
<1>13. Pushed(c, d, o)
  <2>1. OneByOne(c) /\ o \in Objects \ NodesOn(c)
    BY <1>4 DEF Inv, Chained
  <2> QED
    BY <1>5, <2>1, PushedIs DEF d
<1> QED
  BY <1>0, <1>5, <1>12, <1>13

LEMMA MarkStep ==
  ASSUME NEW c \in Seq(Objects), Inv(c), TypeOK', NEW t \in Threads, Mark(t)
  PROVE  Inv(c)'
<1> DEFINE o == loc[t].curr.ptr
           Agreed == NextOfCurr(t) = Link(loc[t].next.ptr, loc[t].next.mark)
<1>1. pc[t] = "mark" /\ pc[t] \in Stands /\ UNCHANGED <<head, value, mem>>
  BY DEF Mark, Stands
<1>2. o \in Objects /\ mem[o] \in {"live", "retired"}
  BY <1>1, StandsOn
<1>3. /\ OpFits("mark", loc[t]) /\ GuardsFit("mark", loc[t], mem)
      /\ NodesFit("mark", loc[t], mem, next, NodesOn(c)) /\ loc[t] \in LocType
  BY <1>1, ThreadIs
<1>4. CASE Agreed
  <2>1. pc'[t] = "idle" /\ loc'[t] = NoLoc /\ OthersStay(t)
    BY <1>4, ReturnMoves, TypesAre DEF Mark, Inv
  <2>2. next \in [Objects -> LinkType]
    BY TypesAre DEF Inv, ListTyped
  <2>3. /\ \A x \in Objects \ {o} : next'[x] = next[x]
        /\ next'[o].ptr = next[o].ptr /\ next'[o].mark
    BY <1>2, <1>4, <2>2 DEF Mark, LinkType
  <2>4. ~next[o].mark
    BY <1>3, <1>4 DEF NodesFit, NextOfCurr, Link
  <2>5. Fits(pc'[t], loc'[t], mem', next', NodesOn(c))
    BY <2>1, IdleFits
  <2>6. ASSUME NEW u \in Threads \ {t}
        PROVE  Undisturbed(pc[u], loc[u], mem, next, NodesOn(c), mem', next', NodesOn(c))
    <3> DEFINE p == pc[u]
               l == loc[u]
               C == NodesOn(c)
    <3>1. NodesFit(p, l, mem, next, C) /\ C \subseteq Objects
      BY ThreadIs, NodesOfChain
    <3> HIDE DEF p, l, C, o
    <3>2. p = "unlink" /\ l.curr.ptr \in C => l.curr.ptr # o
      BY <2>4, <3>1 DEF NodesFit, Link
    <3>3. p = "pushCas" => l.temp # o
      BY <1>2, <3>1 DEF NodesFit
    <3>4. \A x \in Objects : p = "pushCas" /\ Has(p, l, x) => x # o
      BY <3>3 DEF Has, Removes
    <3>5. \A x \in Objects : next'[x].ptr = next[x].ptr /\ (next[x].mark => next'[x].mark)
      BY <2>3
    <3>6. Undisturbed(p, l, mem, next, C, mem', next', C)
      BY <1>1, <2>3, <3>1, <3>2, <3>4, <3>5 DEF Undisturbed
    <3> QED
      BY <3>6 DEF p, l, C
  <2>7. Chained(c)'
    <3>1. \A x \in NodesOn(c) : next'[x].ptr = next[x].ptr /\ mem'[x] = "live"
      BY <1>1, <2>3, NodesOfChain
    <3> QED
      BY <1>1, <3>1, ChainedStill
  <2>8. \A x \in Objects : ~Has(pc'[t], loc'[t], x) /\ ~Removes(pc[t], loc[t], x)
    BY <1>1, <2>1 DEF Has, Removes
  <2>9. \A x \in Objects : mem'[x] = "retired" => next'[x].ptr = x
    BY <1>1, <2>3 DEF Inv, NodesAccounted
  <2>10. IterationsFit'
    <3>1. ~Iterates
      BY <1>3 DEF OpFits, Inv, IterationsFit
    <3> QED
      BY <2>1, <3>1, LocTyped, IterationsGoOn
  <2> QED
    BY <1>1, <2>1, <2>5, <2>6, <2>7, <2>8, <2>9, <2>10, StepsInv
<1>5. CASE ~Agreed
  <2> DEFINE l == [loc[t] EXCEPT !.next = NoGuard]
  <2>1. pc'[t] = "loadNext" /\ loc'[t] = l /\ OthersStay(t) /\ UNCHANGED listVars
    BY <1>1, <1>5, GotoMoves, TypesAre DEF Mark, Inv, listVars
  <2>2. /\ l.op = loc[t].op /\ l.prev = loc[t].prev /\ l.curr = loc[t].curr
        /\ l.next = NoGuard /\ l.removing = loc[t].removing
    BY <1>3 DEF LocType
  <2> HIDE DEF l
  <2>3. Fits("loadNext", l, mem, next, NodesOn(c))
    <3>1. OpFits("loadNext", l) /\ l.op # "iterate"
      BY <1>3, <2>2 DEF OpFits
    <3>2. GuardsFit("loadNext", l, mem)
      BY <1>3, <2>2, LocTyped DEF GuardsFit, GuardsOf, Starting, Stands
    <3> QED
      BY <3>1, <3>2 DEF Fits, NodesFit
  <2>4. IterationsFit'
    BY <2>1, <2>2, QuietIteration
  <2> QED
    BY <1>1, <2>1, <2>3, <2>4, QuietStep
<1> QED
  BY <1>4, <1>5

LEMMA LeaveStep ==
  ASSUME NEW c \in Seq(Objects), Inv(c), TypeOK', NEW t \in Threads, Leave(t)
  PROVE  Inv(c)'
<1> DEFINE o == loc[t].curr.ptr
           l == [loc[t] EXCEPT !.curr = loc[t].next, !.next = NoGuard, !.temp = o]
<1>1. /\ pc[t] = "leave" /\ pc[t] \in Stands /\ UNCHANGED <<head, value, mem>>
      /\ pc'[t] = "retire" /\ loc'[t] = l /\ OthersStay(t)
  BY GotoMoves, TypesAre DEF Leave, Stands, Inv
<1>2. /\ OpFits("leave", loc[t]) /\ GuardsFit("leave", loc[t], mem)
      /\ NodesFit("leave", loc[t], mem, next, NodesOn(c)) /\ loc[t] \in LocType
  BY <1>1, ThreadIs
<1>3. o \in Objects /\ mem[o] = "live" /\ o \notin NodesOn(c) /\ next[o].mark
  BY <1>1, <1>2, StandsOn DEF NodesFit
<1>4. /\ l.op = loc[t].op /\ l.prev = loc[t].prev /\ l.curr = loc[t].next
      /\ l.next = NoGuard /\ l.removing = loc[t].removing /\ l.temp = o
  BY <1>2 DEF LocType
<1>5. (\A x \in Objects \ {o} : next'[x] = next[x]) /\ next'[o] = Link(o, FALSE)
  BY <1>3, TypesAre DEF Leave, Inv, ListTyped
<1> HIDE DEF l
<1>6. Fits(pc'[t], loc'[t], mem', next', NodesOn(c))
  <2>1. OpFits("retire", l)
    BY <1>2, <1>4 DEF OpFits
  <2>2. GuardsFit("retire", l, mem)
    BY <1>2, <1>4, LocTyped DEF GuardsFit, GuardsOf, Starting, Stands
  <2>3. NodesFit("retire", l, mem, next', NodesOn(c))
    BY <1>3, <1>4, <1>5 DEF NodesFit, Link
  <2> QED
    BY <1>1, <2>1, <2>2, <2>3 DEF Fits
<1>7. ASSUME NEW u \in Threads \ {t}
      PROVE  Undisturbed(pc[u], loc[u], mem, next, NodesOn(c), mem', next', NodesOn(c))
  <2>1. ~Has(pc[u], loc[u], o)
    BY <1>1, <1>3, ThreadOwns DEF Has, Removes
  <2> HIDE DEF o
  <2> QED
    BY <1>1, <1>3, <1>5, <2>1, OneNodeChanges
<1>8. Chained(c)'
  <2>1. \A x \in NodesOn(c) : next'[x].ptr = next[x].ptr /\ mem'[x] = "live"
    BY <1>1, <1>3, <1>5, NodesOfChain
  <2> QED
    BY <1>1, <2>1, ChainedStill
<1>9. \A x \in Objects : Has(pc'[t], loc'[t], x) => Has(pc[t], loc[t], x)
  BY <1>1, <1>4 DEF Has, Removes
<1>10. \A x \in Objects : mem'[x] = "retired" => next'[x].ptr = x
  BY <1>1, <1>5 DEF Inv, NodesAccounted, Link
<1>11. IterationsFit'
  <2>1. ~Iterates
    BY <1>3 DEF Inv, IterationsFit, IsElement
  <2> QED
    BY <1>1, <1>4, <2>1, IterationsGoOn
<1>12. \A x \in Objects :
         mem'[x] = "live" /\ x \notin NodesOn(c) /\ ~Removes(pc'[t], loc'[t], x) =>
           mem[x] = "live" /\ x \notin NodesOn(c) /\ ~Removes(pc[t], loc[t], x)
  BY <1>1, <1>4 DEF Removes
<1> QED
  BY <1>1, <1>6, <1>7, <1>8, <1>9, <1>10, <1>11, <1>12, StepsInv
LEMMA RetireStep ==
  ASSUME NEW c \in Seq(Objects), Inv(c), TypeOK', NEW t \in Threads, Retire(t)
  PROVE  Inv(c)'
<1> DEFINE o == loc[t].temp
           l == [loc[t] EXCEPT !.temp = NoPtr, !.removing = TRUE]
<1>1. pc[t] = "retire" /\ UNCHANGED <<head, next, value>>
  BY DEF Retire
<1>2. /\ OpFits("retire", loc[t]) /\ GuardsFit("retire", loc[t], mem)
      /\ NodesFit("retire", loc[t], mem, next, NodesOn(c)) /\ loc[t] \in LocType
  BY <1>1, ThreadIs
<1>3. o \in Objects /\ mem[o] = "live" /\ o \notin NodesOn(c) /\ next[o].ptr = o
  BY <1>2 DEF NodesFit
<1>4. (\A x \in Objects \ {o} : mem'[x] = mem[x]) /\ mem'[o] = "retired"
  BY <1>3, TypesAre DEF Retire, Inv, ListTyped
<1>5. loc[t].op \in {"erase"} \cup Counting /\ loc[t].op # "iterate"
  BY <1>2 DEF OpFits, LocType
<1>6. /\ Fits(pc'[t], loc'[t], mem', next', NodesOn(c)) /\ OthersStay(t)
      /\ loc'[t].op = loc[t].op /\ pc'[t] \notin {"pushCas", "leave", "retire"}
  <2>1. CASE loc[t].curr.ptr = NoPtr
    <3>1. /\ pc'[t] = (IF loc[t].op = "erase" THEN "start" ELSE "loadHead")
          /\ loc'[t] = Restarted(t) /\ OthersStay(t)
      BY <2>1, RestartMoves, TypesAre DEF Retire, Inv
    <3>2. Fits(pc'[t], loc'[t], mem', next', NodesOn(c))
      BY <1>5, <3>1, RestartedFits
    <3>3. Restarted(t).op = loc[t].op
      BY <1>2, LocTyped DEF Restarted, LocType
    <3> QED
      BY <3>1, <3>2, <3>3
  <2>2. CASE loc[t].curr.ptr # NoPtr
    <3>1. pc'[t] = "loadNext" /\ loc'[t] = l /\ OthersStay(t)
      BY <2>2, GotoMoves, TypesAre DEF Retire, Inv
    <3>2. /\ l.op = loc[t].op /\ l.prev = loc[t].prev /\ l.curr = loc[t].curr
          /\ l.next = loc[t].next
      BY <1>2 DEF LocType
    <3> HIDE DEF l
    <3>3. OpFits("loadNext", l)
      BY <1>2, <1>5, <3>2 DEF OpFits
    <3>4. \A x \in Objects : mem[x] \in {"live", "retired"} => mem'[x] \in {"live", "retired"}
      BY <1>4
    <3>5. GuardsFit("loadNext", l, mem')
      BY <1>2, <2>2, <3>2, <3>4 DEF GuardsFit, GuardsOf, Starting, Stands, Safe
    <3>6. NodesFit("loadNext", l, mem', next', NodesOn(c))
      BY <1>5, <3>2 DEF NodesFit
    <3> QED
      BY <3>1, <3>2, <3>3, <3>5, <3>6 DEF Fits
  <2> QED
    BY <2>1, <2>2
<1>7. ASSUME NEW u \in Threads \ {t}
      PROVE  Undisturbed(pc[u], loc[u], mem, next, NodesOn(c), mem', next', NodesOn(c))
  <2>1. ~Has(pc[u], loc[u], o)
    BY <1>1, <1>3, ThreadOwns DEF Has, Removes
  <2> HIDE DEF o
  <2> QED
    BY <1>1, <1>3, <1>4, <2>1, OneNodeChanges
<1>8. Chained(c)'
  <2>1. \A x \in NodesOn(c) : next'[x].ptr = next[x].ptr /\ mem'[x] = "live"
    BY <1>1, <1>3, <1>4, NodesOfChain
  <2> QED
    BY <1>1, <2>1, ChainedStill
<1>9. \A x \in Objects : ~Has(pc'[t], loc'[t], x) /\ (Removes(pc[t], loc[t], x) => x = o)
  BY <1>1, <1>6 DEF Has, Removes
<1>10. \A x \in Objects : mem'[x] = "retired" => next'[x].ptr = x
  BY <1>1, <1>3, <1>4 DEF Inv, NodesAccounted
<1>11. IterationsFit'
  <2>1. ~Iterates
    BY <1>3 DEF Inv, IterationsFit, IsElement
  <2> QED
    BY <1>6, <2>1, IterationsGoOn
<1>12. \A x \in Objects :
         mem'[x] = "live" => mem[x] = "live" /\ ~Removes(pc[t], loc[t], x)
  BY <1>4, <1>9
<1> QED
  BY <1>6, <1>7, <1>8, <1>9, <1>10, <1>11, <1>12, StepsInv

(* curr is taken out only if the node before it, or _head, still leads to  *)
(* it: then it has a place in the chain.                                   *)
LEMMA UnlinkStep ==
  ASSUME NEW c \in Seq(Objects), Inv(c), TypeOK', NEW t \in Threads, Unlink(t),
         PointsTo(LinkBefore(t), loc[t].curr.ptr)
  PROVE  /\ \E d \in Seq(Objects) : Inv(d)' /\ Removed(c, d, loc[t].curr.ptr)
         /\ loc[t].curr.ptr \in NodesOn(c) /\ next[loc[t].curr.ptr].mark
         /\ \A x \in Objects : next'[x] = next[x] \/ (~next[x].mark /\ ~next'[x].mark)
         /\ ListChanges
<1> DEFINE C == NodesOn(c)
<1>1. /\ pc[t] = "unlink" /\ pc[t] \in Stands /\ UNCHANGED <<value, mem>>
      /\ pc'[t] = "leave" /\ loc'[t] = loc[t] /\ OthersStay(t)
  BY GotoMoves, TypesAre DEF Unlink, Stands, Inv
<1>2. /\ OpFits("unlink", loc[t]) /\ GuardsFit("unlink", loc[t], mem)
      /\ NodesFit("unlink", loc[t], mem, next, C) /\ loc[t] \in LocType
  BY <1>1, ThreadIs
<1>3. PICK o \in Objects : o = loc[t].curr.ptr /\ o # NoPtr
  BY <1>1, StandsOn
<1>4. PICK p : p = loc[t].prev.ptr
  OBVIOUS
<1>5. PICK q : q = loc[t].next.ptr
  OBVIOUS
<1>6. OneByOne(c) /\ Linked(next, head, c) /\ C \subseteq Objects
  BY NodesOfChain DEF Inv, Chained
<1>7. next \in [Objects -> LinkType] /\ C = NodesOn(c)
  BY TypesAre DEF Inv, ListTyped
<1> HIDE DEF C
<1>8. p # NoPtr => /\ p \in C /\ p # o /\ next[p] = Link(o, FALSE)
  <2> SUFFICES ASSUME p # NoPtr PROVE p \in C /\ p # o /\ next[p] = Link(o, FALSE)
    OBVIOUS
  <2>1. p \in Objects /\ mem[p] \in {"live", "retired"}
    BY <1>1, <1>4, StandsOn
  <2>2. next[p] = Link(o, FALSE)
    BY <1>3, <1>4 DEF PointsTo, LinkBefore
  <2>3. p # o
    BY <1>2, <1>3, <1>4 DEF GuardsFit
  <2> QED
    BY <1>3, <2>1, <2>2, <2>3, StillInChain DEF Link, C
<1>9. p = NoPtr => head = o
  BY <1>3, <1>4 DEF PointsTo, LinkBefore, Link
<1>10. o \in C
  <2>1. CASE p = NoPtr
    BY <1>3, <1>7, <1>9, <2>1, NodesOfChain
  <2>2. CASE p # NoPtr
    BY <1>3, <1>7, <1>8, <2>2, NodesOfChain DEF Link
  <2> QED
    BY <2>1, <2>2
<1>11. next[o] = Link(q, TRUE) /\ Safe(loc[t].next)
  BY <1>2, <1>3, <1>5, <1>10 DEF NodesFit
<1>12. q \in C \cup {NoPtr} /\ q # o /\ mem[o] = "live"
  BY <1>7, <1>10, <1>11, NodesOfChain DEF Link
<1>13. PICK k \in 1 .. Len(c) : c[k] = o
  BY <1>7, <1>10 DEF NodesOn
<1>14. q = NodeAfter(c, k)
  BY <1>6, <1>11, <1>13 DEF Linked, Link
<1>15. /\ p = NoPtr => k = 1
       /\ p # NoPtr => k # 1 /\ p = c[k - 1]
  <2>1. CASE p = NoPtr
    <3>1. 0 < Len(c) /\ c[0 + 1] = o
      BY <1>3, <1>6, <1>9, <2>1 DEF Linked, NodeAfter
    <3>2. 1 \in 1 .. Len(c) /\ c[1] = o
      BY <3>1
    <3> QED
      BY <1>6, <1>13, <2>1, <3>2 DEF OneByOne
  <2>2. CASE p # NoPtr
    <3>1. PICK j \in 1 .. Len(c) : c[j] = p
      BY <1>7, <1>8, <2>2 DEF NodesOn
    <3>2. o = NodeAfter(c, j)
      BY <1>6, <1>8, <2>2, <3>1 DEF Linked, Link
    <3>3. j < Len(c) /\ o = c[j + 1]
      BY <1>3, <3>2 DEF NodeAfter
    <3>4. j + 1 \in 1 .. Len(c)
      BY <3>3
    <3>5. k = j + 1
      BY <1>6, <1>13, <3>3, <3>4 DEF OneByOne
    <3> QED
      BY <2>2, <3>1, <3>5
  <2> QED
    BY <2>1, <2>2
<1> DEFINE d == Without(c, k)
<1>16. d \in Seq(Objects) /\ OneByOne(d) /\ NodesOn(d) = C \ {o}
  BY <1>6, <1>7, <1>13, WithoutIs
<1>17. /\ p = NoPtr => head' = q /\ next' = next
       /\ p # NoPtr => /\ head' = head /\ next'[p] = Link(q, FALSE)
                       /\ \A x \in Objects \ {p} : next'[x] = next[x]
  BY <1>4, <1>5, <1>6, <1>7, <1>8 DEF Unlink
<1>18. p # NoPtr => p # q
  <2> SUFFICES ASSUME p # NoPtr PROVE p # q
    OBVIOUS
  <2>1. k - 1 \in 1 .. Len(c) /\ p = c[k - 1]
    BY <1>15
  <2>2. CASE k < Len(c)
    <3>1. k + 1 \in 1 .. Len(c) /\ q = c[k + 1] /\ k - 1 # k + 1
      BY <1>14, <2>2 DEF NodeAfter
    <3> QED
      BY <1>6, <2>1, <3>1 DEF OneByOne
  <2>3. CASE ~(k < Len(c))
    BY <1>14, <2>3 DEF NodeAfter
  <2> QED
    BY <2>2, <2>3
<1> HIDE DEF d
<1>19. Chained(d)'
  <2>1. IF k = 1 THEN head' = NodeAfter(c, 1) /\ \A x \in NodesOn(c) : next'[x] = next[x]
        ELSE /\ head' = head /\ next'[c[k - 1]].ptr = NodeAfter(c, k)
             /\ \A x \in NodesOn(c) \ {c[k - 1]} : next'[x] = next[x]
    <3>1. CASE p = NoPtr
      BY <1>14, <1>15, <1>17, <3>1
    <3>2. CASE p # NoPtr
      BY <1>6, <1>7, <1>14, <1>15, <1>17, <3>2 DEF Link
    <3> QED
      BY <3>1, <3>2
  <2>2. Linked(next', head', d)
    BY <1>6, <1>13, <2>1, TakenOut DEF d
  <2>3. \A x \in NodesOn(d) : mem'[x] = "live"
    BY <1>1, <1>7, <1>16, NodesOfChain
  <2> QED
    BY <1>16, <2>2, <2>3 DEF Chained
<1>20. \A x \in Objects : x # p => next'[x] = next[x]
  BY <1>17
<1>21. Fits(pc'[t], loc'[t], mem', next', NodesOn(d))
  <2>1. OpFits("leave", loc[t])
    BY <1>2 DEF OpFits
  <2>2. GuardsFit("leave", loc[t], mem)
    BY <1>2, <1>3, <1>4, <1>5, <1>11, <1>12, <1>18 DEF GuardsFit, Starting, Stands
  <2>3. NodesFit("leave", loc[t], mem, next', NodesOn(d))
    <3>1. o # p
      BY <1>3, <1>8
    <3> QED
      BY <1>3, <1>11, <1>12, <1>16, <1>20, <3>1 DEF NodesFit, Link
  <2> QED
    BY <1>1, <2>1, <2>2, <2>3 DEF Fits
<1>22. ~Iterates
  BY <1>11, <1>12 DEF Inv, IterationsFit, IsElement, Link
<1>23. \A x \in C : mem[x] = "live"
  BY <1>7, NodesOfChain
<1>24. ASSUME NEW u \in Threads \ {t}
       PROVE  Undisturbed(pc[u], loc[u], mem, next, NodesOn(c), mem', next', NodesOn(d))
  <2> DEFINE w == pc[u]
             l == loc[u]
             D == NodesOn(d)
  <2>1. NodesFit(w, l, mem, next, C) /\ l.op # "iterate" /\ D = C \ {o}
    BY <1>7, <1>16, <1>22, ThreadIs DEF Iterates
  <2> HIDE DEF w, l, D
  <2>2. \A x \in Objects : Has(w, l, x) => x \notin C
    BY <1>23, <2>1 DEF Has, Removes, NodesFit
  <2>3. \A x \in Objects : Has(w, l, x) => x # p
    <3>1. p # NoPtr => p \in C
      BY <1>8
    <3> QED
      BY <2>2, <3>1
  <2>4. w = "unlink" /\ l.curr.ptr \in C => l.curr.ptr # p
    <3>1. l.curr.ptr \in C => l.curr.ptr # NoPtr
      BY <1>6
    <3> QED
      BY <1>8, <2>1, <3>1 DEF NodesFit, Link
  <2>5. Undisturbed(w, l, mem, next, C, mem', next', D)
    BY <1>1, <1>6, <1>20, <2>1, <2>2, <2>3, <2>4 DEF Undisturbed
  <2> QED
    BY <1>7, <2>5 DEF w, l, D
<1>25. \A x \in Objects :
         /\ Has(pc'[t], loc'[t], x) => x \in C
         /\ Removes(pc'[t], loc'[t], o) /\ ~Removes(pc[t], loc[t], x)
  BY <1>1, <1>3, <1>10 DEF Has, Removes
<1>26. \A x \in Objects :
         /\ mem'[x] = "live" /\ x \notin NodesOn(d) /\ ~Removes(pc'[t], loc'[t], x) =>
              mem[x] = "live" /\ x \notin C
         /\ mem'[x] = "retired" => next'[x].ptr = x
  <2>1. \A x \in Objects : mem[x] = "retired" => x # p
    <3>1. p # NoPtr => mem[p] = "live"
      BY <1>8, <1>23
    <3> QED
      BY <3>1
  <2>2. \A x \in Objects : mem'[x] = "retired" => next'[x].ptr = x
    BY <1>1, <1>20, <2>1 DEF Inv, NodesAccounted
  <2> QED
    BY <1>1, <1>16, <1>25, <2>2
<1>27. IterationsFit'
  BY <1>1, <1>22, IterationsGoOn
<1>28. Inv(d)'
  BY <1>1, <1>7, <1>19, <1>21, <1>24, <1>25, <1>26, <1>27, StepsInv
<1>29. Removed(c, d, o)
  BY <1>6, <1>13, RemovedIs DEF d
<1>30. \A x \in Objects : next'[x] = next[x] \/ (~next[x].mark /\ ~next'[x].mark)
  BY <1>8, <1>17 DEF Link
<1>31. ListChanges
  <2>1. CASE p = NoPtr
    BY <1>9, <1>12, <1>17, <2>1 DEF ListChanges
  <2>2. CASE p # NoPtr
    <3>1. next'[p] # next[p] /\ mem[p] = "live" /\ p \in Objects
      BY <1>6, <1>7, <1>8, <1>12, <1>17, <1>23, <2>2 DEF Link
    <3> QED
      BY <3>1 DEF ListChanges
  <2> QED
    BY <2>1, <2>2
<1>32. next[o].mark
  BY <1>11 DEF Link
<1> QED
  BY <1>3, <1>7, <1>10, <1>16, <1>28, <1>29, <1>30, <1>31, <1>32

LEMMA DestroyStep ==
  ASSUME NEW c \in Seq(Objects), Inv(c), TypeOK', NEW o \in Objects, Destroy(o)
  PROVE  Inv(c)'
<1>1. /\ mem[o] = "retired" /\ (\A u \in Threads : o \notin Guarded(u))
      /\ UNCHANGED <<head, pc, loc>>
  BY DEF Destroy
<1>2. /\ \A x \in Objects \ {o} : mem'[x] = mem[x] /\ next'[x] = next[x]
      /\ mem'[o] = "free"
  BY TypesAre DEF Destroy, Inv, ListTyped
<1>3. o \notin NodesOn(c)
  BY <1>1, NodesOfChain
<1>4. ASSUME NEW u \in Threads PROVE FitsIn(u, NodesOn(c))'
  <2>1. ~Has(pc[u], loc[u], o)
    <3>1. NodesFit(pc[u], loc[u], mem, next, NodesOn(c))
      BY ThreadIs
    <3> QED
      BY <1>1, <3>1 DEF Has, Removes, NodesFit
  <2>2. Undisturbed(pc[u], loc[u], mem, next, NodesOn(c), mem', next', NodesOn(c))
    BY <1>1, <1>2, <1>3, <2>1, OneNodeChanges
  <2>3. Fits(pc[u], loc[u], mem', next', NodesOn(c))
    BY <2>2, FitsStill DEF Inv, FitsIn
  <2> QED
    BY <1>1, <2>3 DEF FitsIn
<1>5. Chained(c)'
  <2>1. \A x \in NodesOn(c) : next'[x].ptr = next[x].ptr /\ mem'[x] = "live"
    BY <1>2, <1>3, NodesOfChain
  <2> QED
    BY <1>1, <2>1, ChainedStill
<1>6. NodesAccounted(NodesOn(c))'
  BY <1>1, <1>2 DEF Inv, NodesAccounted
<1>7. IterationsFit'
  <2>1. \A x \in Objects : mem'[x] = "live" => mem[x] = "live" /\ x # o
    BY <1>1, <1>2
  <2> QED
    BY <1>1, <1>2, <2>1 DEF Inv, IterationsFit, Iterates, IsElement
<1> QED
  BY <1>1, <1>4, <1>5, <1>6, <1>7 DEF Inv, Owns

LEMMA DestructStep ==
  ASSUME NEW c \in Seq(Objects), Inv(c), TypeOK', Destruct
  PROVE  Inv(<< >>)'
<1>1. /\ \A u \in Threads : pc[u] = "idle"
      /\ UNCHANGED <<pc, loc>> /\ head' = NoPtr
      /\ \A x \in Objects : mem'[x] = IF x \in Chain THEN "free" ELSE mem[x]
      /\ \A x \in Objects : x \notin Chain => next'[x] = next[x]
  BY DEF Destruct
<1>2. Chain = NodesOn(c) \cup {NoPtr}
  BY ChainIs DEF Inv
<1>3. \A u \in Threads : loc[u] = NoLoc
  BY <1>1, ThreadIs DEF OpFits
<1>4. /\ NodesOn(<< >>) = {} /\ OneByOne(<< >>) /\ Linked(next', NoPtr, << >>)
  BY NothingLinked
<1>5. Chained(<< >>)'
  BY <1>1, <1>4 DEF Chained
<1>6. \A u \in Threads : FitsIn(u, NodesOn(<< >>))'
  BY <1>1, <1>3, IdleFits DEF FitsIn
<1>7. \A u \in Threads, o \in Objects : ~Removes(pc[u], loc[u], o) /\ ~Owns(u, o)'
  BY <1>1 DEF Owns, Has, Removes
<1>8. \A o \in Objects : mem'[o] # "live"
  BY <1>1, <1>2, <1>7 DEF Inv, NodesAccounted
<1>9. NodesAccounted(NodesOn(<< >>))'
  BY <1>1, <1>8 DEF Inv, NodesAccounted
<1>10. IterationsFit'
  BY <1>1, <1>3, LocTyped DEF IterationsFit, Iterates
<1> QED
  BY <1>5, <1>6, <1>7, <1>9, <1>10 DEF Inv
LEMMA IInvInductive == IInv /\ [Next]_vars => IInv'
<1> SUFFICES ASSUME IInv, [Next]_vars PROVE \E d \in Seq(Objects) : Inv(d)'
  BY DEF IInv
<1>1. PICK c \in Seq(Objects) : Inv(c)
  BY DEF IInv
<1>2. TypeOK'
  BY <1>1, AllStand, StepsTyped DEF Inv
<1>3. ASSUME NEW t \in Threads, Continue(t) PROVE \E d \in Seq(Objects) : Inv(d)'
  <2>1. ASSUME Unlink(t) PROVE \E d \in Seq(Objects) : Inv(d)'
    <3>1. CASE PointsTo(LinkBefore(t), loc[t].curr.ptr)
      BY <1>1, <1>2, <2>1, <3>1, UnlinkStep
    <3>2. CASE ~PointsTo(LinkBefore(t), loc[t].curr.ptr)
      <4>1. /\ pc[t] \notin {"idle", "pushCas", "leave", "retire"}
            /\ Restart(t) /\ UNCHANGED listVars
        BY <2>1, <3>2 DEF Unlink, listVars
      <4> QED
        BY <1>1, <1>2, <4>1, RestartStep
    <3> QED
      BY <3>1, <3>2
  <2> QED
    BY <1>1, <1>2, <1>3, <2>1, PushCasStep, PushRetryStep, StartStep, CheckHeadStep,
       LoadHeadStep, LoadNextStep, MarkStep, LeaveStep, RetireStep
       DEF Continue, LoadHead
<1>4. CASE UNCHANGED vars
  <2>1. Inv(c)'
    BY <1>1, <1>2, <1>4
       DEF vars, listVars, Inv, Chained, FitsIn, Owns, NodesAccounted, IterationsFit,
           Iterates, IsElement
  <2> QED
    BY <2>1
<1> QED
  BY <1>1, <1>2, <1>3, <1>4, WalksStep, CallEraseStep, CallPushStep, DestroyStep,
     DestructStep, NothingLinked DEF Next

LEMMA IInvImplies == IInv => StateInv
<1> SUFFICES ASSUME NEW c \in Seq(Objects), Inv(c) PROVE StateInv
  BY DEF IInv
<1>1. TouchesNodes
  <2> SUFFICES ASSUME NEW t \in Threads
               PROVE  /\ \A o \in Touches(t) : mem[o] \in {"live", "retired"}
                      /\ pc[t] \in {"leave", "retire"} =>
                           mem[IF pc[t] = "leave" THEN loc[t].curr.ptr
                               ELSE loc[t].temp] = "live"
    BY DEF TouchesNodes
  <2>1. /\ GuardsFit(pc[t], loc[t], mem)
        /\ NodesFit(pc[t], loc[t], mem, next, NodesOn(c))
    BY ThreadIs
  <2>2. pc[t] \in Stands =>
          /\ mem[loc[t].curr.ptr] \in {"live", "retired"}
          /\ loc[t].prev.ptr # NoPtr => mem[loc[t].prev.ptr] \in {"live", "retired"}
    BY StandsOn
  <2>3. CASE pc[t] \in {"loadNext", "checkNext", "mark", "leave"}
    BY <2>1, <2>2, <2>3 DEF Touches, Stands, NodesFit
  <2>4. CASE pc[t] = "unlink"
    BY <2>2, <2>4 DEF Touches, Stands
  <2>5. CASE pc[t] = "retire"
    BY <2>1, <2>5 DEF Touches, NodesFit
  <2>6. CASE pc[t] \notin Stands \cup {"retire"}
    BY <2>6 DEF Touches, Stands
  <2> QED
    BY <2>3, <2>4, <2>5, <2>6 DEF Stands
<1>2. Chain = NodesOn(c) \cup {NoPtr}
  BY ChainIs DEF Inv
<1>3. ASSUME NEW o \in Objects \ NodesOn(c), mem[o] = "live"
      PROVE  ~IsElement(o) /\ \E t \in Threads : Unlinks(t, o)
  <2>1. PICK t \in Threads : Removes(pc[t], loc[t], o)
    BY <1>3 DEF Inv, NodesAccounted
  <2>2. NodesFit(pc[t], loc[t], mem, next, NodesOn(c))
    BY ThreadIs
  <2> QED
    BY <2>1, <2>2 DEF Removes, Unlinks, NodesFit, IsElement
<1>4. ChainHoldsElements
  <2>1. Elements \subseteq Chain
    BY <1>2, <1>3 DEF Elements, IsElement
  <2>2. \A o \in Chain \ {NoPtr} : mem[o] = "live"
    BY <1>2, NodesOfChain
  <2>3. \A o \in Objects \ Chain : mem[o] = "live" => \E t \in Threads : Unlinks(t, o)
    BY <1>2, <1>3
  <2> QED
    BY <1>2, <2>1, <2>2, <2>3 DEF ChainHoldsElements
<1> QED
  BY <1>1, <1>4 DEF StateInv, Inv

LEMMA IInvHolds == Spec => []IInv
<1>1. Init => IInv
  BY InvInit, NothingLinked DEF IInv
<1> QED
  BY <1>1, IInvInductive, PTL DEF Spec

(* For any threads, finitely many nodes and any values: the types are      *)
(* right, no thread accesses a node that has been destroyed, unlinks one   *)
(* twice or retires one twice, and the chain from _head ends and holds all *)
(* the elements.                                                           *)
THEOREM ListIsSafe == Spec => []StateInv
BY IInvHolds, IInvImplies, PTL
------------------------------------------------------------------------------
(* What a thread with the local variables l has seen of S.                 *)
Sees(l, S) == IF l.op = "erase" THEN S = {} ELSE Cardinality(S) < l.count

(* Its history: S is what it looks for, V the values, E the elements.      *)
Remembers(p, l, S, V, E) ==
  /\ S \subseteq E
  /\ l.op \in {"idle", "push"} => S = {}
  /\ l.op = "erase" => \A o \in S : V[o] = l.elem
  /\ p = "pushCas" => V[l.temp] = l.elem
  /\ p = "mark" => V[l.curr.ptr] = l.elem

(* Its way: what has been there all the time lies ahead, or is counted.    *)
Walked(p, l, S, N, c) ==
  /\ p \in {"start", "loadHead", "checkHead"} => l.count = 0
  /\ p \in {"loadNext", "checkNext", "mark"} /\ ~l.removing =>
       /\ l.curr.ptr \in NodesOn(c) => Sees(l, S \cap Before(c, l.curr.ptr))
       /\ l.curr.ptr \notin NodesOn(c) /\ N[l.curr.ptr] = Link(NoPtr, TRUE) => Sees(l, S)

(* As long as no element comes or goes, it counts them.                    *)
Exact(p, l, S, N, E, c) ==
  /\ S = E
  /\ p \in {"loadNext", "checkNext"} /\ ~l.removing =>
       /\ l.curr.ptr \in NodesOn(c) =>
            /\ Before(c, l.curr.ptr) \subseteq E
            /\ Cardinality(Before(c, l.curr.ptr)) + 1 = l.count
       /\ p = "checkNext" => N[l.curr.ptr] # Link(NoPtr, TRUE)

(* As long as others do not change the list, it finds what it expects.     *)
Alone(p, l, h, N, c) ==
  /\ l.op = "erase" /\ p \in {"loadHead", "checkHead"} => h # NoPtr
  /\ p \in {"loadNext", "checkNext", "mark", "unlink"} /\ ~l.removing =>
       /\ l.curr.ptr \in NodesOn(c)
       /\ IF l.prev.ptr = NoPtr THEN h = l.curr.ptr
          ELSE N[l.prev.ptr] = Link(l.curr.ptr, FALSE)
       /\ p = "checkNext" => N[l.curr.ptr].ptr = l.temp
       /\ p = "mark" => N[l.curr.ptr] = Link(l.next.ptr, l.next.mark)

Tracks(p, l, S, ds, ch, h, N, V, E, c) ==
  /\ Remembers(p, l, S, V, E) /\ Walked(p, l, S, N, c)
  /\ l.op \in Counting /\ ~ds => Exact(p, l, S, N, E, c)
  /\ l.op \in {"erase", "size"} /\ ~ch => Alone(p, l, h, N, c)

Tracked(c) ==
  \A t \in Threads :
    Tracks(pc[t], loc[t], stable[t], disturbed[t], changed[t], head, next, value, Elements, c)
(* What others may change: no element's value, and, but for the mark, not  *)
(* the end of a way.                                                       *)
Overlooks(p, l, N, V, E, c, N2, V2, E2, d) ==
  /\ \A o \in E \cap E2 : V2[o] = V[o]
  /\ p = "pushCas" => V2[l.temp] = V[l.temp]
  /\ p = "mark" => V2[l.curr.ptr] = V[l.curr.ptr]
  /\ p \in {"loadNext", "checkNext", "mark"} =>
       /\ l.curr.ptr \in NodesOn(d) =>
            /\ l.curr.ptr \in NodesOn(c)
            /\ E \cap E2 \cap Before(d, l.curr.ptr) \subseteq Before(c, l.curr.ptr)
            /\ E2 = E /\ Before(c, l.curr.ptr) \subseteq E =>
                 Before(d, l.curr.ptr) = Before(c, l.curr.ptr)
       /\ N2[l.curr.ptr] = Link(NoPtr, TRUE) =>
            /\ l.curr.ptr \notin NodesOn(d) =>
                 /\ N[l.curr.ptr] = Link(NoPtr, TRUE)
                 /\ l.curr.ptr \in NodesOn(c) => E \cap E2 \subseteq Before(c, l.curr.ptr)
            /\ E2 = E => N[l.curr.ptr] = Link(NoPtr, TRUE)

(* What a thread that is alone expects.                                    *)
Expects(p, l, h, N, c, h2, N2, d) ==
  /\ h2 = h
  /\ p \in {"loadNext", "checkNext", "mark", "unlink"} /\ l.curr.ptr \in NodesOn(c) =>
       /\ l.curr.ptr \in NodesOn(d) /\ N2[l.curr.ptr] = N[l.curr.ptr]
       /\ l.prev.ptr # NoPtr /\ N[l.prev.ptr] = Link(l.curr.ptr, FALSE) =>
            N2[l.prev.ptr] = N[l.prev.ptr]

LEMMA SeesLess ==
  ASSUME NEW l \in LocType, NEW S, IsFiniteSet(S), NEW T \in SUBSET S, Sees(l, S)
  PROVE  Sees(l, T)
<1>1. Cardinality(T) <= Cardinality(S) /\ Cardinality(T) \in Nat /\ Cardinality(S) \in Nat
  BY FS_Subset, FS_CardinalityType
<1>2. l.count \in Nat
  BY DEF LocType
<1> QED
  BY <1>1, <1>2 DEF Sees

LEMMA TracksStill ==
  ASSUME NEW p, NEW l \in LocType, NEW S, NEW ds, NEW ch, NEW h, NEW N, NEW V, NEW E, NEW c,
         NEW S2, NEW ds2, NEW ch2, NEW h2, NEW N2, NEW V2, NEW E2, NEW d,
         Tracks(p, l, S, ds, ch, h, N, V, E, c), IsFiniteSet(S),
         Overlooks(p, l, N, V, E, c, N2, V2, E2, d),
         S2 = IF l.op \in {"idle", "push"} THEN {} ELSE S \cap E2,
         l.op \in Counting /\ ~ds2 => ~ds /\ E2 = E,
         l.op \in {"erase", "size"} /\ ~ch2 => ~ch /\ Expects(p, l, h, N, c, h2, N2, d)
  PROVE  Tracks(p, l, S2, ds2, ch2, h2, N2, V2, E2, d)
<1>1. /\ Remembers(p, l, S, V, E) /\ Walked(p, l, S, N, c)
      /\ l.op \in Counting /\ ~ds => Exact(p, l, S, N, E, c)
      /\ l.op \in {"erase", "size"} /\ ~ch => Alone(p, l, h, N, c)
  BY DEF Tracks
<1>2. S2 \subseteq S /\ S \subseteq E /\ S2 \subseteq E2
  BY <1>1 DEF Remembers
<1>3. Remembers(p, l, S2, V2, E2)
  BY <1>1, <1>2 DEF Remembers, Overlooks
<1>4. Walked(p, l, S2, N2, d)
  <2> DEFINE o == l.curr.ptr
  <2> SUFFICES ASSUME p \in {"loadNext", "checkNext", "mark"}, ~l.removing
               PROVE  /\ o \in NodesOn(d) => Sees(l, S2 \cap Before(d, o))
                      /\ o \notin NodesOn(d) /\ N2[o] = Link(NoPtr, TRUE) => Sees(l, S2)
    BY <1>1 DEF Walked
  <2>1. ASSUME o \in NodesOn(d) PROVE Sees(l, S2 \cap Before(d, o))
    <3>1. o \in NodesOn(c) /\ S2 \cap Before(d, o) \subseteq S \cap Before(c, o)
      BY <1>2, <2>1 DEF Overlooks
    <3>2. Sees(l, S \cap Before(c, o)) /\ IsFiniteSet(S \cap Before(c, o))
      BY <1>1, <3>1, FS_Subset DEF Walked
    <3> QED
      BY <3>1, <3>2, SeesLess
  <2>2. ASSUME o \notin NodesOn(d), N2[o] = Link(NoPtr, TRUE) PROVE Sees(l, S2)
    <3>1. /\ N[o] = Link(NoPtr, TRUE)
          /\ o \in NodesOn(c) => S2 \subseteq S \cap Before(c, o)
      BY <1>2, <2>2 DEF Overlooks
    <3>2. CASE o \in NodesOn(c)
      <4>1. Sees(l, S \cap Before(c, o)) /\ IsFiniteSet(S \cap Before(c, o))
        BY <1>1, <3>2, FS_Subset DEF Walked
      <4> QED
        BY <3>1, <3>2, <4>1, SeesLess
    <3>3. CASE o \notin NodesOn(c)
      BY <1>1, <1>2, <3>1, <3>3, SeesLess DEF Walked
    <3> QED
      BY <3>2, <3>3
  <2> QED
    BY <2>1, <2>2
<1>5. ASSUME l.op \in Counting, ~ds2 PROVE Exact(p, l, S2, N2, E2, d)
  <2>1. Exact(p, l, S, N, E, c) /\ E2 = E
    BY <1>1, <1>5
  <2>2. S2 = E2
    BY <1>5, <2>1 DEF Exact, Counting
  <2> QED
    BY <2>1, <2>2 DEF Exact, Overlooks
<1>6. ASSUME l.op \in {"erase", "size"}, ~ch2 PROVE Alone(p, l, h2, N2, d)
  <2>1. Alone(p, l, h, N, c) /\ Expects(p, l, h, N, c, h2, N2, d)
    BY <1>1, <1>6
  <2> QED
    BY <2>1 DEF Alone, Expects
<1> QED
  BY <1>3, <1>4, <1>5, <1>6 DEF Tracks

LEMMA ElementsAre ==
  ASSUME NEW c \in Seq(Objects), Inv(c)
  PROVE  /\ Elements \subseteq NodesOn(c) /\ NodesOn(c) \subseteq Objects
         /\ IsFiniteSet(Objects) /\ \A t \in Threads : IsFiniteSet(stable[t])
         /\ \A o \in NodesOn(c) : o \in Elements <=> ~next[o].mark
<1>1. \A o \in Elements : o \in NodesOn(c)
  BY StillInChain DEF Elements, IsElement
<1>2. \A t \in Threads : stable[t] \in SUBSET Objects
  BY TypesAre DEF Inv, HistoryTyped
<1> QED
  BY <1>1, <1>2, NodesOfChain, ObjectsAssumption, FS_Subset DEF Elements, IsElement

(* A thread that does not move, while t does.                              *)
LEMMA OtherTracks ==
  ASSUME NEW c \in Seq(Objects), Inv(c), Tracked(c), NEW d,
         NEW t, NEW u \in Threads \ {t}, OthersStay(t), Watch(t),
         Overlooks(pc[u], loc[u], next, value, Elements, c, next', value', Elements', d),
         ~ListChanges => Expects(pc[u], loc[u], head, next, c, head', next', d)
  PROVE  Tracks(pc'[u], loc'[u], stable'[u], disturbed'[u], changed'[u],
                head', next', value', Elements', d)
<1>1. pc'[u] = pc[u] /\ loc'[u] = loc[u] /\ loc[u] \in LocType /\ IsFiniteSet(stable[u])
  BY ThreadIs, ElementsAre DEF OthersStay
<1>2. stable'[u] = IF loc[u].op \in {"idle", "push"} THEN {} ELSE stable[u] \cap Elements'
  BY <1>1 DEF Watch
<1>3. loc[u].op \in Counting /\ ~disturbed'[u] => ~disturbed[u] /\ Elements' = Elements
  BY <1>1 DEF Watch
<1>4. loc[u].op \in {"erase", "size"} /\ ~changed'[u] => ~changed[u] /\ ~ListChanges
  BY <1>1 DEF Watch, Begins
<1>5. Tracks(pc[u], loc[u], stable[u], disturbed[u], changed[u], head, next, value, Elements, c)
  BY DEF Tracked
<1> DEFINE p == pc[u]
           l == loc[u]
           S2 == stable'[u]
           ds2 == disturbed'[u]
           ch2 == changed'[u]
           E2 == Elements'
<1>6. Tracks(p, l, S2, ds2, ch2, head', next', value', E2, d)
  BY <1>1, <1>2, <1>3, <1>4, <1>5, TracksStill
<1> QED
  BY <1>1, <1>6
(* The histories of the thread that moves.                                 *)
LEMMA ActorRemembers ==
  ASSUME NEW c \in Seq(Objects), Inv(c), Tracked(c), NEW t \in Threads, Watch(t)
  PROVE  /\ loc'[t].op \in {"idle", "push"} => stable'[t] = {}
         /\ loc[t].op = loc'[t].op /\ loc[t].op \notin {"idle", "push"} =>
              stable'[t] = stable[t] \cap Elements'
         /\ loc'[t].op \in Counting /\ loc[t].op = loc'[t].op /\ ~disturbed'[t] =>
              ~disturbed[t] /\ Elements' = Elements
         /\ loc'[t].op \in {"erase", "size"} /\ ~changed'[t] => Begins(t) \/ ~changed[t]
         /\ stable[t] \subseteq Elements
         /\ Remembers(pc[t], loc[t], stable[t], value, Elements)
         /\ Walked(pc[t], loc[t], stable[t], next, c)
         /\ loc[t].op \in Counting /\ ~disturbed[t] =>
              Exact(pc[t], loc[t], stable[t], next, Elements, c)
         /\ loc[t].op \in {"erase", "size"} /\ ~changed[t] =>
              Alone(pc[t], loc[t], head, next, c)
<1>1. Tracks(pc[t], loc[t], stable[t], disturbed[t], changed[t], head, next, value, Elements, c)
  BY DEF Tracked
<1>2. /\ loc'[t].op \in {"idle", "push"} => stable'[t] = {}
      /\ loc[t].op = loc'[t].op /\ loc[t].op \notin {"idle", "push"} =>
           stable'[t] = stable[t] \cap Elements'
      /\ loc'[t].op \in Counting /\ loc[t].op = loc'[t].op /\ ~disturbed'[t] =>
           ~disturbed[t] /\ Elements' = Elements
      /\ loc'[t].op \in {"erase", "size"} /\ ~changed'[t] => Begins(t) \/ ~changed[t]
  BY DEF Watch
<1> QED
  BY <1>1, <1>2 DEF Tracks, Remembers

LEMMA ElementsStay ==
  ASSUME UNCHANGED listVars
  PROVE  Elements' = Elements /\ ~ListChanges
BY DEF listVars, Elements, IsElement, ListChanges

LEMMA QuietTracks ==
  ASSUME NEW c \in Seq(Objects), Inv(c), Tracked(c), NEW t \in Threads,
         UNCHANGED listVars, OthersStay(t), Watch(t),
         Tracks(pc'[t], loc'[t], stable'[t], disturbed'[t], changed'[t],
                head, next, value, Elements, c)
  PROVE  Tracked(c)'
<1>1. UNCHANGED <<head, next, value, mem>> /\ Elements' = Elements /\ ~ListChanges
  BY ElementsStay DEF listVars
<1>2. ASSUME NEW u \in Threads \ {t}
      PROVE  Tracks(pc'[u], loc'[u], stable'[u], disturbed'[u], changed'[u],
                    head', next', value', Elements', c)
  <2>1. Overlooks(pc[u], loc[u], next, value, Elements, c, next, value, Elements, c)
    BY DEF Overlooks
  <2>2. Expects(pc[u], loc[u], head, next, c, head, next, c)
    BY DEF Expects
  <2> QED
    BY <1>1, <2>1, <2>2, OtherTracks
<1>3. Tracks(pc'[t], loc'[t], stable'[t], disturbed'[t], changed'[t],
             head', next', value', Elements', c)
  BY <1>1
<1> QED
  BY <1>2, <1>3 DEF Tracked

LEMMA IdleTracks ==
  ASSUME NEW ds, NEW ch, NEW h, NEW N, NEW V, NEW E, NEW c
  PROVE  Tracks("idle", NoLoc, {}, ds, ch, h, N, V, E, c)
BY LocTyped DEF Tracks, Remembers, Walked, Counting

LEMMA FreshTracks ==
  ASSUME NEW p, NEW op, NEW v, NEW S, NEW ds, NEW ch, NEW h, NEW N, NEW V, NEW E, NEW c,
         \/ p = "start" /\ op = "erase"
         \/ p = "loadHead" /\ op \in Counting,
         S \subseteq E, op = "erase" => \A o \in S : V[o] = v,
         op \in Counting /\ ~ds => S = E
  PROVE  Tracks(p, Fresh(op, v), S, ds, ch, h, N, V, E, c)
<1> DEFINE l == Fresh(op, v)
<1>1. l.op = op /\ l.elem = v /\ l.count = 0
  BY DEF Fresh, NoLoc
<1> HIDE DEF l
<1>2. Remembers(p, l, S, V, E)
  BY <1>1 DEF Remembers, Counting
<1>3. Walked(p, l, S, N, c)
  BY <1>1 DEF Walked
<1>4. op \in Counting /\ ~ds => Exact(p, l, S, N, E, c)
  BY DEF Exact
<1>5. Alone(p, l, h, N, c)
  BY <1>1 DEF Alone, Counting
<1> QED
  BY <1>1, <1>2, <1>3, <1>4, <1>5 DEF Tracks, l

LEMMA RestartTracks ==
  ASSUME NEW t \in Threads, loc[t].op \in {"erase"} \cup Counting,
         NEW S, NEW ds, NEW ch, NEW h, NEW N, NEW V, NEW E, NEW c,
         S \subseteq E, loc[t].op = "erase" => \A o \in S : V[o] = loc[t].elem,
         loc[t].op \in Counting /\ ~ds => S = E
  PROVE  Tracks(IF loc[t].op = "erase" THEN "start" ELSE "loadHead", Restarted(t),
                S, ds, ch, h, N, V, E, c)
<1>1. CASE loc[t].op = "erase"
  <2>1. Restarted(t) = Fresh("erase", loc[t].elem)
    BY <1>1 DEF Restarted, Fresh
  <2> QED
    BY <1>1, <2>1, FreshTracks DEF Counting
<1>2. CASE loc[t].op # "erase"
  <2>1. Restarted(t) = Fresh(loc[t].op, NoLoc.elem)
    <3>1. NoLoc \in LocType
      BY LocTyped
    <3>2. \A l \in LocType : \A op : [l EXCEPT !.op = op] = [l EXCEPT !.op = op, !.elem = l.elem]
      BY DEF LocType
    <3> QED
      BY <1>2, <3>1, <3>2 DEF Restarted, Fresh
  <2> QED
    BY <1>2, <2>1, FreshTracks
<1> QED
  BY <1>1, <1>2
LEMMA TracksInit == Init => Tracked(<< >>)
<1> SUFFICES ASSUME Init, NEW t \in Threads
             PROVE  Tracks(pc[t], loc[t], stable[t], disturbed[t], changed[t],
                           head, next, value, Elements, << >>)
  BY DEF Tracked
<1>1. pc[t] = "idle" /\ loc[t] = NoLoc /\ stable[t] = {}
  BY DEF Init
<1> QED
  BY <1>1, IdleTracks

(* The histories at the call of an erase or a walk.                        *)
LEMMA CallTracks ==
  ASSUME NEW c \in Seq(Objects), Inv(c), Tracked(c), NEW t \in Threads,
         (\E v \in Erased : CallErase(t, v)) \/ Walks(t)
  PROVE  Tracked(c)'
<1>1. PICK op \in {"erase"} \cup Counting, v \in Values :
        /\ pc[t] = "idle" /\ loc'[t] = Fresh(op, v) /\ OthersStay(t)
        /\ pc'[t] = IF op = "erase" THEN "start" ELSE "loadHead"
        /\ UNCHANGED listVars /\ Watch(t)
  <2>1. ThreadsTyped
    BY TypesAre DEF Inv
  <2>2. ASSUME NEW v \in Erased, CallErase(t, v)
        PROVE  /\ pc[t] = "idle" /\ loc'[t] = Fresh("erase", v) /\ OthersStay(t)
               /\ pc'[t] = "start" /\ UNCHANGED listVars /\ Watch(t) /\ v \in Values
    BY <2>1, <2>2, GotoMoves, ValuesAssumption DEF CallErase, Fresh
  <2>3. ASSUME NEW op \in Counting, Walk(t, op)
        PROVE  /\ pc[t] = "idle" /\ loc'[t] = Fresh(op, NoLoc.elem) /\ OthersStay(t)
               /\ pc'[t] = "loadHead" /\ UNCHANGED listVars /\ Watch(t)
               /\ NoLoc.elem \in Values /\ op # "erase"
    <3>1. \A l \in LocType : [l EXCEPT !.op = op] = [l EXCEPT !.op = op, !.elem = l.elem]
      BY DEF LocType
    <3>2. [NoLoc EXCEPT !.op = op] = Fresh(op, NoLoc.elem)
      BY <3>1, LocTyped DEF Fresh
    <3> QED
      BY <2>1, <2>3, <3>2, GotoMoves, LocTyped DEF Walk, Counting
  <2> QED
    BY <2>2, <2>3 DEF Walks, CallSize, CallIterate, Counting
<1>2. loc[t] = NoLoc /\ loc[t].op = "idle" /\ loc'[t].op = op /\ loc'[t].elem = v
  BY <1>1, ThreadIs, LocTyped DEF OpFits, Fresh, NoLoc
<1>3. UNCHANGED <<head, next, value, mem>> /\ Elements' = Elements
  BY <1>1, ElementsStay DEF listVars
<1>4. stable'[t] = Sought(t)'
  BY <1>1, <1>2 DEF Watch, Counting
<1>5. Sought(t)' = {o \in Elements : op # "erase" \/ value[o] = v}
  BY <1>2, <1>3 DEF Sought
<1>6. Tracks(pc'[t], loc'[t], stable'[t], disturbed'[t], changed'[t],
             head, next, value, Elements, c)
  <2>1. stable'[t] \subseteq Elements /\ (op = "erase" => \A o \in stable'[t] : value[o] = v)
        /\ (op \in Counting => stable'[t] = Elements)
    BY <1>4, <1>5 DEF Counting
  <2> QED
    BY <1>1, <2>1, FreshTracks
<1> QED
  BY <1>1, <1>6, QuietTracks

(* What a step of t means: it goes on with its operation, gives up or has  *)
(* counted, erases an element, or adds one; if it tries again, it has an   *)
(* excuse.                                                                 *)
CountsRight(t) ==
  /\ Result(t) >= Cardinality(stable[t])
  /\ ~disturbed[t] => Result(t) = Cardinality(stable[t])

Goes(t) ==
  /\ loc'[t].op = loc[t].op /\ loc[t].op # "idle"
  /\ loc[t].op \in {"erase", "push"} => loc'[t].elem = loc[t].elem
  /\ Elements' = Elements /\ UNCHANGED value

Finishes(t) ==
  /\ loc[t].op \in {"erase"} \cup Counting /\ loc'[t] = NoLoc
  /\ loc[t].op = "erase" => stable[t] = {}
  /\ loc[t].op \in Counting => CountsRight(t)
  /\ Elements' = Elements /\ UNCHANGED value

Erases(t) ==
  /\ loc[t].op = "erase" /\ loc'[t] = NoLoc
  /\ ~doubled' => loc[t].curr.ptr \in Elements /\ value[loc[t].curr.ptr] = loc[t].elem
  /\ Elements' = Elements \ {loc[t].curr.ptr} /\ UNCHANGED value

Adds(t) ==
  /\ loc[t].op = "push" /\ loc'[t] = NoLoc
  /\ loc[t].temp \in Objects \ Elements /\ value[loc[t].temp] = loc[t].elem
  /\ Elements' = Elements \cup {loc[t].temp} /\ UNCHANGED value

Excused(t) == TriesAgain(t) => changed[t] \/ Removing(t)

Means(t) ==
  /\ OthersStay(t) /\ Watch(t) /\ Excused(t)
  /\ Goes(t) \/ Finishes(t) \/ Erases(t) \/ Adds(t)

(* Back to the start, or an end.                                           *)
LEMMA EndTracks ==
  ASSUME NEW c \in Seq(Objects), Inv(c), Tracked(c), NEW t \in Threads,
         Restart(t) \/ Return(t), pc[t] \notin {"idle", "pushCas"}, Watch(t),
         \A o \in Elements \cap Elements' : value'[o] = value[o]
  PROVE  /\ OthersStay(t) /\ loc[t].op \in {"erase"} \cup Counting
         /\ \/ Return(t) /\ pc'[t] = "idle" /\ loc'[t] = NoLoc
            \/ /\ Restart(t) /\ pc'[t] # "loadNext" /\ loc'[t].op = loc[t].op
               /\ loc[t].op = "erase" => loc'[t].elem = loc[t].elem
         /\ Tracks(pc'[t], loc'[t], stable'[t], disturbed'[t], changed'[t],
                   head', next', value', Elements', c)
<1>1. OpFits(pc[t], loc[t]) /\ loc[t] \in LocType /\ ThreadsTyped
  BY ThreadIs, TypesAre DEF Inv
<1>2. loc[t].op \in {"erase"} \cup Counting
  BY <1>1 DEF OpFits, LocType
<1>3. CASE Restart(t)
  <2>1. /\ pc'[t] = (IF loc[t].op = "erase" THEN "start" ELSE "loadHead")
        /\ loc'[t] = Restarted(t) /\ OthersStay(t)
    BY <1>1, <1>3, RestartMoves
  <2>2. /\ loc'[t].op = loc[t].op /\ loc[t].op \notin {"idle", "push"}
        /\ loc[t].op = "erase" => loc'[t].elem = loc[t].elem
    BY <1>2, <2>1, LocTyped DEF Restarted, LocType, Counting
  <2>3. /\ stable'[t] = stable[t] \cap Elements' /\ stable[t] \subseteq Elements
        /\ loc[t].op = "erase" => \A o \in stable[t] : value[o] = loc[t].elem
        /\ loc[t].op \in Counting /\ ~disturbed'[t] =>
             stable[t] = Elements /\ Elements' = Elements
    BY <2>2, ActorRemembers DEF Remembers, Exact
  <2> DEFINE S2 == stable'[t]
             ds2 == disturbed'[t]
             ch2 == changed'[t]
             E2 == Elements'
             h2 == head'
             N2 == next'
             V2 == value'
  <2>4. /\ S2 \subseteq E2
        /\ loc[t].op = "erase" => \A o \in S2 : V2[o] = loc[t].elem
        /\ loc[t].op \in Counting /\ ~ds2 => S2 = E2
    BY <2>3
  <2> HIDE DEF S2, ds2, ch2, E2, h2, N2, V2
  <2>5. Tracks(IF loc[t].op = "erase" THEN "start" ELSE "loadHead", Restarted(t),
               S2, ds2, ch2, h2, N2, V2, E2, c)
    BY <1>2, <2>4, RestartTracks
  <2> QED
    BY <1>2, <1>3, <2>1, <2>2, <2>5 DEF S2, ds2, ch2, E2, h2, N2, V2
<1>4. CASE Return(t)
  <2>1. pc'[t] = "idle" /\ loc'[t] = NoLoc /\ OthersStay(t)
    BY <1>1, <1>4, ReturnMoves
  <2>2. stable'[t] = {}
    BY <2>1, LocTyped, ActorRemembers
  <2> QED
    BY <1>2, <1>4, <2>1, <2>2, IdleTracks
<1> QED
  BY <1>3, <1>4

LEMMA QuietEndTracks ==
  ASSUME NEW c \in Seq(Objects), Inv(c), Tracked(c), NEW t \in Threads,
         \/ Restart(t) /\ (changed[t] \/ Removing(t))
         \/ /\ Return(t)
            /\ loc[t].op = "erase" => stable[t] = {}
            /\ loc[t].op \in Counting => CountsRight(t),
         pc[t] \notin {"idle", "pushCas"}, Watch(t), UNCHANGED listVars
  PROVE  Tracked(c)' /\ Means(t)
<1>1. UNCHANGED <<head, next, value, mem>> /\ Elements' = Elements
  BY ElementsStay DEF listVars
<1>2. /\ OthersStay(t) /\ loc[t].op \in {"erase"} \cup Counting
      /\ \/ Return(t) /\ pc'[t] = "idle" /\ loc'[t] = NoLoc
         \/ /\ Restart(t) /\ pc'[t] # "loadNext" /\ loc'[t].op = loc[t].op
            /\ loc[t].op = "erase" => loc'[t].elem = loc[t].elem
      /\ Tracks(pc'[t], loc'[t], stable'[t], disturbed'[t], changed'[t],
                head', next', value', Elements', c)
  BY <1>1, EndTracks
<1>3. Tracks(pc'[t], loc'[t], stable'[t], disturbed'[t], changed'[t],
             head, next, value, Elements, c)
  BY <1>1, <1>2
<1>4. Tracked(c)'
  BY <1>2, <1>3, QuietTracks
<1>5. Means(t)
  <2>1. CASE loc'[t] = NoLoc /\ pc'[t] = "idle" /\ Return(t)
    <3>1. Excused(t)
      BY <2>1 DEF Excused, TriesAgain, Begins
    <3>2. ASSUME Restart(t) PROVE FALSE
      <4>1. ThreadsTyped
        BY TypesAre DEF Inv
      <4> QED
        BY <2>1, <3>2, <4>1, RestartMoves
    <3>3. Finishes(t)
      BY <1>1, <1>2, <2>1, <3>2 DEF Finishes
    <3> QED
      BY <1>2, <3>1, <3>3 DEF Means
  <2>2. CASE Restart(t) /\ loc'[t].op = loc[t].op
             /\ (loc[t].op = "erase" => loc'[t].elem = loc[t].elem)
    <3>1. ASSUME Return(t) PROVE FALSE
      <4>1. ThreadsTyped
        BY TypesAre DEF Inv
      <4> QED
        BY <1>2, <2>2, <3>1, <4>1, ReturnMoves, LocTyped DEF Counting
    <3>2. Excused(t)
      BY <2>2, <3>1 DEF Excused
    <3>3. Goes(t)
      BY <1>1, <1>2, <2>2 DEF Goes, Counting
    <3> QED
      BY <1>2, <3>2, <3>3 DEF Means
  <2> QED
    BY <1>2, <2>1, <2>2
<1> QED
  BY <1>4, <1>5

(* A step that goes on with the operation and does not touch the list.     *)
LEMMA QuietActor ==
  ASSUME NEW c \in Seq(Objects), Inv(c), Tracked(c), NEW t \in Threads,
         UNCHANGED listVars, OthersStay(t), Watch(t),
         loc'[t].op = loc[t].op, loc'[t].elem = loc[t].elem,
         loc[t].op \in {"erase"} \cup Counting,
         pc'[t] # "pushCas", pc'[t] = "mark" => value[loc'[t].curr.ptr] = loc[t].elem,
         ~Begins(t),
         Walked(pc'[t], loc'[t], stable[t], next, c),
         loc[t].op \in Counting /\ ~disturbed[t] =>
           Exact(pc'[t], loc'[t], stable[t], next, Elements, c),
         loc[t].op \in {"erase", "size"} /\ ~changed[t] =>
           Alone(pc'[t], loc'[t], head, next, c),
         pc[t] # "mark" \/ changed[t] \/ Removing(t)
  PROVE  Tracked(c)' /\ Means(t)
<1>1. Elements' = Elements
  BY ElementsStay
<1>2. /\ stable'[t] = stable[t] /\ stable[t] \subseteq Elements
      /\ loc[t].op \in Counting /\ ~disturbed'[t] => ~disturbed[t]
      /\ loc[t].op \in {"erase", "size"} /\ ~changed'[t] => ~changed[t]
      /\ Remembers(pc[t], loc[t], stable[t], value, Elements)
  <2>1. loc[t].op \notin {"idle", "push"} /\ loc[t].op = loc'[t].op
    BY DEF Counting
  <2>2. /\ loc[t].op = loc'[t].op /\ loc[t].op \notin {"idle", "push"} =>
             stable'[t] = stable[t] \cap Elements'
        /\ loc'[t].op \in Counting /\ loc[t].op = loc'[t].op /\ ~disturbed'[t] =>
             ~disturbed[t]
        /\ loc'[t].op \in {"erase", "size"} /\ ~changed'[t] => Begins(t) \/ ~changed[t]
        /\ stable[t] \subseteq Elements
        /\ Remembers(pc[t], loc[t], stable[t], value, Elements)
    BY ActorRemembers
  <2> QED
    BY <1>1, <2>1, <2>2
<1>3. Remembers(pc'[t], loc'[t], stable'[t], value, Elements)
  BY <1>2 DEF Remembers, Counting
<1>4. Tracks(pc'[t], loc'[t], stable'[t], disturbed'[t], changed'[t],
             head, next, value, Elements, c)
  BY <1>2, <1>3 DEF Tracks
<1>5. Means(t)
  <2>1. UNCHANGED value /\ loc[t].op # "idle"
    BY DEF listVars, Counting
  <2> QED
    BY <1>1, <2>1 DEF Means, Excused, TriesAgain, Goes
<1> QED
  BY <1>4, <1>5, QuietTracks

LEMMA NothingThere ==
  ASSUME NEW c \in Seq(Objects), Inv(c), Tracked(c), NEW t \in Threads, head = NoPtr
  PROVE  stable[t] = {}
<1>1. Len(c) \in Nat /\ NodeAfter(c, 0) = NoPtr
  BY DEF Inv, Chained, Linked
<1>2. ~(0 < Len(c))
  <2> SUFFICES ASSUME 0 < Len(c) PROVE FALSE
    OBVIOUS
  <2>1. 1 \in 1 .. Len(c) /\ c[0 + 1] = NoPtr
    BY <1>1 DEF NodeAfter
  <2>2. c[1] \in Objects
    BY <2>1
  <2> QED
    BY <2>1, <2>2
<1>3. NodesOn(c) = {}
  BY <1>1, <1>2 DEF NodesOn
<1>4. stable[t] \subseteq Elements /\ Elements \subseteq NodesOn(c)
  BY ElementsAre DEF Tracked, Tracks, Remembers
<1> QED
  BY <1>3, <1>4

LEMMA StartTracks ==
  ASSUME NEW c \in Seq(Objects), Inv(c), Tracked(c), NEW t \in Threads, Start(t)
  PROVE  Tracked(c)' /\ Means(t)
<1>1. pc[t] = "start" /\ UNCHANGED listVars /\ Watch(t)
  BY DEF Start
<1>2. CASE head = NoPtr
  <2>1. loc[t].op = "erase" /\ loc[t].op \notin Counting
    BY <1>1, ThreadIs DEF OpFits, Counting
  <2> QED
    BY <1>1, <1>2, <2>1, NothingThere, QuietEndTracks DEF Start
<1>3. CASE head # NoPtr
  <2>1. pc'[t] = "loadHead" /\ loc'[t] = loc[t] /\ OthersStay(t)
    BY <1>3, GotoMoves, TypesAre DEF Start, Inv
  <2>2. loc[t].op = "erase"
    BY <1>1, ThreadIs DEF OpFits
  <2>3. Walked("start", loc[t], stable[t], next, c)
    BY <1>1, ActorRemembers
  <2>4. Walked("loadHead", loc[t], stable[t], next, c)
    BY <2>3 DEF Walked
  <2>5. Alone("loadHead", loc[t], head, next, c)
    BY <1>3 DEF Alone
  <2>6. ~Begins(t)
    BY <1>1, <2>1 DEF Begins
  <2> QED
    BY <1>1, <2>1, <2>2, <2>4, <2>5, <2>6, QuietActor DEF Counting
<1> QED
  BY <1>2, <1>3

LEMMA LoadHeadTracks ==
  ASSUME NEW c \in Seq(Objects), Inv(c), Tracked(c), NEW t \in Threads, Watch(t),
         UNCHANGED listVars, pc[t] \in {"loadHead", "checkHead"},
         IF head = NoPtr THEN NoHead(t)
         ELSE Goto(t, "checkHead", [loc[t] EXCEPT !.temp = head])
  PROVE  Tracked(c)' /\ Means(t)
<1>1. CASE head = NoPtr
  <2>1. /\ Walked(pc[t], loc[t], stable[t], next, c)
        /\ loc[t].op = "erase" /\ ~changed[t] => Alone(pc[t], loc[t], head, next, c)
    BY ActorRemembers
  <2>2. stable[t] = {} /\ Cardinality({}) = 0
    BY <1>1, NothingThere, FS_EmptySet
  <2>3. loc[t].count = 0
    BY <2>1 DEF Walked
  <2>4. CountsRight(t)
    BY <2>2, <2>3 DEF CountsRight, Result
  <2>5. loc[t].op = "erase" => changed[t]
    BY <1>1, <2>1 DEF Alone
  <2> QED
    BY <1>1, <2>2, <2>4, <2>5, QuietEndTracks DEF NoHead
<1>2. CASE head # NoPtr
  <2>1. /\ pc'[t] = "checkHead" /\ loc'[t] = [loc[t] EXCEPT !.temp = head]
        /\ OthersStay(t)
    BY <1>2, GotoMoves, TypesAre DEF Inv
  <2>2. OpFits(pc[t], loc[t]) /\ loc[t] \in LocType
    BY ThreadIs
  <2> DEFINE l == loc'[t]
  <2>3. /\ l.op = loc[t].op /\ l.elem = loc[t].elem /\ l.count = loc[t].count
        /\ loc[t].op \in {"erase"} \cup Counting
    BY <2>1, <2>2 DEF LocType, OpFits
  <2> HIDE DEF l
  <2>4. /\ Walked(pc[t], loc[t], stable[t], next, c)
        /\ loc[t].op \in Counting /\ ~disturbed[t] =>
             Exact(pc[t], loc[t], stable[t], next, Elements, c)
    BY ActorRemembers
  <2>5. Walked("checkHead", l, stable[t], next, c)
    BY <2>3, <2>4 DEF Walked
  <2>6. loc[t].op \in Counting /\ ~disturbed[t] =>
          Exact("checkHead", l, stable[t], next, Elements, c)
    BY <2>4 DEF Exact
  <2>7. Alone("checkHead", l, head, next, c)
    BY <1>2 DEF Alone
  <2>8. ~Begins(t)
    BY <2>1 DEF Begins
  <2> QED
    BY <2>1, <2>3, <2>5, <2>6, <2>7, <2>8, QuietActor DEF l
<1> QED
  BY <1>1, <1>2

LEMMA CheckHeadTracks ==
  ASSUME NEW c \in Seq(Objects), Inv(c), Tracked(c), NEW t \in Threads, CheckHead(t)
  PROVE  Tracked(c)' /\ Means(t)
<1>1. pc[t] = "checkHead" /\ UNCHANGED listVars /\ Watch(t)
  BY DEF CheckHead
<1>2. CASE ~Agrees(loc[t].temp, head)
  BY <1>1, <1>2, LoadHeadTracks DEF CheckHead
<1>3. CASE Agrees(loc[t].temp, head)
  <2> DEFINE g == Guard(Link(loc[t].temp, FALSE))
  <2>1. /\ pc'[t] = "loadNext" /\ OthersStay(t)
        /\ loc'[t] = [loc[t] EXCEPT !.curr = g, !.temp = NoPtr, !.count = 1]
    BY <1>3, GotoMoves, TypesAre DEF CheckHead, Inv
  <2>2. /\ loc[t].temp = head /\ loc[t].temp \in Objects /\ loc[t] \in LocType
        /\ OpFits("checkHead", loc[t]) /\ loc[t].prev = NoGuard
    BY <1>1, <1>3, ThreadIs DEF Agrees, GuardsFit, Starting, GuardsOf
  <2>3. head \in NodesOn(c) /\ g.ptr = head
    BY <2>2, NodesOfChain, GuardIs DEF Link
  <2> HIDE DEF g
  <2> DEFINE l == loc'[t]
  <2>4. /\ l.op = loc[t].op /\ l.elem = loc[t].elem /\ l.count = 1
        /\ l.curr = g /\ l.prev = NoGuard /\ loc[t].op \in {"erase"} \cup Counting
    BY <2>1, <2>2 DEF LocType, OpFits
  <2> HIDE DEF l
  <2>5. Before(c, head) = {}
    BY <2>2, BeforeAlong DEF Inv, Chained
  <2>6. Cardinality({}) = 0
    BY FS_EmptySet
  <2>7. loc[t].op \in Counting /\ ~disturbed[t] => stable[t] = Elements
    <3>1. loc[t].op \in Counting /\ ~disturbed[t] =>
            Exact(pc[t], loc[t], stable[t], next, Elements, c)
      BY <1>1, ActorRemembers
    <3> QED
      BY <3>1 DEF Exact
  <2>8. Walked("loadNext", l, stable[t], next, c)
    <3>1. stable[t] \cap Before(c, l.curr.ptr) = {} /\ l.curr.ptr \in NodesOn(c)
      BY <2>3, <2>4, <2>5
    <3>2. Sees(l, {})
      BY <2>4, <2>6 DEF Sees
    <3> QED
      BY <3>1, <3>2 DEF Walked
  <2>9. loc[t].op \in Counting /\ ~disturbed[t] =>
          Exact("loadNext", l, stable[t], next, Elements, c)
    <3>1. l.curr.ptr = head /\ Before(c, l.curr.ptr) = {}
      BY <2>3, <2>4, <2>5
    <3>2. Before(c, l.curr.ptr) \subseteq Elements /\ Cardinality(Before(c, l.curr.ptr)) = 0
      BY <2>6, <3>1
    <3> QED
      BY <2>4, <2>7, <3>2 DEF Exact
  <2>10. Alone("loadNext", l, head, next, c)
    BY <2>3, <2>4, LocTyped DEF Alone
  <2>11. ~Begins(t)
    BY <2>1 DEF Begins
  <2> QED
    BY <1>1, <2>1, <2>4, <2>8, <2>9, <2>10, <2>11, QuietActor DEF l
<1> QED
  BY <1>2, <1>3

(* The walk goes on from the node o, which has counted, to the next one.   *)
LEMMA WalkedOn ==
  ASSUME NEW c \in Seq(Objects), Inv(c), NEW o \in NodesOn(c), next[o].ptr # NoPtr,
         NEW l \in LocType, NEW k \in LocType, NEW S \in SUBSET Objects,
         Sees(l, S \cap Before(c, o)), l.op = "erase" => o \notin S,
         k.op = l.op, k.count = l.count + 1, k.curr.ptr = next[o].ptr
  PROVE  /\ Walked("loadNext", k, S, next, c)
         /\ Exact("loadNext", l, S, next, Elements, c) /\ ~l.removing /\ l.curr.ptr = o
              /\ o \in Elements => Exact("loadNext", k, S, next, Elements, c)
<1> DEFINE q == next[o].ptr
           B == Before(c, o)
<1>1. q \in NodesOn(c)
  BY NodesOfChain
<1>2. Before(c, q) = B \cup {o} /\ o \notin B /\ B \subseteq NodesOn(c)
  BY BeforeAlong DEF Inv, Chained
<1>3. IsFiniteSet(B) /\ IsFiniteSet(S \cap B) /\ IsFiniteSet(B \cup {o})
  BY <1>2, ElementsAre, FS_Subset, FS_AddElement
<1> HIDE DEF q, B
<1>4. Sees(k, S \cap (B \cup {o}))
  <2>1. CASE l.op = "erase"
    BY <2>1 DEF Sees, B
  <2>2. CASE l.op # "erase"
    <3>1. IsFiniteSet(S \cap (B \cup {o}))
      BY <1>3, FS_Subset
    <3>2. Cardinality(S \cap (B \cup {o})) <= Cardinality((S \cap B) \cup {o})
      <4>1. IsFiniteSet((S \cap B) \cup {o})
        BY <1>3, FS_AddElement
      <4> QED
        BY <4>1, FS_Subset
    <3>3. Cardinality((S \cap B) \cup {o}) = Cardinality(S \cap B) + 1
      <4>1. o \notin S \cap B
        BY <1>2
      <4> QED
        BY <1>3, <4>1, FS_AddElement
    <3>4. Cardinality(S \cap B) < l.count
      BY <2>2 DEF Sees, B
    <3>5. Cardinality(S \cap B) \in Nat /\ Cardinality(S \cap (B \cup {o})) \in Nat
          /\ l.count \in Nat
      BY <1>3, <3>1, FS_CardinalityType DEF LocType
    <3> QED
      BY <2>2, <3>2, <3>3, <3>4, <3>5 DEF Sees
  <2> QED
    BY <2>1, <2>2
<1>5. k.curr.ptr = q /\ Before(c, k.curr.ptr) = B \cup {o} /\ k.curr.ptr \in NodesOn(c)
  BY <1>1, <1>2 DEF q
<1>6. Walked("loadNext", k, S, next, c)
  BY <1>4, <1>5 DEF Walked
<1>7. ASSUME Exact("loadNext", l, S, next, Elements, c), ~l.removing, l.curr.ptr = o,
             o \in Elements
      PROVE  Exact("loadNext", k, S, next, Elements, c)
  <2>1. S = Elements /\ B \subseteq Elements /\ Cardinality(B) + 1 = l.count
    BY <1>7 DEF Exact, B
  <2>2. Cardinality(B \cup {o}) = Cardinality(B) + 1
    BY <1>2, <1>3, FS_AddElement
  <2>3. Before(c, k.curr.ptr) \subseteq Elements
        /\ Cardinality(Before(c, k.curr.ptr)) + 1 = k.count
    BY <1>5, <1>7, <2>1, <2>2
  <2> QED
    BY <2>1, <2>3 DEF Exact
<1> QED
  BY <1>6, <1>7

LEMMA DecideTracks ==
  ASSUME NEW c \in Seq(Objects), Inv(c), Tracked(c), NEW t \in Threads, Watch(t),
         UNCHANGED listVars, pc[t] \in {"loadNext", "checkNext"},
         NEW n \in LinkType, n.ptr = NextOfCurr(t).ptr,
         n.mark \/ n.ptr # NoPtr => n = NextOfCurr(t),
         n # NextOfCurr(t) => pc[t] = "checkNext" /\ loc[t].temp # NextOfCurr(t).ptr,
         Decide(t, n)
  PROVE  Tracked(c)' /\ Means(t)
<1> DEFINE d == Deciding(t, n)
<1>1. PICK l \in LocType : l = loc[t]
  BY ThreadIs
<1>2. PICK o \in Objects : o = l.curr.ptr /\ o # NoPtr /\ mem[o] \in {"live", "retired"}
  BY <1>1, StandsOn DEF Stands
<1>3. /\ OpFits(pc[t], l) /\ NodesFit(pc[t], l, mem, next, NodesOn(c))
      /\ l.op \in {"erase"} \cup Counting /\ NextOfCurr(t) = next[o]
  BY <1>1, <1>2, ThreadIs DEF OpFits, LocType, NextOfCurr
<1>4. PICK S \in SUBSET Objects : S = stable[t]
  BY TypesAre DEF Inv, HistoryTyped
<1>5. /\ Remembers(pc[t], l, S, value, Elements) /\ Walked(pc[t], l, S, next, c)
      /\ l.op \in Counting /\ ~disturbed[t] => Exact(pc[t], l, S, next, Elements, c)
      /\ l.op \in {"erase", "size"} /\ ~changed[t] => Alone(pc[t], l, head, next, c)
  BY <1>1, <1>4, ActorRemembers
<1>6. /\ d.op = l.op /\ d.elem = l.elem /\ d.prev = l.prev /\ d.curr = l.curr
      /\ d.next = Guard(n) /\ d.count = l.count /\ d.removing = l.removing
      /\ d \in LocType /\ n.mark \in BOOLEAN
  BY <1>1, DecidedTyped, TypesAre DEF Deciding, LocType, Inv, LinkType
<1>7. OthersStay(t)
  BY DecideTyped, TypesAre DEF Inv
<1>8. CASE StartsAgain(t, n)
  <2>1. /\ Restart(t) /\ ~n.mark /\ (l.removing \/ n.ptr = o)
        /\ Removing(t) <=> l.removing
    BY <1>1, <1>2, <1>8 DEF StartsAgain, HasLeft, Removing
  <2>2. ASSUME ~l.removing PROVE o \notin NodesOn(c)
    BY <1>3, <2>1, <2>2, NodesOfChain
  <2>3. changed[t] \/ l.removing
    BY <1>2, <1>3, <1>5, <2>2 DEF Alone, NodesFit, Counting
  <2> QED
    BY <2>1, <2>3, QuietEndTracks
<1>14. CASE Ends(t, n)
  <2>1. /\ Return(t) /\ ~l.removing /\ ~n.mark /\ n.ptr = NoPtr /\ next[o].ptr = NoPtr
        /\ l.op = "erase" => value[o] # l.elem
    BY <1>1, <1>2, <1>3, <1>14 DEF Ends, Found, IsEnd
  <2>2. next[o] \in LinkType /\ (next[o].mark => next[o] = Link(NoPtr, TRUE))
    BY <2>1, LinksTyped, TypesAre DEF Inv, LinkType
  <2>3. S \subseteq Elements /\ Elements \subseteq NodesOn(c) /\ IsFiniteSet(S)
    BY <1>4, <1>5, ElementsAre DEF Remembers
  <2>4. /\ o \in NodesOn(c) => Sees(l, S \cap Before(c, o))
        /\ o \notin NodesOn(c) => Sees(l, S)
    <3>1. o \notin NodesOn(c) => next[o] = Link(NoPtr, TRUE)
      BY <1>2, <2>1, <2>2, StillInChain
    <3> QED
      BY <1>2, <1>5, <2>1, <3>1 DEF Walked
  <2>5. /\ o \in NodesOn(c) => NodesOn(c) = Before(c, o) \cup {o} /\ o \notin Before(c, o)
    BY <2>1, BeforeAlong DEF Inv, Chained
  <2>6. ASSUME l.op = "erase" PROVE S = {}
    <3>1. o \notin S
      BY <1>5, <2>1, <2>6 DEF Remembers
    <3> QED
      BY <2>3, <2>4, <2>5, <2>6, <3>1 DEF Sees
  <2>7. ASSUME l.op \in Counting PROVE CountsRight(t)
    <3>1. l.count \in Nat /\ Result(t) = l.count /\ Cardinality(S) \in Nat /\ l.op # "erase"
      BY <1>1, <2>3, <2>7, FS_CardinalityType DEF LocType, Result, Counting
    <3>2. Cardinality(S) <= l.count
      <4>1. CASE o \notin NodesOn(c)
        BY <2>4, <3>1, <4>1 DEF Sees
      <4>2. CASE o \in NodesOn(c)
        <5> DEFINE T == S \cap Before(c, o)
        <5>1. IsFiniteSet(T) /\ Cardinality(T) \in Nat /\ Cardinality(T) < l.count
          BY <2>3, <2>4, <3>1, <4>2, FS_Subset, FS_CardinalityType DEF Sees
        <5>2. S \subseteq T \cup {o} /\ o \notin T
          BY <2>3, <2>5, <4>2
        <5> HIDE DEF T
        <5>3. IsFiniteSet(T \cup {o}) /\ Cardinality(T \cup {o}) = Cardinality(T) + 1
          BY <5>1, <5>2, FS_AddElement
        <5>4. Cardinality(S) <= Cardinality(T \cup {o})
          BY <5>2, <5>3, FS_Subset
        <5> QED
          BY <3>1, <5>1, <5>3, <5>4
      <4> QED
        BY <4>1, <4>2
    <3>3. ASSUME ~disturbed[t] PROVE Cardinality(S) = l.count
      <4>1. Exact(pc[t], l, S, next, Elements, c)
        BY <1>5, <2>7, <3>3
      <4>2. ~next[o].mark
        BY <1>2, <1>3, <2>1, <2>2, <4>1 DEF Exact
      <4>3. o \in NodesOn(c) /\ o \in Elements
        BY <1>2, <2>1, <4>2, StillInChain, ElementsAre
      <4>4. S = Elements /\ Before(c, o) \subseteq S /\ Cardinality(Before(c, o)) + 1 = l.count
        BY <1>2, <2>1, <4>1, <4>3 DEF Exact
      <4>5. S = Before(c, o) \cup {o} /\ IsFiniteSet(Before(c, o)) /\ o \notin Before(c, o)
        BY <2>3, <2>5, <4>3, <4>4, FS_Subset
      <4>6. Cardinality(Before(c, o) \cup {o}) = Cardinality(Before(c, o)) + 1
        BY <4>5, FS_AddElement
      <4> QED
        BY <4>4, <4>5, <4>6
    <3> QED
      BY <1>4, <3>1, <3>2, <3>3 DEF CountsRight
  <2> QED
    BY <1>1, <1>4, <2>1, <2>6, <2>7, QuietEndTracks
<1>9. CASE Unlinking(t, n)
  <2>1. pc'[t] = "unlink" /\ loc'[t] = d
    BY <1>9, GotoMoves, TypesAre DEF Unlinking, Inv
  <2> HIDE DEF d
  <2>2. Walked("unlink", d, S, next, c)
    BY DEF Walked
  <2>3. l.op \in Counting /\ ~disturbed[t] => Exact("unlink", d, S, next, Elements, c)
    BY <1>5 DEF Exact
  <2>4. l.op \in {"erase", "size"} /\ ~changed[t] => Alone("unlink", d, head, next, c)
    BY <1>5, <1>6 DEF Alone
  <2>5. ~Begins(t)
    BY <2>1 DEF Begins
  <2> QED
    BY <1>1, <1>3, <1>4, <1>6, <1>7, <2>1, <2>2, <2>3, <2>4, <2>5, QuietActor
<1>10. CASE Marking(t, n)
  <2>1. pc'[t] = "mark" /\ loc'[t] = d
    BY <1>10, GotoMoves, TypesAre DEF Marking, Inv
  <2>2. l.op = "erase" /\ value[d.curr.ptr] = l.elem
    BY <1>1, <1>6, <1>10 DEF Marking, Found
  <2> HIDE DEF d
  <2>3. Walked("mark", d, S, next, c)
    BY <1>5, <1>6, <2>2 DEF Walked, Sees
  <2>4. ~changed[t] => Alone("mark", d, head, next, c)
    <3> SUFFICES ASSUME ~changed[t] PROVE Alone("mark", d, head, next, c)
      OBVIOUS
    <3>1. Alone(pc[t], l, head, next, c) /\ ~l.removing
      BY <1>1, <1>5, <1>10, <2>2 DEF Marking
    <3>2. n = next[o]
      BY <1>1, <1>2, <1>3, <3>1 DEF Alone
    <3>3. next[o] = Link(n.ptr, n.mark) /\ Guard(n).ptr = n.ptr /\ Guard(n).mark = n.mark
      BY <3>2, GuardIs DEF LinkType, Link
    <3> QED
      BY <1>2, <1>6, <3>1, <3>3 DEF Alone
  <2>5. ~Begins(t)
    BY <2>1 DEF Begins
  <2> QED
    BY <1>1, <1>4, <1>6, <1>7, <2>1, <2>2, <2>3, <2>4, <2>5, QuietActor DEF Counting
<1>11. ASSUME NEW k \in LocType, pc'[t] = "loadNext", loc'[t] = k, ~l.removing,
              k.op = l.op, k.elem = l.elem, k.count = l.count + 1, k.curr = Guard(n),
              n = next[o], o \in NodesOn(c), n.ptr # NoPtr, ~n.mark,
              l.op = "erase" => value[o] # l.elem,
              l.op = "iterate" \/ k.prev.ptr = o
       PROVE  Tracked(c)' /\ Means(t)
  <2>1. k.curr.ptr = next[o].ptr /\ next[o].ptr # NoPtr
    BY <1>11, GuardIs
  <2>2. Sees(l, S \cap Before(c, o))
    BY <1>2, <1>5, <1>11 DEF Walked
  <2>3. l.op = "erase" => o \notin S
    BY <1>5, <1>11 DEF Remembers
  <2>4. o \in Elements
    BY <1>11, ElementsAre
  <2>5. /\ Walked("loadNext", k, S, next, c)
        /\ Exact("loadNext", l, S, next, Elements, c) => Exact("loadNext", k, S, next, Elements, c)
    BY <1>2, <1>11, <2>1, <2>2, <2>3, <2>4, WalkedOn
  <2>6. Exact(pc[t], l, S, next, Elements, c) => Exact("loadNext", l, S, next, Elements, c)
    BY DEF Exact
  <2>7. l.op \in {"erase", "size"} /\ ~changed[t] => Alone("loadNext", k, head, next, c)
    <3> SUFFICES ASSUME l.op \in {"erase", "size"} PROVE Alone("loadNext", k, head, next, c)
      OBVIOUS
    <3>1. k.prev.ptr = o /\ next[o] = Link(k.curr.ptr, FALSE)
      BY <1>11, <2>1 DEF LinkType, Link
    <3>2. k.curr.ptr \in NodesOn(c)
      BY <1>11, <2>1, NodesOfChain
    <3> QED
      BY <1>2, <3>1, <3>2 DEF Alone
  <2>8. ~Begins(t)
    BY <1>11 DEF Begins
  <2> QED
    BY <1>1, <1>3, <1>4, <1>5, <1>7, <1>11, <2>5, <2>6, <2>7, <2>8, QuietActor
<1>12. CASE Iterating(t, n)
  <2> DEFINE k == Forwarded(d)
  <2>1. pc'[t] = "loadNext" /\ loc'[t] = k /\ k \in LocType
    BY <1>12, GotoMoves, DecidedTyped, TypesAre DEF Iterating, Inv
  <2>2. k.op = d.op /\ k.elem = d.elem /\ k.count = d.count + 1 /\ k.curr = d.next
    BY <1>6 DEF Forwarded, LocType
  <2> HIDE DEF k, d
  <2>3. l.op = "iterate" /\ ~l.removing /\ ~IsEnd(n)
    BY <1>1, <1>12 DEF Iterating
  <2>4. o \in NodesOn(c) /\ mem[o] = "live"
    BY <1>2, <1>3, <2>3, NodesOfChain DEF NodesFit
  <2>5. ~next[o].mark
    BY <1>1, <2>3, <2>4 DEF Inv, IterationsFit, Iterates, IsElement
  <2>6. ~n.mark /\ n.ptr # NoPtr /\ n = next[o]
    BY <1>3, <2>3, <2>5 DEF IsEnd
  <2> QED
    BY <1>6, <1>11, <2>1, <2>2, <2>3, <2>4, <2>6
<1>13. CASE Advancing(t, n)
  <2> DEFINE k == Forwarded(Followed(d))
  <2>1. pc'[t] = "loadNext" /\ loc'[t] = k /\ k \in LocType
    BY <1>13, GotoMoves, DecidedTyped, TypesAre DEF Advancing, Inv
  <2>2. /\ k.op = d.op /\ k.elem = d.elem /\ k.count = d.count + 1 /\ k.curr = d.next
        /\ k.prev = d.curr
    BY <1>6 DEF Forwarded, Followed, LocType
  <2> HIDE DEF k, d
  <2>3. /\ ~l.removing /\ ~n.mark /\ n.ptr # NoPtr /\ n.ptr # o
        /\ l.op = "erase" => value[o] # l.elem
    BY <1>1, <1>2, <1>13 DEF Advancing, Found, HasLeft
  <2>4. n = next[o]
    BY <1>3, <2>3
  <2>5. o \in NodesOn(c)
    BY <1>2, <2>3, <2>4, StillInChain
  <2> QED
    BY <1>2, <1>6, <1>11, <2>1, <2>2, <2>3, <2>4, <2>5
<1> QED
  BY <1>1, <1>6, <1>8, <1>9, <1>10, <1>12, <1>13, <1>14, DecideLeads

LEMMA NextTracks ==
  ASSUME NEW c \in Seq(Objects), Inv(c), Tracked(c), NEW t \in Threads,
         LoadNext(t) \/ CheckNext(t)
  PROVE  Tracked(c)' /\ Means(t)
<1>1. /\ pc[t] \in {"loadNext", "checkNext"} /\ pc[t] \in Stands /\ UNCHANGED listVars
      /\ Watch(t)
  BY DEF LoadNext, CheckNext, Stands
<1>2. /\ NextOfCurr(t) \in LinkType /\ NextOfCurr(t).ptr \in Pointers
      /\ NextOfCurr(t) = Link(NextOfCurr(t).ptr, NextOfCurr(t).mark)
  BY <1>1, StandsOn, LinksTyped, TypesAre DEF Inv, NextOfCurr
<1>3. ASSUME NextOfCurr(t).ptr # NoPtr,
             Goto(t, "checkNext", [loc[t] EXCEPT !.temp = NextOfCurr(t).ptr])
      PROVE  Tracked(c)' /\ Means(t)
  <2> DEFINE k == [loc[t] EXCEPT !.temp = NextOfCurr(t).ptr]
  <2>1. pc'[t] = "checkNext" /\ loc'[t] = k /\ OthersStay(t)
    BY <1>3, GotoMoves, TypesAre DEF Inv
  <2>2. PICK l \in LocType : l = loc[t] /\ OpFits(pc[t], l)
    BY ThreadIs
  <2>3. /\ k.op = l.op /\ k.elem = l.elem /\ k.prev = l.prev /\ k.curr = l.curr
        /\ k.count = l.count /\ k.removing = l.removing /\ k.temp = NextOfCurr(t).ptr
        /\ l.op \in {"erase"} \cup Counting
    BY <1>1, <2>2 DEF LocType, OpFits
  <2> HIDE DEF k
  <2>4. /\ Walked(pc[t], l, stable[t], next, c)
        /\ l.op \in Counting /\ ~disturbed[t] => Exact(pc[t], l, stable[t], next, Elements, c)
        /\ l.op \in {"erase", "size"} /\ ~changed[t] => Alone(pc[t], l, head, next, c)
    BY <1>1, <2>2, ActorRemembers
  <2>5. NextOfCurr(t) = next[l.curr.ptr] /\ next[l.curr.ptr] # Link(NoPtr, TRUE)
    BY <1>3, <2>2 DEF NextOfCurr, Link
  <2>6. Walked("checkNext", k, stable[t], next, c)
    BY <1>1, <2>3, <2>4 DEF Walked, Sees
  <2>7. l.op \in Counting /\ ~disturbed[t] => Exact("checkNext", k, stable[t], next, Elements, c)
    BY <1>1, <2>3, <2>4, <2>5 DEF Exact
  <2>8. l.op \in {"erase", "size"} /\ ~changed[t] => Alone("checkNext", k, head, next, c)
    BY <1>1, <2>3, <2>4, <2>5 DEF Alone
  <2>9. ~Begins(t)
    BY <2>1 DEF Begins
  <2> QED
    BY <1>1, <2>1, <2>2, <2>3, <2>6, <2>7, <2>8, <2>9, QuietActor
<1>4. CASE LoadNext(t)
  <2>1. CASE NextOfCurr(t).ptr = NoPtr
    BY <1>1, <1>2, <1>4, <2>1, DecideTracks DEF LoadNext
  <2>2. CASE NextOfCurr(t).ptr # NoPtr
    BY <1>3, <1>4, <2>2 DEF LoadNext
  <2> QED
    BY <2>1, <2>2
<1>5. CASE CheckNext(t)
  <2>1. CASE Agrees(loc[t].temp, NextOfCurr(t).ptr)
    <3>1. Link(loc[t].temp, NextOfCurr(t).mark) = NextOfCurr(t)
      BY <1>2, <2>1 DEF Agrees
    <3> QED
      BY <1>1, <1>2, <1>5, <2>1, <3>1, DecideTracks DEF CheckNext
  <2>2. CASE ~Agrees(loc[t].temp, NextOfCurr(t).ptr) /\ NextOfCurr(t).ptr = NoPtr
    <3>1. Null \in LinkType /\ Null.ptr = NoPtr /\ ~Null.mark
      BY NullTyped DEF Null, Link
    <3>2. pc[t] = "checkNext" /\ loc[t].temp # NextOfCurr(t).ptr /\ Decide(t, Null)
      BY <1>5, <2>2 DEF CheckNext, Agrees
    <3> QED
      BY <1>1, <2>2, <3>1, <3>2, DecideTracks
  <2>3. CASE ~Agrees(loc[t].temp, NextOfCurr(t).ptr) /\ NextOfCurr(t).ptr # NoPtr
    BY <1>3, <1>5, <2>3 DEF CheckNext
  <2> QED
    BY <2>1, <2>2, <2>3
<1> QED
  BY <1>4, <1>5

LEMMA RetryMarkTracks ==
  ASSUME NEW c \in Seq(Objects), Inv(c), Tracked(c), NEW t \in Threads, Mark(t),
         NextOfCurr(t) # Link(loc[t].next.ptr, loc[t].next.mark)
  PROVE  Tracked(c)' /\ Means(t)
<1> DEFINE k == [loc[t] EXCEPT !.next = NoGuard]
<1>1. /\ pc[t] = "mark" /\ pc'[t] = "loadNext" /\ loc'[t] = k /\ OthersStay(t)
      /\ UNCHANGED listVars /\ Watch(t)
  BY GotoMoves, TypesAre DEF Mark, Inv, listVars
<1>2. PICK l \in LocType : l = loc[t] /\ OpFits("mark", l)
  BY <1>1, ThreadIs
<1>3. /\ k.op = l.op /\ k.elem = l.elem /\ k.prev = l.prev /\ k.curr = l.curr
      /\ k.count = l.count /\ k.removing = l.removing /\ l.op = "erase"
  BY <1>2 DEF LocType, OpFits
<1> HIDE DEF k
<1>4. /\ Walked("mark", l, stable[t], next, c)
      /\ ~changed[t] => Alone("mark", l, head, next, c)
  BY <1>1, <1>2, <1>3, ActorRemembers
<1>5. changed[t] \/ (l.removing /\ Removing(t))
  BY <1>2, <1>4 DEF Alone, NextOfCurr, Removing
<1>6. Walked("loadNext", k, stable[t], next, c)
  BY <1>3, <1>4 DEF Walked, Sees
<1>7. ~changed[t] => Alone("loadNext", k, head, next, c)
  BY <1>3, <1>5 DEF Alone
<1>8. ~Begins(t)
  BY <1>1 DEF Begins
<1> QED
  BY <1>1, <1>2, <1>3, <1>5, <1>6, <1>7, <1>8, QuietActor DEF Counting

(* A step of t changes one node, and c stays the chain.                    *)
Untouched(u, o) ==
  ~Has(pc[u], loc[u], o) /\ \A g \in GuardsOf(loc[u]) : g.safe => g.ptr # o

LEMMA NodeOverlooked ==
  ASSUME NEW c \in Seq(Objects), Inv(c), NEW u \in Threads, NEW o \in Objects,
         NEW N2, NEW V2, NEW E2,
         \A x \in Objects \ {o} : N2[x] = next[x] /\ V2[x] = value[x],
         o \in Elements \cap E2 => V2[o] = value[o],
         V2[o] = value[o] \/ Untouched(u, o),
         \/ Untouched(u, o) \/ N2[o] # Link(NoPtr, TRUE)
         \/ o \in NodesOn(c) /\ E2 # Elements
  PROVE  Overlooks(pc[u], loc[u], next, value, Elements, c, N2, V2, E2, c)
<1> DEFINE p == pc[u]
           l == loc[u]
<1>1. /\ GuardsFit(p, l, mem) /\ NodesFit(p, l, mem, next, NodesOn(c))
  BY ThreadIs
<1>2. p \in Stands => l.curr.ptr \in Objects /\ (Untouched(u, o) => l.curr.ptr # o)
  BY <1>1 DEF GuardsFit, GuardsOf, Untouched
<1>3. p = "pushCas" => l.temp \in Objects /\ (Untouched(u, o) => l.temp # o)
  BY <1>1 DEF NodesFit, Untouched, Has
<1>4. Elements \subseteq Objects
  BY ElementsAre
<1> HIDE DEF p, l
<1>5. \A x \in Elements \cap E2 : V2[x] = value[x]
  BY <1>4
<1>6. Overlooks(p, l, next, value, Elements, c, N2, V2, E2, c)
  BY <1>2, <1>3, <1>5 DEF Overlooks, Stands
<1> QED
  BY <1>6 DEF p, l

LEMMA NodeExpected ==
  ASSUME NEW c \in Seq(Objects), Inv(c), NEW u \in Threads, NEW o \in Objects \ NodesOn(c),
         NEW N2, \A x \in Objects \ {o} : N2[x] = next[x]
  PROVE  Expects(pc[u], loc[u], head, next, c, head, N2, c)
<1> DEFINE p == pc[u]
           l == loc[u]
<1> SUFFICES ASSUME p \in {"loadNext", "checkNext", "mark", "unlink"}, l.curr.ptr \in NodesOn(c)
             PROVE  /\ N2[l.curr.ptr] = next[l.curr.ptr]
                    /\ l.prev.ptr # NoPtr /\ next[l.prev.ptr] = Link(l.curr.ptr, FALSE) =>
                         N2[l.prev.ptr] = next[l.prev.ptr]
  BY DEF Expects
<1>1. /\ l.curr.ptr \in Objects /\ l.curr.ptr # o
      /\ l.prev.ptr # NoPtr =>
           l.prev.ptr \in Objects /\ mem[l.prev.ptr] \in {"live", "retired"}
  BY StandsOn DEF Stands
<1>2. ASSUME l.prev.ptr = o, o # NoPtr, next[o] = Link(l.curr.ptr, FALSE) PROVE FALSE
  BY <1>1, <1>2, StillInChain DEF Link
<1> HIDE DEF p, l
<1> QED
  BY <1>1, <1>2

LEMMA NodeTracks ==
  ASSUME NEW c \in Seq(Objects), Inv(c), Tracked(c), NEW t \in Threads,
         OthersStay(t), Watch(t), UNCHANGED head, NEW o \in Objects,
         \A x \in Objects \ {o} : next'[x] = next[x] /\ value'[x] = value[x],
         o \in Elements \cap Elements' => value'[o] = value[o],
         o \in NodesOn(c) => ListChanges,
         \A u \in Threads \ {t} :
           /\ value'[o] = value[o] \/ Untouched(u, o)
           /\ \/ Untouched(u, o) \/ next'[o] # Link(NoPtr, TRUE)
              \/ o \in NodesOn(c) /\ Elements' # Elements,
         Tracks(pc'[t], loc'[t], stable'[t], disturbed'[t], changed'[t],
                head', next', value', Elements', c)
  PROVE  Tracked(c)'
<1> SUFFICES ASSUME NEW u \in Threads \ {t}
             PROVE  Tracks(pc'[u], loc'[u], stable'[u], disturbed'[u], changed'[u],
                           head', next', value', Elements', c)
  BY DEF Tracked
<1> DEFINE N2 == next'
           V2 == value'
           E2 == Elements'
<1>1. Overlooks(pc[u], loc[u], next, value, Elements, c, N2, V2, E2, c)
  <2>1. /\ \A x \in Objects \ {o} : N2[x] = next[x] /\ V2[x] = value[x]
        /\ o \in Elements \cap E2 => V2[o] = value[o]
        /\ V2[o] = value[o] \/ Untouched(u, o)
        /\ \/ Untouched(u, o) \/ N2[o] # Link(NoPtr, TRUE)
           \/ o \in NodesOn(c) /\ E2 # Elements
    OBVIOUS
  <2> HIDE DEF N2, V2, E2
  <2> QED
    BY <2>1, NodeOverlooked
<1>2. ASSUME ~ListChanges PROVE Expects(pc[u], loc[u], head, next, c, head', N2, c)
  <2>1. o \in Objects \ NodesOn(c) /\ \A x \in Objects \ {o} : N2[x] = next[x]
    BY <1>2
  <2> HIDE DEF N2
  <2>2. Expects(pc[u], loc[u], head, next, c, head, N2, c)
    BY <2>1, NodeExpected
  <2> QED
    BY <2>2
<1> QED
  BY <1>1, <1>2, OtherTracks

(* The thread takes a node out, and does not walk meanwhile.               *)
LEMMA RemovingTracks ==
  ASSUME NEW c \in Seq(Objects), Inv(c), Tracked(c), NEW t \in Threads, Watch(t),
         loc'[t].op = loc[t].op, loc'[t].elem = loc[t].elem,
         loc[t].op \in {"erase"} \cup Counting,
         pc'[t] \in {"leave", "retire"} \/ (pc'[t] = "loadNext" /\ loc'[t].removing),
         \A o \in Elements \cap Elements' : value'[o] = value[o], NEW d
  PROVE  Tracks(pc'[t], loc'[t], stable'[t], disturbed'[t], changed'[t],
                head', next', value', Elements', d)
<1> DEFINE E2 == Elements'
<1>1. loc[t].op \notin {"idle", "push"} /\ loc[t].op = loc'[t].op
  BY DEF Counting
<1>2. /\ stable'[t] = stable[t] \cap E2 /\ stable[t] \subseteq Elements
      /\ loc[t].op \in Counting /\ ~disturbed'[t] => ~disturbed[t] /\ E2 = Elements
      /\ Remembers(pc[t], loc[t], stable[t], value, Elements)
      /\ loc[t].op \in Counting /\ ~disturbed[t] =>
           Exact(pc[t], loc[t], stable[t], next, Elements, c)
  BY <1>1, ActorRemembers
<1> HIDE DEF E2
<1>3. Remembers(pc'[t], loc'[t], stable'[t], value', E2)
  <2>1. \A o \in Elements \cap E2 : value'[o] = value[o]
    BY DEF E2
  <2> QED
    BY <1>1, <1>2, <2>1 DEF Remembers
<1>4. Walked(pc'[t], loc'[t], stable'[t], next', d)
  BY DEF Walked
<1>5. loc'[t].op \in Counting /\ ~disturbed'[t] =>
        Exact(pc'[t], loc'[t], stable'[t], next', E2, d)
  BY <1>2 DEF Exact
<1>6. Alone(pc'[t], loc'[t], head', next', d)
  BY DEF Alone
<1> QED
  BY <1>3, <1>4, <1>5, <1>6 DEF Tracks, E2

LEMMA CallPushTracks ==
  ASSUME NEW c \in Seq(Objects), Inv(c), Tracked(c), NEW t \in Threads,
         NEW o \in Objects, NEW v \in Values, CallPush(t, o, v)
  PROVE  Tracked(c)' /\ Elements' = Elements
<1> DEFINE l == [NoLoc EXCEPT !.op = "push", !.elem = v, !.temp = o]
<1>1. /\ mem[o] = "free" /\ UNCHANGED head /\ Watch(t)
      /\ pc'[t] = "pushCas" /\ loc'[t] = l /\ OthersStay(t)
  BY GotoMoves, TypesAre DEF CallPush, Inv
<1>2. /\ \A x \in Objects \ {o} :
           mem'[x] = mem[x] /\ next'[x] = next[x] /\ value'[x] = value[x]
      /\ mem'[o] = "private" /\ value'[o] = v
  BY TypesAre DEF CallPush, Inv, ListTyped
<1>3. o \notin NodesOn(c)
  BY <1>1, NodesOfChain
<1>4. l.op = "push" /\ l.elem = v /\ l.temp = o
  BY LocTyped DEF LocType
<1> HIDE DEF l
<1>5. Elements' = Elements /\ o \notin Elements
  BY <1>1, <1>2 DEF Elements, IsElement
<1>6. \A u \in Threads : Untouched(u, o)
  <2> TAKE u \in Threads
  <2>1. GuardsFit(pc[u], loc[u], mem) /\ NodesFit(pc[u], loc[u], mem, next, NodesOn(c))
    BY ThreadIs
  <2> QED
    BY <1>1, <2>1 DEF Untouched, GuardsFit, NodesFit, Has, Removes
<1>7. stable'[t] = {}
  BY <1>1, <1>4, ActorRemembers
<1>8. Tracks(pc'[t], loc'[t], stable'[t], disturbed'[t], changed'[t],
             head', next', value', Elements', c)
  <2>1. Remembers("pushCas", l, {}, value', Elements')
    BY <1>2, <1>4 DEF Remembers
  <2> QED
    BY <1>1, <1>4, <1>7, <2>1 DEF Tracks, Walked, Counting
<1> QED
  BY <1>1, <1>2, <1>3, <1>5, <1>6, <1>8, NodeTracks

LEMMA LeaveTracks ==
  ASSUME NEW c \in Seq(Objects), Inv(c), Tracked(c), NEW t \in Threads, Leave(t)
  PROVE  Tracked(c)' /\ Means(t)
<1> DEFINE l == [loc[t] EXCEPT !.curr = loc[t].next, !.next = NoGuard,
                               !.temp = loc[t].curr.ptr]
<1>1. /\ pc[t] = "leave" /\ pc[t] \in Stands /\ UNCHANGED <<head, value, mem>> /\ Watch(t)
      /\ pc'[t] = "retire" /\ loc'[t] = l /\ OthersStay(t)
  BY GotoMoves, TypesAre DEF Leave, Stands, Inv
<1>2. PICK o \in Objects : o = loc[t].curr.ptr /\ o # NoPtr
  BY <1>1, StandsOn
<1>3. /\ OpFits("leave", loc[t]) /\ loc[t] \in LocType
      /\ mem[o] = "live" /\ o \notin NodesOn(c) /\ next[o].mark
  <2>1. NodesFit("leave", loc[t], mem, next, NodesOn(c))
    BY <1>1, ThreadIs
  <2> QED
    BY <1>1, <1>2, <2>1, ThreadIs DEF NodesFit
<1>4. l.op = loc[t].op /\ l.elem = loc[t].elem /\ l.op \in {"erase"} \cup Counting
  BY <1>3 DEF LocType, OpFits
<1>5. (\A x \in Objects \ {o} : next'[x] = next[x]) /\ next'[o] = Link(o, FALSE)
  BY <1>2, TypesAre DEF Leave, Inv, ListTyped
<1> HIDE DEF l
<1>6. Elements' = Elements
  BY <1>1, <1>3, <1>5 DEF Elements, IsElement, Link
<1>7. next'[o] # Link(NoPtr, TRUE)
  BY <1>5 DEF Link
<1>8. Tracks(pc'[t], loc'[t], stable'[t], disturbed'[t], changed'[t],
             head', next', value', Elements', c)
  BY <1>1, <1>4, RemovingTracks
<1>9. Means(t)
  BY <1>1, <1>4, <1>6 DEF Means, Excused, TriesAgain, Begins, Goes, Counting
<1> QED
  BY <1>1, <1>3, <1>5, <1>6, <1>7, <1>8, <1>9, NodeTracks

LEMMA RetireTracks ==
  ASSUME NEW c \in Seq(Objects), Inv(c), Tracked(c), NEW t \in Threads, Retire(t)
  PROVE  Tracked(c)' /\ Means(t)
<1>1. pc[t] = "retire" /\ UNCHANGED <<head, next, value>> /\ Watch(t)
  BY DEF Retire
<1>2. PICK o \in Objects : o = loc[t].temp /\ mem[o] = "live" /\ o \notin NodesOn(c)
                           /\ next[o].ptr = o
  BY <1>1, ThreadIs DEF NodesFit
<1>3. (\A x \in Objects \ {o} : mem'[x] = mem[x]) /\ mem'[o] = "retired"
  BY <1>2, TypesAre DEF Retire, Inv, ListTyped
<1>4. Elements' = Elements
  BY <1>1, <1>2, <1>3 DEF Elements, IsElement
<1>5. next'[o] # Link(NoPtr, TRUE)
  BY <1>1, <1>2 DEF Link
<1>6. /\ OthersStay(t) /\ Goes(t)
      /\ Tracks(pc'[t], loc'[t], stable'[t], disturbed'[t], changed'[t],
                head', next', value', Elements', c)
  <2>1. CASE loc[t].curr.ptr = NoPtr
    <3>1. Restart(t) /\ ~Return(t)
      <4>1. Restart(t) /\ ThreadsTyped
        BY <2>1, TypesAre DEF Retire, Inv
      <4> QED
        BY <4>1, RestartMoves, ReturnMoves
    <3>2. /\ OthersStay(t) /\ loc'[t].op = loc[t].op /\ loc[t].op \in {"erase"} \cup Counting
          /\ loc[t].op = "erase" => loc'[t].elem = loc[t].elem
          /\ Tracks(pc'[t], loc'[t], stable'[t], disturbed'[t], changed'[t],
                    head', next', value', Elements', c)
      BY <1>1, <3>1, EndTracks
    <3> QED
      BY <1>1, <1>4, <3>2 DEF Goes, Counting
  <2>2. CASE loc[t].curr.ptr # NoPtr
    <3> DEFINE l == [loc[t] EXCEPT !.temp = NoPtr, !.removing = TRUE]
    <3>1. pc'[t] = "loadNext" /\ loc'[t] = l /\ OthersStay(t)
      BY <2>2, GotoMoves, TypesAre DEF Retire, Inv
    <3>2. OpFits("retire", loc[t]) /\ loc[t] \in LocType
      BY <1>1, ThreadIs
    <3>3. /\ l.op = loc[t].op /\ l.elem = loc[t].elem /\ l.removing
          /\ l.op \in {"erase"} \cup Counting
      BY <3>2 DEF LocType, OpFits
    <3> HIDE DEF l
    <3>4. Goes(t)
      BY <1>1, <1>4, <3>1, <3>3 DEF Goes, Counting
    <3> QED
      BY <1>1, <3>1, <3>3, <3>4, RemovingTracks
  <2> QED
    BY <2>1, <2>2
<1>7. Means(t)
  BY <1>1, <1>6 DEF Means, Excused, Removing
<1> QED
  BY <1>1, <1>2, <1>4, <1>5, <1>6, <1>7, NodeTracks

(* The mark takes an element away, unless the node has left the list.      *)
LEMMA MarkTracks ==
  ASSUME NEW c \in Seq(Objects), Inv(c), Tracked(c), NEW t \in Threads, Mark(t),
         NextOfCurr(t) = Link(loc[t].next.ptr, loc[t].next.mark)
  PROVE  Tracked(c)' /\ Means(t)
<1>1. /\ pc[t] = "mark" /\ pc[t] \in Stands /\ UNCHANGED <<head, value, mem>>
      /\ Watch(t) /\ Return(t)
  BY DEF Mark, Stands
<1>2. PICK o \in Objects : o = loc[t].curr.ptr /\ mem[o] \in {"live", "retired"}
  BY <1>1, StandsOn
<1>3. next \in [Objects -> LinkType]
  BY TypesAre DEF Inv, ListTyped
<1>4. /\ \A x \in Objects \ {o} : next'[x] = next[x]
      /\ next'[o].ptr = next[o].ptr /\ next'[o].mark
  BY <1>2, <1>3 DEF Mark, LinkType
<1>5. ~next[o].mark /\ next[o].ptr = loc[t].next.ptr
  <2>1. NodesFit("mark", loc[t], mem, next, NodesOn(c))
    BY <1>1, ThreadIs
  <2> QED
    BY <1>2, <2>1 DEF NodesFit, NextOfCurr, Link
<1>6. Elements' = Elements \ {o}
  BY <1>1, <1>4 DEF Elements, IsElement
<1>7. next[o].ptr # o => o \in NodesOn(c)
  BY <1>2, <1>5, StillInChain
<1>8. o \in NodesOn(c) => o \in Elements /\ mem[o] = "live"
  BY <1>5, ElementsAre, NodesOfChain
<1>9. ~doubled' => o \in Elements
  BY <1>2, <1>5, <1>7, <1>8 DEF Mark, HasLeft
<1>10. /\ OthersStay(t)
       /\ Tracks(pc'[t], loc'[t], stable'[t], disturbed'[t], changed'[t],
                 head', next', value', Elements', c)
  BY <1>1, EndTracks
<1>11. next'[o] # Link(NoPtr, TRUE) \/ (o \in NodesOn(c) /\ Elements' # Elements)
  <2>1. CASE next[o].ptr = o
    BY <1>2, <1>4, <2>1 DEF Link
  <2>2. CASE next[o].ptr # o
    BY <1>6, <1>7, <1>8, <2>2
  <2> QED
    BY <2>1, <2>2
<1>12. o \in NodesOn(c) => ListChanges
  BY <1>4, <1>5, <1>8 DEF ListChanges
<1>13. Tracked(c)'
  BY <1>1, <1>4, <1>10, <1>11, <1>12, NodeTracks
<1>14. Means(t)
  <2>1. pc'[t] = "idle" /\ loc'[t] = NoLoc
    BY <1>1, ReturnMoves, TypesAre DEF Inv
  <2>2. loc[t].op = "erase"
    BY <1>1, ThreadIs DEF OpFits
  <2>3. value[o] = loc[t].elem
    BY <1>1, <1>2 DEF Tracked, Tracks, Remembers
  <2>4. Erases(t)
    BY <1>1, <1>2, <1>6, <1>9, <2>1, <2>2, <2>3 DEF Erases
  <2> QED
    BY <1>1, <1>10, <2>1, <2>4 DEF Means, Excused, TriesAgain, Begins
<1> QED
  BY <1>13, <1>14

(* The histories do not change.                                            *)
LEMMA HistoryTracks ==
  ASSUME NEW c \in Seq(Objects), Inv(c), Tracked(c), UNCHANGED <<head, pc, loc, history>>,
         Elements' = Elements, NEW o \in Objects \ NodesOn(c),
         \A x \in Objects \ {o} : next'[x] = next[x] /\ value'[x] = value[x],
         o \in Elements => value'[o] = value[o],
         \A u \in Threads :
           /\ value'[o] = value[o] \/ Untouched(u, o)
           /\ Untouched(u, o) \/ next'[o] # Link(NoPtr, TRUE)
  PROVE  Tracked(c)'
<1> SUFFICES ASSUME NEW u \in Threads
             PROVE  Tracks(pc'[u], loc'[u], stable'[u], disturbed'[u], changed'[u],
                           head', next', value', Elements', c)
  BY DEF Tracked
<1> DEFINE N2 == next'
           V2 == value'
           E2 == Elements'
           S == stable[u]
<1>1. /\ UNCHANGED <<stable, disturbed, changed>> /\ loc[u] \in LocType /\ IsFiniteSet(S)
  BY ThreadIs, ElementsAre DEF history
<1>2. /\ \A x \in Objects \ {o} : N2[x] = next[x] /\ V2[x] = value[x]
      /\ o \in Elements \cap E2 => V2[o] = value[o]
      /\ V2[o] = value[o] \/ Untouched(u, o)
      /\ Untouched(u, o) \/ N2[o] # Link(NoPtr, TRUE)
  OBVIOUS
<1>3. Tracks(pc[u], loc[u], S, disturbed[u], changed[u], head, next, value, Elements, c)
  BY DEF Tracked
<1>4. E2 = Elements
  OBVIOUS
<1> HIDE DEF N2, V2, E2, S
<1>5. Overlooks(pc[u], loc[u], next, value, Elements, c, N2, V2, E2, c)
  BY <1>2, NodeOverlooked
<1>6. Expects(pc[u], loc[u], head, next, c, head, N2, c)
  BY <1>2, NodeExpected
<1>7. S = IF loc[u].op \in {"idle", "push"} THEN {} ELSE S \cap E2
  BY <1>3, <1>4 DEF Tracks, Remembers
<1>8. Tracks(pc[u], loc[u], S, disturbed[u], changed[u], head, N2, V2, E2, c)
  BY <1>1, <1>3, <1>4, <1>5, <1>6, <1>7, TracksStill
<1> QED
  BY <1>1, <1>8 DEF N2, V2, E2, S

LEMMA PushRetryTracks ==
  ASSUME NEW c \in Seq(Objects), Inv(c), Tracked(c), NEW t \in Threads, PushRetry(t)
  PROVE  Tracked(c)' /\ Elements' = Elements
<1>1. pc[t] = "pushCas" /\ UNCHANGED <<head, value, mem, pc, loc, history>>
  BY DEF PushRetry
<1>2. PICK o \in Objects : o = loc[t].temp /\ mem[o] = "private"
  BY <1>1, ThreadIs DEF NodesFit
<1>3. /\ \A x \in Objects \ {o} : next'[x] = next[x]
      /\ next'[o] = Link(head, FALSE) /\ o \notin NodesOn(c)
  BY <1>2, TypesAre, NodesOfChain DEF PushRetry, Inv, ListTyped
<1>4. Elements' = Elements
  BY <1>1, <1>2, <1>3 DEF Elements, IsElement
<1>5. next'[o] # Link(NoPtr, TRUE)
  BY <1>3 DEF Link
<1> QED
  BY <1>1, <1>3, <1>4, <1>5, HistoryTracks

LEMMA DestroyTracks ==
  ASSUME NEW c \in Seq(Objects), Inv(c), Tracked(c), NEW o \in Objects, Destroy(o)
  PROVE  Tracked(c)' /\ Elements' = Elements
<1>1. /\ mem[o] = "retired" /\ (\A u \in Threads : o \notin Guarded(u))
      /\ UNCHANGED <<head, pc, loc, history>>
  BY DEF Destroy
<1>2. /\ \A x \in Objects \ {o} :
           mem'[x] = mem[x] /\ next'[x] = next[x] /\ value'[x] = value[x]
      /\ mem'[o] = "free"
  BY TypesAre DEF Destroy, Inv, ListTyped
<1>3. o \notin NodesOn(c)
  BY <1>1, NodesOfChain
<1>4. Elements' = Elements /\ o \notin Elements
  BY <1>1, <1>2 DEF Elements, IsElement
<1>5. \A u \in Threads : Untouched(u, o)
  <2> TAKE u \in Threads
  <2>1. NodesFit(pc[u], loc[u], mem, next, NodesOn(c))
    BY ThreadIs
  <2> QED
    BY <1>1, <2>1 DEF Untouched, Guarded, GuardsOf, NodesFit, Has, Removes
<1> QED
  BY <1>1, <1>2, <1>3, <1>4, <1>5, HistoryTracks

LEMMA DestructTracks ==
  ASSUME NEW c \in Seq(Objects), Inv(c), Tracked(c), Destruct
  PROVE  Tracked(<< >>)' /\ Elements' = {}
<1>1. /\ \A u \in Threads : pc[u] = "idle"
      /\ UNCHANGED <<pc, loc, history>>
      /\ \A x \in Objects : mem'[x] = IF x \in Chain THEN "free" ELSE mem[x]
  BY DEF Destruct
<1>2. ASSUME NEW u \in Threads PROVE loc[u] = NoLoc /\ stable[u] = {}
  <2>1. loc[u] = NoLoc
    BY <1>1, ThreadIs DEF OpFits
  <2>2. Remembers(pc[u], loc[u], stable[u], value, Elements)
    BY DEF Tracked, Tracks
  <2> QED
    BY <2>1, <2>2, LocTyped DEF Remembers
<1>3. Elements' = {}
  <2>1. Chain = NodesOn(c) \cup {NoPtr}
    BY ChainIs DEF Inv
  <2>2. \A o \in Objects : o \notin NodesOn(c) => mem[o] # "live"
    BY <1>1 DEF Inv, NodesAccounted, Removes
  <2> QED
    BY <1>1, <2>1, <2>2 DEF Elements, IsElement
<1>4. ASSUME NEW u \in Threads
      PROVE  Tracks(pc'[u], loc'[u], stable'[u], disturbed'[u], changed'[u],
                    head', next', value', Elements', << >>)
  BY <1>1, <1>2, IdleTracks, ZenonT(60) DEF history
<1> QED
  BY <1>3, <1>4 DEF Tracked

(* The steps that change the chain.                                        *)
LEMMA PushCasTracks ==
  ASSUME NEW c \in Seq(Objects), Inv(c), Tracked(c), NEW t \in Threads, PushCas(t),
         NEW d, Pushed(c, d, loc[t].temp)
  PROVE  Tracked(d)' /\ Means(t)
<1>1. /\ pc[t] = "pushCas" /\ UNCHANGED <<next, value>> /\ Watch(t)
      /\ pc'[t] = "idle" /\ loc'[t] = NoLoc /\ OthersStay(t)
  BY ReturnMoves, TypesAre DEF PushCas, Inv
<1>2. PICK o \in Objects : /\ o = loc[t].temp /\ mem[o] = "private"
                           /\ ~next[o].mark /\ next[o].ptr # o
  <2>1. NodesFit("pushCas", loc[t], mem, next, NodesOn(c))
    BY <1>1, ThreadIs
  <2> QED
    BY <2>1 DEF NodesFit
<1>3. /\ head' = o /\ head # o
      /\ \A x \in Objects \ {o} : mem'[x] = mem[x]
      /\ mem'[o] = "live"
  BY <1>2, TypesAre DEF PushCas, Inv, ListTyped, HeadIsStill
<1>4. o \notin Elements /\ Elements' = Elements \cup {o} /\ o \notin NodesOn(c)
  BY <1>1, <1>2, <1>3, NodesOfChain DEF Elements, IsElement
<1>5. Pushed(c, d, o) /\ ListChanges
  BY <1>2, <1>3 DEF ListChanges
<1>6. ASSUME NEW u \in Threads \ {t}
      PROVE  Tracks(pc'[u], loc'[u], stable'[u], disturbed'[u], changed'[u],
                    head', next', value', Elements', d)
  <2> DEFINE p == pc[u]
             l == loc[u]
             E2 == Elements'
  <2>1. p \in Stands => l.curr.ptr \in Objects /\ l.curr.ptr # o
    BY <1>2, StandsOn
  <2>2. E2 = Elements \cup {o}
    BY <1>4
  <2> HIDE DEF p, l, E2
  <2>3. p \in Stands /\ l.curr.ptr \in NodesOn(d) =>
          l.curr.ptr \in NodesOn(c) /\ Before(d, l.curr.ptr) = Before(c, l.curr.ptr) \cup {o}
    BY <1>5, <2>1 DEF Pushed
  <2>4. NodesOn(c) \subseteq NodesOn(d)
    BY <1>5 DEF Pushed
  <2>5. Overlooks(p, l, next, value, Elements, c, next, value, E2, d)
    BY <1>4, <2>2, <2>3, <2>4 DEF Overlooks, Stands
  <2> QED
    BY <1>1, <1>5, <2>5, OtherTracks DEF p, l, E2
<1>7. stable'[t] = {}
  BY <1>1, LocTyped, ActorRemembers
<1>8. Tracks(pc'[t], loc'[t], stable'[t], disturbed'[t], changed'[t],
             head', next', value', Elements', d)
  BY <1>1, <1>7, IdleTracks
<1>9. Tracked(d)'
  BY <1>6, <1>8 DEF Tracked
<1>10. value[o] = loc[t].elem
  BY <1>1, <1>2 DEF Tracked, Tracks, Remembers
<1>11. Adds(t)
  <2>1. loc[t].op = "push"
    BY <1>1, ThreadIs DEF OpFits
  <2> QED
    BY <1>1, <1>2, <1>4, <1>10, <2>1 DEF Adds
<1>12. Means(t)
  BY <1>1, <1>11 DEF Means, Excused, TriesAgain, Begins
<1> QED
  BY <1>9, <1>12

ElementsOn(d) ==
  Elements \subseteq NodesOn(d) /\ \A o \in NodesOn(d) : o \in Elements <=> ~next[o].mark

LEMMA ElementsAfter ==
  ASSUME NEW d \in Seq(Objects)
  PROVE  Inv(d)' => ElementsOn(d)'
<1>1. Inv(d) => ElementsOn(d)
  BY ElementsAre DEF ElementsOn
<1> QED
  BY <1>1, PTL

LEMMA UnlinkTracks ==
  ASSUME NEW c \in Seq(Objects), Inv(c), Tracked(c), NEW t \in Threads, Unlink(t),
         PointsTo(LinkBefore(t), loc[t].curr.ptr), NEW o \in NodesOn(c), next[o].mark,
         NEW d \in Seq(Objects), Inv(d)', Removed(c, d, o), ListChanges,
         \A x \in Objects : next'[x] = next[x] \/ (~next[x].mark /\ ~next'[x].mark)
  PROVE  Tracked(d)' /\ Means(t)
<1>1. /\ pc[t] = "unlink" /\ UNCHANGED <<value, mem>> /\ Watch(t)
      /\ pc'[t] = "leave" /\ loc'[t] = loc[t] /\ OthersStay(t)
  BY GotoMoves, TypesAre DEF Unlink, Inv
<1>2. /\ NodesOn(d) = NodesOn(c) \ {o} /\ NodesOn(c) \subseteq Objects
      /\ \A x \in NodesOn(d) : Before(d, x) = Before(c, x) \ {o}
      /\ o \notin Elements /\ Elements \subseteq NodesOn(c)
  BY ElementsAre DEF Removed
<1>3. Elements' = Elements
  <2>1. Elements' \subseteq NodesOn(d)
        /\ \A x \in NodesOn(d) : x \in Elements' <=> ~next'[x].mark
    BY ElementsAfter DEF ElementsOn
  <2>2. \A x \in NodesOn(d) : x \in Elements <=> ~next[x].mark
    BY <1>2, ElementsAre
  <2> QED
    BY <1>2, <2>1, <2>2
<1>4. ASSUME NEW u \in Threads \ {t}
      PROVE  Tracks(pc'[u], loc'[u], stable'[u], disturbed'[u], changed'[u],
                    head', next', value', Elements', d)
  <2> DEFINE p == pc[u]
             l == loc[u]
             E2 == Elements'
             V2 == value'
             N2 == next'
  <2>1. p \in Stands => l.curr.ptr \in Objects
    BY StandsOn
  <2>2. E2 = Elements /\ V2 = value
    BY <1>1, <1>3
  <2>3. \A x \in Objects : N2[x] = Link(NoPtr, TRUE) => next[x] = Link(NoPtr, TRUE)
    BY DEF Link
  <2>4. o \in NodesOn(c) /\ next[o] = Link(NoPtr, TRUE) => Elements \subseteq Before(c, o)
    <3>1. next[o].ptr = NoPtr => NodesOn(c) = Before(c, o) \cup {o}
      BY BeforeAlong DEF Inv, Chained
    <3> QED
      BY <1>2, <3>1 DEF Link
  <2> HIDE DEF p, l, E2, V2, N2
  <2>5. l.curr.ptr \in NodesOn(d) =>
          /\ l.curr.ptr \in NodesOn(c)
          /\ Before(d, l.curr.ptr) \subseteq Before(c, l.curr.ptr)
          /\ Before(c, l.curr.ptr) \subseteq Elements =>
               Before(d, l.curr.ptr) = Before(c, l.curr.ptr)
    BY <1>2, ZenonT(60)
  <2>6. l.curr.ptr \in NodesOn(c) /\ l.curr.ptr \notin NodesOn(d) => l.curr.ptr = o
    BY <1>2
  <2>7. p \in Stands /\ N2[l.curr.ptr] = Link(NoPtr, TRUE) =>
          next[l.curr.ptr] = Link(NoPtr, TRUE)
    BY <2>1, <2>3
  <2>8. Overlooks(p, l, next, value, Elements, c, N2, V2, E2, d)
    BY <2>2, <2>4, <2>5, <2>6, <2>7 DEF Overlooks, Stands
  <2> QED
    BY <1>1, <2>8, OtherTracks DEF p, l, E2, V2, N2
<1>5. loc[t].op \in {"erase"} \cup Counting
  <2>1. OpFits("unlink", loc[t]) /\ loc[t] \in LocType
    BY <1>1, ThreadIs
  <2> QED
    BY <2>1 DEF OpFits, LocType
<1>6. Tracks(pc'[t], loc'[t], stable'[t], disturbed'[t], changed'[t],
             head', next', value', Elements', d)
  BY <1>1, <1>5, RemovingTracks
<1>7. Tracked(d)'
  BY <1>4, <1>6 DEF Tracked
<1>8. Means(t)
  BY <1>1, <1>3, <1>5 DEF Means, Excused, TriesAgain, Begins, Goes, Counting
<1> QED
  BY <1>7, <1>8

LEMMA RetryUnlinkTracks ==
  ASSUME NEW c \in Seq(Objects), Inv(c), Tracked(c), NEW t \in Threads, Unlink(t),
         ~PointsTo(LinkBefore(t), loc[t].curr.ptr)
  PROVE  Tracked(c)' /\ Means(t)
<1>1. pc[t] = "unlink" /\ Restart(t) /\ UNCHANGED listVars /\ Watch(t)
  BY DEF Unlink, listVars
<1>2. loc[t].op \in {"erase", "size"}
  <2>1. OpFits("unlink", loc[t]) /\ loc[t] \in LocType
    BY <1>1, ThreadIs
  <2> QED
    BY <2>1 DEF OpFits, LocType, Counting
<1>3. changed[t] \/ loc[t].removing
  <2>1. ~changed[t] => Alone("unlink", loc[t], head, next, c)
    BY <1>1, <1>2, ActorRemembers
  <2> QED
    BY <2>1 DEF Alone, PointsTo, LinkBefore, Link
<1> QED
  BY <1>1, <1>3, QuietEndTracks DEF Removing

------------------------------------------------------------------------------
(* The invariant of the list, with its history.                            *)
HInv == \E c \in Seq(Objects) : Inv(c) /\ Tracked(c)

(* What does not go on with an operation: another attempt to push, or the  *)
(* end of a retired node.                                                  *)
Silent ==
  /\ UNCHANGED <<pc, loc, history>> /\ Elements' = Elements
  /\ \A o \in Elements : value'[o] = value[o]

Calls(t) ==
  \/ (\E v \in Erased : CallErase(t, v)) \/ Walks(t)
  \/ \E v \in Values, o \in Objects : CallPush(t, o, v)

StepMeans ==
  \/ Silent
  \/ Destruct /\ Elements' = {}
  \/ \E t \in Threads : Means(t) \/ (Calls(t) /\ Elements' = Elements)

LEMMA ContinueMeans ==
  ASSUME NEW c \in Seq(Objects), Inv(c), Tracked(c), TypeOK', NEW t \in Threads,
         Continue(t), ~PushRetry(t)
  PROVE  (\E d \in Seq(Objects) : Inv(d)' /\ Tracked(d)') /\ Means(t)
<1>1. ASSUME PushCas(t)
      PROVE  (\E d \in Seq(Objects) : Inv(d)' /\ Tracked(d)') /\ Means(t)
  <2>1. PICK d \in Seq(Objects) : Inv(d)' /\ Pushed(c, d, loc[t].temp)
    BY <1>1, PushCasStep
  <2>2. Tracked(d)' /\ Means(t)
    BY <1>1, <2>1, PushCasTracks
  <2> QED
    BY <2>1, <2>2
<1>2. ASSUME Unlink(t)
      PROVE  (\E d \in Seq(Objects) : Inv(d)' /\ Tracked(d)') /\ Means(t)
  <2>1. CASE PointsTo(LinkBefore(t), loc[t].curr.ptr)
    <3> DEFINE o == loc[t].curr.ptr
    <3>1. /\ \E d \in Seq(Objects) : Inv(d)' /\ Removed(c, d, o)
          /\ o \in NodesOn(c) /\ next[o].mark
          /\ \A x \in Objects : next'[x] = next[x] \/ (~next[x].mark /\ ~next'[x].mark)
          /\ ListChanges
      BY <1>2, <2>1, UnlinkStep
    <3>2. PICK d \in Seq(Objects) : Inv(d)' /\ Removed(c, d, o)
      BY <3>1
    <3>3. Tracked(d)' /\ Means(t)
      <4> HIDE DEF o
      <4> QED
        BY <1>2, <2>1, <3>1, <3>2, UnlinkTracks
    <3> QED
      BY <3>2, <3>3
  <2>2. CASE ~PointsTo(LinkBefore(t), loc[t].curr.ptr)
    <3>1. /\ pc[t] \notin {"idle", "pushCas", "leave", "retire"}
          /\ Restart(t) /\ UNCHANGED listVars
      BY <1>2, <2>2 DEF Unlink, listVars
    <3> QED
      BY <1>2, <2>2, <3>1, RestartStep, RetryUnlinkTracks
  <2> QED
    BY <2>1, <2>2
<1>3. ASSUME LoadHead(t) PROVE Inv(c)' /\ Tracked(c)' /\ Means(t)
  BY <1>3, LoadHeadStep, LoadHeadTracks DEF LoadHead
<1>4. ASSUME Mark(t) PROVE Inv(c)' /\ Tracked(c)' /\ Means(t)
  BY <1>4, MarkStep, MarkTracks, RetryMarkTracks
<1>5. ASSUME Start(t) \/ CheckHead(t) PROVE Inv(c)' /\ Tracked(c)' /\ Means(t)
  BY <1>5, StartStep, StartTracks, CheckHeadStep, CheckHeadTracks
<1>6. ASSUME LoadNext(t) \/ CheckNext(t) PROVE Inv(c)' /\ Tracked(c)' /\ Means(t)
  BY <1>6, LoadNextStep, NextTracks
<1>7. ASSUME Leave(t) \/ Retire(t) PROVE Inv(c)' /\ Tracked(c)' /\ Means(t)
  BY <1>7, LeaveStep, LeaveTracks, RetireStep, RetireTracks
<1> QED
  BY <1>1, <1>2, <1>3, <1>4, <1>5, <1>6, <1>7 DEF Continue

LEMMA SilentSteps ==
  ASSUME NEW c \in Seq(Objects), Inv(c), Tracked(c), TypeOK',
         \/ \E t \in Threads : PushRetry(t)
         \/ \E o \in Objects : Destroy(o)
         \/ UNCHANGED vars
  PROVE  Inv(c)' /\ Tracked(c)' /\ Silent
<1>1. ASSUME NEW t \in Threads, PushRetry(t) PROVE Inv(c)' /\ Tracked(c)' /\ Silent
  BY <1>1, PushRetryStep, PushRetryTracks DEF PushRetry, Silent
<1>2. ASSUME NEW o \in Objects, Destroy(o) PROVE Inv(c)' /\ Tracked(c)' /\ Silent
  <2>1. Inv(c)' /\ Tracked(c)' /\ Elements' = Elements
    BY <1>2, DestroyStep, DestroyTracks
  <2>2. \A x \in Elements : value'[x] = value[x]
    BY <1>2 DEF Destroy, Elements, IsElement, Inv, TypeOK
  <2>3. UNCHANGED <<pc, loc, history>>
    BY <1>2 DEF Destroy
  <2> QED
    BY <2>1, <2>2, <2>3 DEF Silent
<1>3. CASE UNCHANGED vars
  <2>1. Inv(c)'
    BY <1>3
       DEF vars, listVars, Inv, Chained, FitsIn, Owns, NodesAccounted, IterationsFit,
           Iterates, IsElement
  <2>2. Elements' = Elements
    BY <1>3 DEF vars, listVars, Elements, IsElement
  <2>3. Tracked(c)'
    BY <1>3, <2>2 DEF vars, listVars, history, Tracked
  <2> QED
    BY <1>3, <2>1, <2>2, <2>3 DEF vars, listVars, Silent
<1> QED
  BY <1>1, <1>2, <1>3

LEMMA HInvStep ==
  ASSUME NEW c \in Seq(Objects), Inv(c), Tracked(c), [Next]_vars
  PROVE  (\E d \in Seq(Objects) : Inv(d)' /\ Tracked(d)') /\ StepMeans
<1>1. TypeOK'
  BY AllStand, StepsTyped DEF Inv
<1>2. ASSUME NEW t \in Threads, Continue(t), ~PushRetry(t)
      PROVE  (\E d \in Seq(Objects) : Inv(d)' /\ Tracked(d)') /\ StepMeans
  BY <1>1, <1>2, ContinueMeans DEF StepMeans
<1>3. ASSUME \/ \E t \in Threads : PushRetry(t)
             \/ \E o \in Objects : Destroy(o)
             \/ UNCHANGED vars
      PROVE  (\E d \in Seq(Objects) : Inv(d)' /\ Tracked(d)') /\ StepMeans
  BY <1>1, <1>3, SilentSteps DEF StepMeans
<1>4. ASSUME NEW t \in Threads, (\E v \in Erased : CallErase(t, v)) \/ Walks(t)
      PROVE  Inv(c)' /\ Tracked(c)' /\ Elements' = Elements /\ Calls(t)
  <2>1. Inv(c)' /\ Tracked(c)'
    BY <1>1, <1>4, CallEraseStep, WalksStep, CallTracks
  <2>2. UNCHANGED listVars
    BY <1>4 DEF CallErase, Walks, CallSize, CallIterate, Walk
  <2> QED
    BY <1>4, <2>1, <2>2, ElementsStay DEF Calls, listVars
<1>5. ASSUME NEW t \in Threads, \E v \in Values, o \in Objects : CallPush(t, o, v)
      PROVE  Inv(c)' /\ Tracked(c)' /\ Elements' = Elements /\ Calls(t)
  <2>1. PICK v \in Values, o \in Objects : CallPush(t, o, v)
    BY <1>5
  <2>2. Inv(c)' /\ Tracked(c)' /\ Elements' = Elements
    BY <1>1, <2>1, CallPushStep, CallPushTracks
  <2> QED
    BY <1>5, <2>2 DEF Calls
<1>6. ASSUME NEW t \in Threads, Calls(t)
      PROVE  (\E d \in Seq(Objects) : Inv(d)' /\ Tracked(d)') /\ StepMeans
  BY <1>4, <1>5, <1>6 DEF StepMeans, Calls
<1>7. ASSUME Destruct
      PROVE  (\E d \in Seq(Objects) : Inv(d)' /\ Tracked(d)') /\ StepMeans
  BY <1>1, <1>7, DestructStep, DestructTracks, NothingLinked DEF StepMeans
<1> QED
  BY <1>2, <1>3, <1>6, <1>7 DEF Next, Calls

LEMMA HInvHolds == Spec => []HInv
<1>1. Init => HInv
  BY InvInit, TracksInit, NothingLinked DEF HInv
<1>2. HInv /\ [Next]_vars => HInv'
  BY HInvStep DEF HInv
<1> QED
  BY <1>1, <1>2, PTL DEF Spec

(* What a call means.                                                      *)
LEMMA CallMeans ==
  ASSUME NEW c \in Seq(Objects), Inv(c), Tracked(c), NEW t \in Threads, Calls(t),
         Elements' = Elements
  PROVE  /\ pc[t] = "idle" /\ loc[t].op = "idle" /\ OthersStay(t) /\ Watch(t)
         /\ \A o \in Elements : value'[o] = value[o]
         /\ \E op \in {"push", "erase"} \cup Counting, v \in Values :
              /\ loc'[t].op = op /\ (op \in {"push", "erase"} => loc'[t].elem = v)
              /\ stable'[t] = IF op = "push" THEN {}
                              ELSE {o \in Elements : op # "erase" \/ value[o] = v}
<1>1. ThreadsTyped /\ ListTyped /\ OpFits(pc[t], loc[t]) /\ loc[t] \in LocType
  BY TypesAre, ThreadIs DEF Inv
<1>2. ASSUME NEW v \in Values, NEW o \in Objects, CallPush(t, o, v)
      PROVE  /\ pc[t] = "idle" /\ loc[t].op = "idle" /\ OthersStay(t) /\ Watch(t)
             /\ \A x \in Elements : value'[x] = value[x]
             /\ loc'[t].op = "push" /\ loc'[t].elem = v /\ stable'[t] = {}
  <2>1. /\ pc[t] = "idle" /\ OthersStay(t) /\ Watch(t)
        /\ loc'[t] = [NoLoc EXCEPT !.op = "push", !.elem = v, !.temp = o]
    BY <1>1, <1>2, GotoMoves DEF CallPush
  <2>2. loc[t].op = "idle"
    BY <1>1, <2>1, LocTyped DEF OpFits, NoLoc
  <2>3. loc'[t].op = "push" /\ loc'[t].elem = v
    BY <2>1, LocTyped DEF LocType
  <2>4. \A x \in Elements : value'[x] = value[x]
    BY <1>1, <1>2 DEF CallPush, Elements, IsElement, ListTyped
  <2> QED
    BY <2>1, <2>2, <2>3, <2>4 DEF Watch
<1>3. ASSUME NEW op \in {"erase"} \cup Counting, NEW v \in Values,
             pc[t] = "idle", loc'[t].op = op, op = "erase" => loc'[t].elem = v,
             UNCHANGED listVars, Watch(t)
      PROVE  /\ loc[t].op = "idle"
             /\ \A x \in Elements : value'[x] = value[x]
             /\ stable'[t] = {o \in Elements : op # "erase" \/ value[o] = v}
  <2>1. loc[t].op = "idle"
    BY <1>1, <1>3, LocTyped DEF OpFits, NoLoc
  <2>2. stable'[t] = Sought(t)'
    BY <1>3, <2>1 DEF Watch, Counting
  <2>3. value' = value
    BY <1>3 DEF listVars
  <2>4. Sought(t)' = {o \in Elements : op # "erase" \/ value[o] = v}
    BY <1>3, <2>3 DEF Sought
  <2> QED
    BY <2>1, <2>2, <2>3, <2>4
<1>4. ASSUME NEW v \in Erased, CallErase(t, v)
      PROVE  /\ pc[t] = "idle" /\ OthersStay(t) /\ Watch(t) /\ UNCHANGED listVars
             /\ loc'[t].op = "erase" /\ loc'[t].elem = v /\ v \in Values
  <2>1. loc'[t] = [NoLoc EXCEPT !.op = "erase", !.elem = v] /\ OthersStay(t)
    BY <1>1, <1>4, GotoMoves DEF CallErase
  <2> QED
    BY <1>4, <2>1, LocTyped, ValuesAssumption DEF CallErase, LocType
<1>5. ASSUME NEW op \in Counting, Walk(t, op)
      PROVE  /\ pc[t] = "idle" /\ OthersStay(t) /\ Watch(t) /\ UNCHANGED listVars
             /\ loc'[t].op = op
  <2>1. loc'[t] = [NoLoc EXCEPT !.op = op] /\ OthersStay(t)
    BY <1>1, <1>5, GotoMoves DEF Walk
  <2> QED
    BY <1>5, <2>1, LocTyped DEF Walk, LocType
<1>6. CASE \E v \in Values, o \in Objects : CallPush(t, o, v)
  BY <1>2, <1>6
<1>7. CASE \E v \in Erased : CallErase(t, v)
  <2>1. PICK v \in Erased : CallErase(t, v)
    BY <1>7
  <2>2. /\ loc[t].op = "idle" /\ \A x \in Elements : value'[x] = value[x]
        /\ stable'[t] = {o \in Elements : "erase" # "erase" \/ value[o] = v}
    BY <1>3, <1>4, <2>1
  <2>3. /\ pc[t] = "idle" /\ OthersStay(t) /\ Watch(t)
        /\ loc'[t].op = "erase" /\ loc'[t].elem = v /\ v \in Values
    BY <1>4, <2>1
  <2> QED
    BY <2>2, <2>3
<1>8. CASE Walks(t)
  <2>1. PICK op \in Counting : Walk(t, op)
    BY <1>8 DEF Walks, CallSize, CallIterate, Counting
  <2>2. op # "erase" /\ op # "push"
    BY DEF Counting
  <2>3. PICK v \in Values : TRUE
    BY ValuesAssumption
  <2>4. /\ pc[t] = "idle" /\ OthersStay(t) /\ Watch(t) /\ UNCHANGED listVars
        /\ loc'[t].op = op
    BY <1>5, <2>1
  <2>5. /\ loc[t].op = "idle" /\ \A x \in Elements : value'[x] = value[x]
        /\ stable'[t] = {o \in Elements : op # "erase" \/ value[o] = v}
    BY <1>3, <2>2, <2>4
  <2> QED
    BY <2>2, <2>4, <2>5
<1> QED
  BY <1>6, <1>7, <1>8 DEF Calls

(* The list is lock-free, with any threads, nodes and values: no thread    *)
(* starts again or tries again to mark without a change that others have   *)
(* made in its attempt, or a node that it has taken out itself.            *)
THEOREM ListIsLockFree == Spec => RetriesAreExcused
<1>1. ASSUME HInv, [Next]_vars
      PROVE  \A t \in Threads : TriesAgain(t) => changed[t] \/ Removing(t)
  <2> SUFFICES ASSUME NEW t \in Threads, TriesAgain(t) PROVE changed[t] \/ Removing(t)
    OBVIOUS
  <2>1. PICK c \in Seq(Objects) : Inv(c) /\ Tracked(c)
    BY <1>1 DEF HInv
  <2>2. pc'[t] # pc[t] /\ pc[t] # "idle"
    BY DEF TriesAgain, Begins
  <2>3. ASSUME NEW u \in Threads, Means(u) PROVE changed[t] \/ Removing(t)
    BY <2>2, <2>3 DEF Means, Excused, OthersStay
  <2>4. ASSUME NEW u \in Threads, Calls(u), Elements' = Elements PROVE FALSE
    BY <2>1, <2>2, <2>4, CallMeans DEF OthersStay
  <2>5. ~Silent /\ ~Destruct
    BY <2>2 DEF Silent, Destruct
  <2>6. StepMeans
    BY <1>1, <2>1, HInvStep
  <2> QED
    BY <2>3, <2>4, <2>5, <2>6 DEF StepMeans
<1> QED
  BY <1>1, HInvHolds, PTL DEF Spec, RetriesAreExcused

(* With any threads, nodes and values, size counts and an iteration visits *)
(* what is there all the time, and nothing else if nothing comes or goes.  *)
THEOREM ListIsCounted == Spec => SizeIsRight
<1>1. ASSUME HInv, [Next]_vars
      PROVE  \A t \in Threads : SizeReturns(t) =>
               /\ Result(t) >= Cardinality(stable[t])
               /\ ~disturbed[t] => Result(t) = Cardinality(stable[t])
  <2> SUFFICES ASSUME NEW t \in Threads, SizeReturns(t) PROVE CountsRight(t)
    BY DEF CountsRight
  <2>1. PICK c \in Seq(Objects) : Inv(c) /\ Tracked(c)
    BY <1>1 DEF HInv
  <2>2. loc[t].op \in Counting /\ loc'[t].op # loc[t].op
    BY DEF SizeReturns, Counting
  <2>3. ASSUME NEW u \in Threads, Means(u) PROVE CountsRight(t)
    BY <2>2, <2>3 DEF Means, OthersStay, Goes, Finishes, Erases, Adds, Counting
  <2>4. ASSUME NEW u \in Threads, Calls(u), Elements' = Elements PROVE FALSE
    BY <2>1, <2>2, <2>4, CallMeans DEF OthersStay, Counting
  <2>5. ~Silent /\ ~Destruct
    BY <2>2 DEF Silent, Destruct
  <2>6. StepMeans
    BY <1>1, <2>1, HInvStep
  <2> QED
    BY <2>3, <2>4, <2>5, <2>6 DEF StepMeans
<1> QED
  BY <1>1, HInvHolds, PTL DEF Spec, SizeIsRight

------------------------------------------------------------------------------
(* The abstract list: its elements, and the operations under way.          *)
Items == [o \in Elements |-> value[o]]
CallOf(l) == IF l.op \in {"idle"} \cup Counting THEN <<l.op>> ELSE <<l.op, l.elem>>
Calling == [t \in Threads |-> CallOf(loc[t])]

LEMMA CallOfIs ==
  ASSUME NEW l
  PROVE  /\ l.op \in {"idle"} \cup Counting => CallOf(l) = <<l.op>>
         /\ l.op \in {"push", "erase"} => CallOf(l) = <<l.op, l.elem>>
BY DEF CallOf, Counting

LEMMA ItemsStay ==
  ASSUME Elements' = Elements, \A o \in Elements : value'[o] = value[o]
  PROVE  Items' = Items
BY DEF Items

LEMMA CallingIs ==
  ASSUME NEW t \in Threads, OthersStay(t)
  PROVE  Calling' = [Calling EXCEPT ![t] = CallOf(loc'[t])]
<1>1. \A u \in Threads : Calling'[u] = CallOf(loc'[u]) /\ Calling[u] = CallOf(loc[u])
  BY DEF Calling, CallOf
<1>2. \A u \in Threads \ {t} : loc'[u] = loc[u]
  BY DEF OthersStay
<1> QED
  BY <1>1, <1>2 DEF Calling, CallOf

(* What the threads look for, after a step of one of them.                 *)
LEMMA StableIs ==
  ASSUME NEW c \in Seq(Objects), Inv(c), Tracked(c), NEW t \in Threads,
         OthersStay(t), Watch(t)
  PROVE  /\ stable \in [Threads -> SUBSET Objects] /\ stable' \in [Threads -> SUBSET Elements']
         /\ \A u \in Threads : stable[u] \subseteq Elements
         /\ \A u \in Threads \ {t} : stable'[u] = stable[u] \cap Elements'
         /\ loc[t].op \in {"idle", "push"} => stable[t] = {}
         /\ loc'[t].op \in {"idle", "push"} => stable'[t] = {}
         /\ loc[t].op = loc'[t].op => stable'[t] = stable[t] \cap Elements'
<1>1. \A u \in Threads : Remembers(pc[u], loc[u], stable[u], value, Elements)
  BY DEF Tracked, Tracks
<1>2. stable \in [Threads -> SUBSET Objects]
  BY DEF Inv, TypeOK
<1>3. \A u \in Threads :
        /\ stable[u] \subseteq Elements
        /\ loc[u].op \in {"idle", "push"} => stable[u] = {}
  BY <1>1 DEF Remembers
<1>4. \A u \in Threads :
        stable'[u] = IF loc'[u].op \in {"idle", "push"} THEN {}
                     ELSE IF loc[u].op = "idle" THEN Sought(u)' ELSE stable[u] \cap Elements'
  BY DEF Watch
<1>5. \A u \in Threads : Sought(u)' \subseteq Elements'
  BY DEF Sought
<1>6. stable' \in [Threads -> SUBSET Elements']
  <2> DEFINE S(u) == IF loc'[u].op \in {"idle", "push"} THEN {}
                     ELSE IF loc[u].op = "idle" THEN Sought(u)' ELSE stable[u] \cap Elements'
  <2>1. \A u \in Threads : S(u) \in SUBSET Elements'
    BY <1>5
  <2>2. stable' = [u \in Threads |-> S(u)]
    BY DEF Watch
  <2> HIDE DEF S
  <2> QED
    BY <2>1, <2>2
<1>7. \A u \in Threads : loc'[u].op = loc[u].op => stable'[u] = stable[u] \cap Elements'
  BY <1>3, <1>4
<1> QED
  BY <1>2, <1>3, <1>4, <1>6, <1>7 DEF OthersStay

LEMMA StableStays ==
  ASSUME NEW c \in Seq(Objects), Inv(c), Tracked(c), NEW t \in Threads,
         OthersStay(t), Watch(t), Elements \subseteq Elements'
  PROVE  stable' = [stable EXCEPT ![t] = stable'[t]]
<1>1. \A u \in Threads \ {t} : stable'[u] = stable[u]
  BY StableIs
<1> QED
  BY <1>1, StableIs

LEMMA ListGoes ==
  ASSUME NEW c \in Seq(Objects), Inv(c), Tracked(c), NEW t \in Threads,
         OthersStay(t), Watch(t), Goes(t)
  PROVE  UNCHANGED List!vars
<1>1. loc[t].op \in {"push", "erase"} \cup Counting
  BY ThreadIs DEF Inv, LocType, Goes
<1>2. CallOf(loc'[t]) = CallOf(loc[t])
  BY <1>1 DEF Goes, CallOf, Counting
<1>3. Calling' = Calling
  BY <1>2, CallingIs DEF Calling
<1>4. Items' = Items
  BY ItemsStay DEF Goes
<1>5. stable' = stable
  <2>1. stable'[t] = stable[t]
    BY StableIs, ZenonT(60) DEF Goes
  <2> QED
    BY <2>1, StableIs, StableStays DEF Goes
<1> QED
  BY <1>3, <1>4, <1>5 DEF List!vars, Items, Calling, CallOf

LEMMA ListFinishes ==
  ASSUME NEW c \in Seq(Objects), Inv(c), Tracked(c), NEW t \in Threads,
         OthersStay(t), Watch(t), Finishes(t)
  PROVE  List!NotFound(t) \/ List!Counted(t)
<1>1. loc'[t].op = "idle" /\ CallOf(loc'[t]) = <<"idle">>
  BY LocTyped, CallOfIs DEF Finishes
<1>2. Calling' = [Calling EXCEPT ![t] = <<"idle">>]
  BY <1>1, CallingIs
<1>3. Items' = Items
  BY ItemsStay DEF Finishes
<1>4. stable' = [stable EXCEPT ![t] = {}]
  BY <1>1, StableIs, StableStays DEF Finishes
<1>5. Calling[t] = CallOf(loc[t])
  BY DEF Calling
<1>6. CASE loc[t].op = "erase"
  <2>1. Calling[t][1] = "erase"
    BY <1>5, <1>6, CallOfIs
  <2>2. stable' = stable /\ stable[t] = {}
    BY <1>4, <1>6, StableIs DEF Finishes
  <2> QED
    BY <1>2, <1>3, <2>1, <2>2 DEF List!NotFound, List!Return, List!Idle, Items, Calling, CallOf
<1>7. CASE loc[t].op \in Counting
  <2>1. Calling[t][1] \in {"size", "iterate"}
    BY <1>5, <1>7, CallOfIs DEF Counting
  <2> QED
    BY <1>2, <1>3, <1>4, <2>1 DEF List!Counted, List!Return, List!Idle, Items, Calling, CallOf
<1> QED
  BY <1>6, <1>7 DEF Finishes

LEMMA ListErases ==
  ASSUME NEW c \in Seq(Objects), Inv(c), Tracked(c), NEW t \in Threads,
         OthersStay(t), Watch(t), Erases(t), ~doubled'
  PROVE  \E o \in Objects : List!Erase(t, o)
<1>1. PICK o \in Objects : o = loc[t].curr.ptr
  BY DEF Erases, Elements
<1>2. loc'[t].op = "idle" /\ CallOf(loc'[t]) = <<"idle">>
  BY LocTyped, CallOfIs DEF Erases
<1>3. Calling' = [Calling EXCEPT ![t] = <<"idle">>]
  BY <1>2, CallingIs
<1>4. Calling[t] = <<"erase", loc[t].elem>>
  BY CallOfIs DEF Calling, Erases
<1>5. /\ o \in Elements /\ value[o] = loc[t].elem /\ Elements' = Elements \ {o}
      /\ UNCHANGED value
  BY <1>1 DEF Erases
<1>6. /\ DOMAIN Items = Elements /\ Items[o] = loc[t].elem
      /\ Items' = [x \in DOMAIN Items \ {o} |-> Items[x]]
  BY <1>5 DEF Items
<1>7. stable' = [u \in Threads |-> IF u = t THEN {} ELSE stable[u] \ {o}]
  <2>1. stable'[t] = {} /\ \A u \in Threads \ {t} : stable'[u] = stable[u] \ {o}
    BY <1>2, <1>5, StableIs
  <2> QED
    BY <2>1, StableIs
<1>8. List!Erase(t, o)
  BY <1>3, <1>4, <1>5, <1>6, <1>7 DEF List!Erase, List!Return, List!Idle, Items, Calling, CallOf
<1> QED
  BY <1>1, <1>8

LEMMA ListAdds ==
  ASSUME NEW c \in Seq(Objects), Inv(c), Tracked(c), NEW t \in Threads,
         OthersStay(t), Watch(t), Adds(t)
  PROVE  \E o \in Objects : List!Push(t, o)
<1>1. PICK o \in Objects : o = loc[t].temp
  BY DEF Adds
<1>2. loc'[t].op = "idle" /\ CallOf(loc'[t]) = <<"idle">>
  BY LocTyped, CallOfIs DEF Adds
<1>3. Calling' = [Calling EXCEPT ![t] = <<"idle">>]
  BY <1>2, CallingIs
<1>4. Calling[t] = <<"push", loc[t].elem>>
  BY CallOfIs DEF Calling, Adds
<1>5. /\ o \in Objects \ Elements /\ value[o] = loc[t].elem /\ Elements' = Elements \cup {o}
      /\ UNCHANGED value
  BY <1>1 DEF Adds
<1>6. /\ DOMAIN Items = Elements
      /\ Items' = [x \in DOMAIN Items \cup {o} |-> IF x = o THEN Calling[t][2] ELSE Items[x]]
  BY <1>4, <1>5 DEF Items
<1>7. stable' = stable
  <2>1. stable'[t] = stable[t]
    BY <1>2, StableIs DEF Adds
  <2> QED
    BY <1>5, <2>1, StableIs, StableStays
<1>8. List!Push(t, o)
  BY <1>3, <1>4, <1>5, <1>6, <1>7 DEF List!Push, List!Return, List!Idle, Items, Calling, CallOf
<1> QED
  BY <1>8

LEMMA ListCalls ==
  ASSUME NEW c \in Seq(Objects), Inv(c), Tracked(c), NEW t \in Threads, Calls(t),
         Elements' = Elements
  PROVE  \E k \in List!Calls : List!Call(t, k)
<1>1. /\ loc[t].op = "idle" /\ OthersStay(t) /\ Watch(t)
      /\ \A o \in Elements : value'[o] = value[o]
  BY CallMeans
<1>2. PICK op \in {"push", "erase"} \cup Counting, v \in Values :
        /\ loc'[t].op = op /\ (op \in {"push", "erase"} => loc'[t].elem = v)
        /\ stable'[t] = IF op = "push" THEN {}
                        ELSE {o \in Elements : op # "erase" \/ value[o] = v}
  BY CallMeans
<1> DEFINE k == IF op \in Counting THEN <<op>> ELSE <<op, v>>
<1>3. CallOf(loc'[t]) = k
  BY <1>2, CallOfIs DEF Counting
<1>4. Calling' = [Calling EXCEPT ![t] = k]
  BY <1>1, <1>3, CallingIs
<1>5. Calling[t] = <<"idle">>
  BY <1>1, CallOfIs DEF Calling
<1>6. Items' = Items
  BY <1>1, ItemsStay
<1>7. stable' = [stable EXCEPT ![t] = stable'[t]]
  BY <1>1, StableStays
<1>8. k \in List!Calls /\ k[1] = op /\ (op = "erase" => k[2] = v)
  BY DEF List!Calls, Counting
<1>9. stable'[t] = List!LookedFor(k)
  <2>1. List!LookedFor(k) =
          {e \in Elements : k[1] \in {"size", "iterate"} \/ (k[1] = "erase" /\ value[e] = k[2])}
    <3> HIDE DEF k
    <3> QED
      BY DEF List!LookedFor
  <2>2. CASE op = "push"
    BY <1>2, <1>8, <2>1, <2>2
  <2>3. CASE op = "erase"
    <3> HIDE DEF k
    <3> QED
      BY <1>2, <1>8, <2>1, <2>3
  <2>4. CASE op \in Counting
    BY <1>2, <1>8, <2>1, <2>4 DEF Counting
  <2> QED
    BY <2>2, <2>3, <2>4
<1> HIDE DEF k
<1>10. List!Call(t, k)
  BY <1>4, <1>5, <1>6, <1>7, <1>9 DEF List!Call, List!Idle, Items, Calling, CallOf
<1> QED
  BY <1>8, <1>10

(* For any threads, nodes and values, every step of the list is one of the *)
(* abstract list or leaves it as it is, until an erase has marked a node   *)
(* that had left the list.                                                 *)
THEOREM ListImplements == Spec => ImplementsListUntilDoubled
<1>1. ASSUME Init PROVE List!Init
  <2>1. Elements = {}
    BY <1>1 DEF Init, Elements, IsElement
  <2>2. Items = [e \in {} |-> <<"idle">>]
    BY <2>1 DEF Items
  <2>3. Calling = [t \in Threads |-> <<"idle">>]
    <3>1. \A t \in Threads : CallOf(loc[t]) = <<"idle">>
      BY <1>1, LocTyped, CallOfIs DEF Init
    <3> QED
      BY <3>1 DEF Calling
  <2>4. stable = [t \in Threads |-> {}]
    BY <1>1 DEF Init
  <2> QED
    BY <2>2, <2>3, <2>4 DEF List!Init, List!Idle, Items, Calling, CallOf
<1>2. ASSUME HInv, [Next]_vars, ~doubled' PROVE List!Next \/ UNCHANGED List!vars
  <2>1. PICK c \in Seq(Objects) : Inv(c) /\ Tracked(c)
    BY <1>2 DEF HInv
  <2>2. StepMeans
    BY <1>2, <2>1, HInvStep
  <2>3. ASSUME Silent PROVE UNCHANGED List!vars
    <3>1. Items' = Items /\ Calling' = Calling /\ stable' = stable
      BY <2>3, ItemsStay DEF Silent, Calling, CallOf, history
    <3> QED
      BY <3>1 DEF List!vars, Items, Calling, CallOf
  <2>4. ASSUME Destruct, Elements' = {} PROVE List!Clear
    <3>1. Items' = [e \in {} |-> <<"idle">>]
      BY <2>4 DEF Items
    <3>2. \A t \in Threads : Calling[t] = <<"idle">>
      <4> TAKE t \in Threads
      <4>1. OpFits(pc[t], loc[t]) /\ pc[t] = "idle"
        BY <2>1, <2>4, ThreadIs DEF Destruct
      <4>2. loc[t].op = "idle"
        BY <4>1, LocTyped DEF OpFits, NoLoc
      <4> QED
        BY <4>2, CallOfIs DEF Calling
    <3>3. Calling' = Calling /\ stable' = stable
      BY <2>4 DEF Destruct, Calling, CallOf, history
    <3> QED
      BY <3>1, <3>2, <3>3 DEF List!Clear, List!Idle, Items, Calling, CallOf
  <2>5. ASSUME NEW t \in Threads, Means(t) PROVE List!Next \/ UNCHANGED List!vars
    <3>1. OthersStay(t) /\ Watch(t)
      BY <2>5 DEF Means
    <3>2. CASE Goes(t)
      BY <2>1, <3>1, <3>2, ListGoes
    <3>3. CASE Finishes(t)
      BY <2>1, <3>1, <3>3, ListFinishes DEF List!Next
    <3>4. CASE Erases(t)
      BY <1>2, <2>1, <3>1, <3>4, ListErases DEF List!Next
    <3>5. CASE Adds(t)
      BY <2>1, <3>1, <3>5, ListAdds DEF List!Next
    <3> QED
      BY <2>5, <3>2, <3>3, <3>4, <3>5 DEF Means
  <2>6. ASSUME NEW t \in Threads, Calls(t), Elements' = Elements PROVE List!Next
    BY <2>1, <2>6, ListCalls DEF List!Next
  <2> QED
    BY <2>2, <2>3, <2>4, <2>5, <2>6 DEF StepMeans, List!Next
<1> QED
  BY <1>1, <1>2, HInvHolds, PTL DEF Spec, ImplementsListUntilDoubled
================================================================================
