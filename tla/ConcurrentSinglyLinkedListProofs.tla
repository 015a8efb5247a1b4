------------------- MODULE ConcurrentSinglyLinkedListProofs -------------------
(***************************************************************************)
(* The safety of the concurrent lists, for any threads, lists, values and  *)
(* finitely many nodes: their nodes have one owner each, walks see what    *)
(* the list was when they began, and the lists are PushList's.             *)
(*                                                                         *)
(* The invariant says that the nodes can be arranged: that there are       *)
(* sequences of nodes, one for each list and for each thread that copies   *)
(* or pushes, in which every allocated node occurs once, and which the     *)
(* next pointers follow.  What a step does to the sequences is stated for  *)
(* constants, and then carried over to the steps of the lists.             *)
(***************************************************************************)
EXTENDS MCComponents, WellFoundedInduction, FiniteSetTheorems,
        SequenceTheorems, TLAPS

(* Every set of naturals has a least element: the only form of induction   *)
(* that these proofs need.                                                 *)
LEMMA LeastElement ==
  ASSUME NEW T \in SUBSET Nat, T # {}
  PROVE  \E n \in T : \A m \in T : n <= m
<1> DEFINE R == OpToRel(<, Nat)
<1>1. IsWellFoundedOn(R, Nat)
  BY NatLessThanWellFounded
<1> HIDE DEF R
<1>2. PICK n \in T : \A m \in T : ~(<<m, n>> \in R)
  BY <1>1, WFMin
<1>3. \A m \in T : n <= m
  <2> TAKE m \in T
  <2>1. <<m, n>> \in Nat \X Nat
    OBVIOUS
  <2>2. R = {ss \in Nat \X Nat : ss[1] < ss[2]}
    BY DEF R, OpToRel
  <2>3. ~(m < n)
    BY <1>2, <2>1, <2>2
  <2> QED
    BY <2>3
<1> QED
  BY <1>3

(* Induction over the elements of a set.                                   *)
LEMMA UpTo ==
  ASSUME NEW u \in Nat, NEW S, 0 \in S,
         \A n \in 1 .. u : n - 1 \in S => n \in S
  PROVE  \A n \in 0 .. u : n \in S
<1> DEFINE T == (0 .. u) \ S
<1> SUFFICES ASSUME T # {} PROVE FALSE
  OBVIOUS
<1>1. T \in SUBSET Nat
  OBVIOUS
<1> HIDE DEF T
<1>2. PICK n \in T : \A m \in T : n <= m
  BY <1>1, LeastElement
<1>3. n \in 0 .. u /\ n \notin S /\ n # 0
  BY <1>2 DEF T
<1>4. n - 1 \in S
  BY <1>2, <1>3 DEF T
<1> QED
  BY <1>3, <1>4

------------------------------------------------------------------------------
(* ConcurrentSinglyLinkedList: chains.                                     *)

(* The node at index i + 1, or none after the last.                        *)
NodeAfter(c, i) == IF i < Len(c) THEN c[i + 1] ELSE NoPtr

(* The nodes of c follow each other, from p on.                            *)
Linked(nx, p, c) ==
  p = NodeAfter(c, 0) /\ \A i \in 1 .. Len(c) : nx[c[i]] = NodeAfter(c, i)

OneByOne(c) == \A i, j \in 1 .. Len(c) : c[i] = c[j] => i = j

LEMMA ChainFits ==
  ASSUME NEW c \in Seq(Nodes), OneByOne(c)
  PROVE  Cardinality(Nodes) \in Nat /\ Len(c) <= Cardinality(Nodes)
<1>1. IsFiniteSet(Nodes)
  BY NodesAssumption
<1>2. c \in Injection(1 .. Len(c), Nodes)
  <2>1. c \in [1 .. Len(c) -> Nodes]
    OBVIOUS
  <2> QED
    BY <2>1 DEF OneByOne, Injection, IsInjective
<1>3. Cardinality(1 .. Len(c)) = Len(c)
  <2>1. Cardinality(1 .. Len(c)) = IF 1 > Len(c) THEN 0 ELSE Len(c) - 1 + 1
    BY FS_Interval
  <2> QED
    BY <2>1
<1> QED
  BY <1>1, <1>2, <1>3, FS_Injection, FS_CardinalityType

LEMMA ChainIs ==
  ASSUME NEW c \in Seq(Nodes), OneByOne(c), NEW p, Linked(next, p, c)
  PROVE  List!Chain(p) = c
<1> DEFINE size == Cardinality(Nodes)
           After(f, i) ==
             IF i = 0 THEN p
             ELSE IF f[i - 1] = NoPtr THEN NoPtr ELSE next[f[i - 1]]
           IsAt(f) == f = [i \in 0 .. size |-> After(f, i)]
           nodes == [i \in 0 .. size |-> NodeAfter(c, i)]
<1>1. size \in Nat /\ Len(c) \in 0 .. size
  BY ChainFits
<1> HIDE DEF size
<1>2. ASSUME NEW i \in 1 .. size
      PROVE  NodeAfter(c, i) = IF NodeAfter(c, i - 1) = NoPtr THEN NoPtr
                               ELSE next[NodeAfter(c, i - 1)]
  <2>1. CASE i <= Len(c)
    <3>1. i \in 1 .. Len(c) /\ NodeAfter(c, i - 1) = c[i] /\ c[i] \in Nodes
      BY <1>1, <2>1 DEF NodeAfter
    <3>2. next[c[i]] = NodeAfter(c, i)
      BY <3>1 DEF Linked
    <3> QED
      BY <3>1, <3>2, NodesAssumption
  <2>2. CASE i > Len(c)
    BY <1>1, <2>2 DEF NodeAfter
  <2> QED
    BY <1>1, <2>1, <2>2
<1>3. IsAt(nodes)
  <2>1. ASSUME NEW i \in 0 .. size PROVE NodeAfter(c, i) = After(nodes, i)
    <3>1. CASE i = 0
      BY <3>1 DEF Linked
    <3>2. CASE i # 0
      <4>1. i \in 1 .. size /\ i - 1 \in 0 .. size
        BY <1>1, <3>2
      <4> QED
        BY <1>2, <3>2, <4>1
    <3> QED
      BY <3>1, <3>2
  <2> HIDE DEF After
  <2> QED
    BY <2>1
<1> DEFINE at == CHOOSE f : IsAt(f)
<1>4. IsAt(at)
  <2> HIDE DEF IsAt, nodes
  <2> QED
    BY <1>3
<1>5. List!Chain(p)
        = LET Reached == {i \in DOMAIN at : at[i] # NoPtr}
          IN  [i \in 1 .. Cardinality(Reached) |-> at[i - 1]]
  BY DEF List!Chain, List!Cardinality, Cardinality, size
<1> HIDE DEF at
<1> DEFINE Same == {i \in 0 .. size : at[i] = NodeAfter(c, i)}
<1>6. 0 \in Same
  BY <1>1, <1>4 DEF Linked
<1>7. ASSUME NEW i \in 1 .. size, i - 1 \in Same PROVE i \in Same
  BY <1>1, <1>2, <1>4, <1>7
<1> HIDE DEF Same
<1>8. \A i \in 0 .. size : i \in Same
  BY <1>1, <1>6, <1>7, UpTo
<1>9. DOMAIN at = 0 .. size /\ \A i \in 0 .. size : at[i] = NodeAfter(c, i)
  BY <1>4, <1>8 DEF Same
<1>10. {i \in DOMAIN at : at[i] # NoPtr} = 0 .. Len(c) - 1
  BY <1>1, <1>9, NodesAssumption DEF NodeAfter
<1>11. Cardinality(0 .. Len(c) - 1) = Len(c)
  <2> DEFINE m == Len(c) - 1
  <2>1. m \in Int /\ Len(c) \in Nat
    OBVIOUS
  <2> HIDE DEF m
  <2>2. Cardinality(0 .. m) = IF 0 > m THEN 0 ELSE m - 0 + 1
    BY <2>1, FS_Interval
  <2> QED
    BY <2>1, <2>2 DEF m
<1>12. List!Chain(p) = [i \in 1 .. Len(c) |-> at[i - 1]]
  BY <1>5, <1>10, <1>11
<1>13. c = [i \in 1 .. Len(c) |-> c[i]]
  OBVIOUS
<1>14. ASSUME NEW i \in 1 .. Len(c) PROVE at[i - 1] = c[i]
  BY <1>1, <1>9 DEF NodeAfter
<1> QED
  BY <1>12, <1>13, <1>14

(* Where nodes are: in a list, or with a thread that copies or pushes.     *)
InList(x) == <<"list", x>>
InCall(t) == <<"call", t>>
Nowhere == <<"free", NoPtr>>
ListPlaces == {InList(x) : x \in Lists}
Places == ListPlaces \cup {InCall(t) : t \in Threads}

LEMMA PlacesApart ==
  /\ Nowhere \notin Places
  /\ \A x \in Lists : InList(x) \in ListPlaces /\ InList(x) \in Places
  /\ \A t \in Threads : InCall(t) \in Places /\ InCall(t) \notin ListPlaces
  /\ \A x, y \in Lists : InList(x) = InList(y) => x = y
  /\ \A t, u \in Threads : InCall(t) = InCall(u) => t = u
  /\ ListPlaces \subseteq Places
  /\ \A x \in Lists, t \in Threads : InList(x) # InCall(t)
BY DEF InList, InCall, Nowhere, ListPlaces, Places

(* g is f but for its value at x.                                          *)
Changed(f, g, x, y) ==
  /\ DOMAIN g = DOMAIN f /\ g = [z \in DOMAIN g |-> g[z]]
  /\ g[x] = y /\ \A z \in DOMAIN f : z # x => g[z] = f[z]

LEMMA ExceptChanges ==
  ASSUME NEW f, NEW x \in DOMAIN f, NEW y
  PROVE  Changed(f, [f EXCEPT ![x] = y], x, y)
BY DEF Changed

(* Every allocated node is in one place, at one index.                     *)
Owned(S, own, val) ==
  /\ S \in [Places -> Seq(Nodes)]
  /\ own \in [Nodes -> Places \cup {Nowhere}]
  /\ \A p \in Places : OneByOne(S[p])
  /\ \A p \in Places : \A i \in 1 .. Len(S[p]) : own[S[p][i]] = p
  /\ \A n \in Nodes : own[n] # Nowhere =>
       \E i \in 1 .. Len(S[own[n]]) : S[own[n]][i] = n
  /\ DOMAIN val \subseteq Nodes /\ val \in [DOMAIN val -> Values]
  /\ \A n \in Nodes : n \in DOMAIN val <=> own[n] # Nowhere

LEMMA OwnedAppended ==
  ASSUME NEW S, NEW own, NEW val, Owned(S, own, val),
         NEW p \in Places, NEW n \in Nodes, n \notin DOMAIN val, NEW v \in Values,
         NEW T, Changed(S, T, p, Append(S[p], n)),
         NEW to, Changed(own, to, n, p), NEW w, w = List!With(val, n, v)
  PROVE  Owned(T, to, w)
<1>1. own[n] = Nowhere /\ Nowhere \notin Places
  BY PlacesApart DEF Owned
<1>2. /\ S[p] \in Seq(Nodes) /\ Append(S[p], n) \in Seq(Nodes)
      /\ Len(Append(S[p], n)) = Len(S[p]) + 1 /\ Len(S[p]) \in Nat
      /\ \A i \in 1 .. Len(S[p]) : Append(S[p], n)[i] = S[p][i]
      /\ Append(S[p], n)[Len(S[p]) + 1] = n
  BY DEF Owned
<1>3. DOMAIN S = Places /\ DOMAIN own = Nodes /\ S \in [Places -> Seq(Nodes)]
  BY DEF Owned
<1>4. T[p] = Append(S[p], n) /\ \A q \in Places : q # p => T[q] = S[q]
  BY <1>3 DEF Changed
<1>5. to[n] = p /\ \A x \in Nodes : x # n => to[x] = own[x]
  BY <1>3 DEF Changed
<1>6. \A q \in Places : \A i \in 1 .. Len(S[q]) : S[q][i] \in Nodes /\ S[q][i] # n
  BY <1>1 DEF Owned
<1>7. ASSUME NEW q \in Places
      PROVE  OneByOne(T[q]) /\ \A i \in 1 .. Len(T[q]) : to[T[q][i]] = q
  <2>1. CASE q # p
    BY <1>4, <1>5, <1>6, <2>1 DEF Owned
  <2>2. CASE q = p
    <3>1. ASSUME NEW i \in 1 .. Len(T[p])
          PROVE  \/ i \in 1 .. Len(S[p]) /\ T[p][i] = S[p][i]
                 \/ i = Len(S[p]) + 1 /\ T[p][i] = n
      BY <1>2, <1>4
    <3>2. OneByOne(T[p])
      BY <1>6, <3>1 DEF OneByOne, Owned
    <3>3. \A i \in 1 .. Len(T[p]) : to[T[p][i]] = p
      BY <1>5, <1>6, <3>1 DEF Owned
    <3> QED
      BY <2>2, <3>2, <3>3
  <2> QED
    BY <2>1, <2>2
<1>8. ASSUME NEW x \in Nodes, to[x] # Nowhere
      PROVE  \E i \in 1 .. Len(T[to[x]]) : T[to[x]][i] = x
  <2>1. CASE x = n
    BY <1>2, <1>4, <1>5, <2>1
  <2>2. CASE x # n
    <3>1. PICK i \in 1 .. Len(S[own[x]]) : S[own[x]][i] = x
      BY <1>5, <1>8, <2>2 DEF Owned
    <3>2. own[x] \in Places
      BY <1>5, <1>8, <2>2 DEF Owned
    <3>3. i \in 1 .. Len(T[own[x]]) /\ T[own[x]][i] = x
      BY <1>2, <1>4, <3>1, <3>2
    <3> QED
      BY <1>5, <2>2, <3>3
  <2> QED
    BY <2>1, <2>2
<1>9. /\ DOMAIN w = DOMAIN val \cup {n}
      /\ w \in [DOMAIN w -> Values] /\ DOMAIN w \subseteq Nodes
  BY DEF Owned, List!With
<1>10. \A x \in Nodes : x \in DOMAIN w <=> to[x] # Nowhere
  BY <1>1, <1>5, <1>9 DEF Owned
<1>11. T \in [Places -> Seq(Nodes)]
  <2>1. \A q \in Places : T[q] \in Seq(Nodes)
    BY <1>2, <1>3, <1>4
  <2> QED
    BY <1>3, <2>1 DEF Changed
<1>12. to \in [Nodes -> Places \cup {Nowhere}]
  <2>1. \A x \in Nodes : to[x] \in Places \cup {Nowhere}
    BY <1>5 DEF Owned
  <2> QED
    BY <1>3, <2>1 DEF Changed
<1> QED
  BY <1>7, <1>8, <1>9, <1>10, <1>11, <1>12 DEF Owned

(* In T, what was at p has come before what was at q.                      *)
MovedTo(S, T, p, q) ==
  /\ T \in [Places -> Seq(Nodes)]
  /\ T[p] = << >> /\ T[q] = S[p] \o S[q]
  /\ \A y \in Places : y # p /\ y # q => T[y] = S[y]

OwnersMoved(own, to, p, q) ==
  /\ to \in [Nodes -> Places \cup {Nowhere}]
  /\ \A n \in Nodes : to[n] = IF own[n] = p THEN q ELSE own[n]

LEMMA OwnedMoved ==
  ASSUME NEW S, NEW own, NEW val, Owned(S, own, val),
         NEW p \in Places, NEW q \in Places, p # q,
         NEW T, MovedTo(S, T, p, q), NEW to, OwnersMoved(own, to, p, q)
  PROVE  Owned(T, to, val)
<1> USE DEF MovedTo, OwnersMoved
<1> DEFINE c == S[p] \o S[q]
           k == Len(S[p])
<1>1. /\ S[p] \in Seq(Nodes) /\ S[q] \in Seq(Nodes) /\ c \in Seq(Nodes)
      /\ Len(c) = k + Len(S[q]) /\ k \in Nat /\ Len(S[q]) \in Nat
      /\ \A i \in 1 .. k : c[i] = S[p][i]
      /\ \A i \in 1 .. Len(S[q]) : c[k + i] = S[q][i]
  BY DEF Owned
<1>3. T[q] = c
  OBVIOUS
<1>4. \A x \in Places : \A i \in 1 .. Len(S[x]) : S[x][i] \in Nodes
  BY DEF Owned
<1> HIDE DEF c, k
<1>6. ASSUME NEW i \in 1 .. Len(c)
      PROVE  \/ i \in 1 .. k /\ c[i] = S[p][i] /\ c[i] \in Nodes /\ own[c[i]] = p
             \/ \E j \in 1 .. Len(S[q]) : /\ i = k + j /\ c[i] = S[q][j]
                                          /\ c[i] \in Nodes /\ own[c[i]] = q
  <2>1. CASE i <= k
    <3>1. i \in 1 .. Len(S[p])
      BY <1>1, <2>1 DEF k
    <3> QED
      BY <1>1, <1>4, <2>1, <3>1 DEF Owned
  <2>2. CASE i > k
    <3>1. i - k \in 1 .. Len(S[q]) /\ i = k + (i - k)
      BY <1>1, <2>2
    <3>2. c[i] = S[q][i - k]
      BY <1>1, <3>1
    <3> QED
      BY <1>4, <3>1, <3>2 DEF Owned
  <2> QED
    BY <1>1, <2>1, <2>2
<1>7. ASSUME NEW x \in Places
      PROVE  OneByOne(T[x]) /\ \A i \in 1 .. Len(T[x]) : to[T[x][i]] = x
  <2>1. CASE x # p /\ x # q
    BY <1>4, <2>1 DEF Owned
  <2>2. CASE x = p
    BY <2>2 DEF OneByOne
  <2>3. CASE x = q
    <3>1. \A i \in 1 .. Len(c) : to[c[i]] = q
      BY <1>6
    <3>2. OneByOne(S[p]) /\ OneByOne(S[q])
      BY DEF Owned
    <3>3. ASSUME NEW i \in 1 .. Len(c), NEW j \in 1 .. Len(c), c[i] = c[j]
          PROVE  i = j
      <4>1. CASE own[c[i]] = p
        <5>1. i \in 1 .. k /\ j \in 1 .. k /\ S[p][i] = S[p][j]
          BY <1>6, <3>3, <4>1
        <5> QED
          BY <3>2, <5>1 DEF OneByOne, k
      <4>2. CASE own[c[i]] # p
        <5>1. PICK a \in 1 .. Len(S[q]) : i = k + a /\ c[i] = S[q][a]
          BY <1>6, <4>2
        <5>2. PICK b \in 1 .. Len(S[q]) : j = k + b /\ c[j] = S[q][b]
          BY <1>6, <3>3, <4>2
        <5>3. a = b
          BY <3>2, <3>3, <5>1, <5>2 DEF OneByOne
        <5> QED
          BY <5>1, <5>2, <5>3
      <4> QED
        BY <4>1, <4>2
    <3>4. OneByOne(c)
      BY <3>3 DEF OneByOne
    <3> QED
      BY <1>3, <2>3, <3>1, <3>4
  <2> QED
    BY <2>1, <2>2, <2>3
<1>8. ASSUME NEW n \in Nodes, to[n] # Nowhere
      PROVE  \E i \in 1 .. Len(T[to[n]]) : T[to[n]][i] = n
  <2>1. own[n] # Nowhere /\ own[n] \in Places
    BY <1>8, PlacesApart DEF Owned
  <2>2. PICK i \in 1 .. Len(S[own[n]]) : S[own[n]][i] = n
    BY <2>1 DEF Owned
  <2>3. CASE own[n] = p
    <3>1. i \in 1 .. Len(c) /\ c[i] = n
      <4>1. i \in 1 .. k /\ S[p][i] = n
        BY <2>2, <2>3 DEF k
      <4> QED
        BY <1>1, <4>1
    <3> QED
      BY <1>3, <2>3, <3>1
  <2>4. CASE own[n] = q
    <3>1. k + i \in 1 .. Len(c) /\ c[k + i] = n
      BY <1>1, <2>2, <2>4
    <3> QED
      BY <1>3, <2>4, <3>1
  <2>5. CASE own[n] # p /\ own[n] # q
    BY <1>3, <2>1, <2>2, <2>5
  <2> QED
    BY <2>3, <2>4, <2>5
<1>9. \A n \in Nodes : n \in DOMAIN val <=> to[n] # Nowhere
  BY PlacesApart DEF Owned
<1> QED
  BY <1>7, <1>8, <1>9 DEF Owned

(* The nodes of a place are those that it owns.                            *)
LEMMA NodesOfPlace ==
  ASSUME NEW S, NEW own, NEW val, Owned(S, own, val), NEW p \in Places
  PROVE  \A n \in Nodes : n \in List!ToSet(S[p]) <=> own[n] = p
<1>1. S[p] \in Seq(Nodes)
  BY DEF Owned
<1>2. DOMAIN S[p] = 1 .. Len(S[p])
  BY <1>1
<1>3. List!ToSet(S[p]) = {S[p][i] : i \in 1 .. Len(S[p])}
  BY <1>2 DEF List!ToSet
<1> QED
  BY <1>3, PlacesApart DEF Owned

LEMMA OwnedFreed ==
  ASSUME NEW S, NEW own, NEW val, Owned(S, own, val), NEW p \in Places,
         NEW T, Changed(S, T, p, << >>),
         NEW to \in [Nodes -> Places \cup {Nowhere}],
         \A n \in Nodes : to[n] = IF own[n] = p THEN Nowhere ELSE own[n],
         NEW w \in [DOMAIN val \ List!ToSet(S[p]) -> Values]
  PROVE  Owned(T, to, w)
<1>1. DOMAIN S = Places
  BY DEF Owned
<1>2. T[p] = << >> /\ \A x \in Places : x # p => T[x] = S[x]
  BY <1>1 DEF Changed
<1>3. \A x \in Places : \A i \in 1 .. Len(S[x]) : S[x][i] \in Nodes
  BY DEF Owned
<1>4. ASSUME NEW x \in Places
      PROVE  OneByOne(T[x]) /\ \A i \in 1 .. Len(T[x]) : to[T[x][i]] = x
  <2>1. CASE x # p
    BY <1>2, <1>3, <2>1 DEF Owned
  <2>2. CASE x = p
    BY <1>2, <2>2 DEF OneByOne
  <2> QED
    BY <2>1, <2>2
<1>5. ASSUME NEW n \in Nodes, to[n] # Nowhere
      PROVE  \E i \in 1 .. Len(T[to[n]]) : T[to[n]][i] = n
  <2>1. to[n] = own[n] /\ own[n] # p /\ own[n] \in Places
    BY <1>5 DEF Owned
  <2>2. T[own[n]] = S[own[n]]
    BY <1>2, <2>1
  <2>3. \E i \in 1 .. Len(S[own[n]]) : S[own[n]][i] = n
    BY <1>5, <2>1 DEF Owned
  <2> QED
    BY <2>1, <2>2, <2>3
<1>6. DOMAIN w \subseteq Nodes
  BY DEF Owned
<1>7. \A n \in Nodes : n \in DOMAIN w <=> to[n] # Nowhere
  <2>1. \A n \in Nodes : n \in List!ToSet(S[p]) <=> own[n] = p
    BY NodesOfPlace
  <2>2. \A n \in Nodes : n \in DOMAIN val <=> own[n] # Nowhere
    BY DEF Owned
  <2> QED
    BY <2>1, <2>2
<1>8. T \in [Places -> Seq(Nodes)]
  <2>1. << >> \in Seq(Nodes) /\ S \in [Places -> Seq(Nodes)]
    BY DEF Owned
  <2>2. \A x \in Places : T[x] \in Seq(Nodes)
    BY <1>2, <2>1
  <2> QED
    BY <1>1, <2>2 DEF Changed
<1> QED
  BY <1>4, <1>5, <1>6, <1>7, <1>8 DEF Owned

LEMMA NothingLinked == \A nx : Linked(nx, NoPtr, << >>)
BY DEF Linked, NodeAfter

LEMMA LinkedKept ==
  ASSUME NEW nx, NEW nx2, NEW p, NEW c, Linked(nx, p, c),
         \A i \in 1 .. Len(c) : nx2[c[i]] = nx[c[i]]
  PROVE  Linked(nx2, p, c)
BY DEF Linked

(* What is known of a call: the thread walks over nodes of lists.          *)
Walks(own, val, nx, o, w) ==
  /\ o.walked \in 0 .. Len(w) /\ o.at = NodeAfter(w, o.walked)
  /\ Linked(nx, NodeAfter(w, 0), w)
  /\ \A i \in 1 .. Len(w) : own[w[i]] \in ListPlaces
  /\ o \in List!FindOps => \A i \in 1 .. o.walked : val[w[i]] # o.wanted

(* It has copied what it has passed.                                       *)
Copies(val, nx, o, s, w) ==
  /\ Linked(nx, o.first, s)
  /\ Len(s) = o.walked
  /\ o.last = IF s = << >> THEN NoPtr ELSE s[Len(s)]
  /\ \A i \in 1 .. Len(s) : val[s[i]] = val[w[i]]

CallHolds(h, own, val, nx, o, s, w) ==
  \/ o = List!Idle /\ s = << >> /\ w = << >>
  \/ /\ o \in List!PushOps /\ o.list \in DOMAIN h
     /\ s = <<o.item>> /\ nx[o.item] = o.at /\ w = << >>
  \/ o \in List!SizeOps \cup List!FindOps /\ s = << >> /\ Walks(own, val, nx, o, w)
  \/ /\ o \in List!CopyOps /\ o.target \notin DOMAIN h
     /\ Walks(own, val, nx, o, w) /\ Copies(val, nx, o, s, w)

TargetsApart(o) ==
  \A t, u \in Threads :
    t # u /\ o[t] \in List!CopyOps /\ o[u] \in List!CopyOps
      => o[t].target # o[u].target

ListsHold(S, h, nx) ==
  /\ DOMAIN h \subseteq Lists
  /\ \A x \in DOMAIN h : Linked(nx, h[x], S[InList(x)])
  /\ \A x \in Lists \ DOMAIN h : S[InList(x)] = << >>

AllOps == {List!Idle} \cup List!PushOps \cup List!SizeOps \cup List!FindOps
            \cup List!CopyOps

ListsAre(S, own, h, val, nx, o, w) ==
  /\ Owned(S, own, val)
  /\ ListsHold(S, h, nx)
  /\ nx \in [Nodes -> List!Pointers]
  /\ h \in [DOMAIN h -> List!Pointers]
  /\ o \in [Threads -> AllOps] /\ w \in [Threads -> Seq(Nodes)]
  /\ \A t \in Threads : CallHolds(h, own, val, nx, o[t], S[InCall(t)], w[t])
  /\ TargetsApart(o)

(* The nodes that a thread has, or walks over as v, are not touched.       *)
NodesKept(own, val, nx, own2, val2, nx2, t, v) ==
  /\ \A n \in Nodes : own[n] = InCall(t) => nx2[n] = nx[n] /\ val2[n] = val[n]
  /\ \A i \in 1 .. Len(v) : own[v[i]] \in ListPlaces =>
       /\ nx2[v[i]] = nx[v[i]] /\ val2[v[i]] = val[v[i]]
       /\ own2[v[i]] \in ListPlaces

ListsKept(h, h2, a) ==
  /\ a \in List!PushOps /\ a.list \in DOMAIN h => a.list \in DOMAIN h2
  /\ a \in List!CopyOps /\ a.target \notin DOMAIN h => a.target \notin DOMAIN h2

(* A step of other threads changes nothing for a call.                     *)
LEMMA CallKept ==
  ASSUME NEW S, NEW own, NEW h, NEW val, NEW nx, NEW o, NEW w,
         ListsAre(S, own, h, val, nx, o, w),
         NEW own2, NEW h2, NEW val2, NEW nx2, NEW t \in Threads,
         ListsKept(h, h2, o[t]), NodesKept(own, val, nx, own2, val2, nx2, t, w[t])
  PROVE  CallHolds(h2, own2, val2, nx2, o[t], S[InCall(t)], w[t])
<1> USE DEF ListsKept, NodesKept
<1> DEFINE s == S[InCall(t)]
           v == w[t]
           a == o[t]
<1>1. CallHolds(h, own, val, nx, a, s, v)
  BY DEF ListsAre
<1>2. s \in Seq(Nodes) /\ v \in Seq(Nodes)
  BY PlacesApart DEF ListsAre, Owned
<1>3. \A i \in 1 .. Len(s) : nx2[s[i]] = nx[s[i]] /\ val2[s[i]] = val[s[i]]
  <2>1. \A i \in 1 .. Len(s) : s[i] \in Nodes /\ own[s[i]] = InCall(t)
    BY <1>2, PlacesApart DEF ListsAre, Owned
  <2> QED
    BY <2>1
<1>4. ASSUME Walks(own, val, nx, a, v) PROVE Walks(own2, val2, nx2, a, v)
  <2>1. \A i \in 1 .. Len(v) : own[v[i]] \in ListPlaces
    BY <1>4 DEF Walks
  <2>2. \A i \in 1 .. Len(v) : nx2[v[i]] = nx[v[i]] /\ val2[v[i]] = val[v[i]]
                               /\ own2[v[i]] \in ListPlaces
    BY <2>1
  <2>3. Linked(nx2, NodeAfter(v, 0), v)
    BY <1>4, <2>2, LinkedKept DEF Walks
  <2>4. a.walked \in 0 .. Len(v)
    BY <1>4 DEF Walks
  <2>5. \A i \in 1 .. a.walked : i \in 1 .. Len(v)
    BY <1>2, <2>4
  <2>6. a \in List!FindOps => \A i \in 1 .. a.walked : val2[v[i]] # a.wanted
    BY <1>4, <2>2, <2>5 DEF Walks
  <2>7. a.at = NodeAfter(v, a.walked)
    BY <1>4 DEF Walks
  <2> HIDE DEF a, v
  <2> QED
    BY <2>2, <2>3, <2>4, <2>6, <2>7 DEF Walks
<1>5. ASSUME Copies(val, nx, a, s, v), Walks(own, val, nx, a, v)
      PROVE  Copies(val2, nx2, a, s, v)
  <2>1. Linked(nx2, a.first, s)
    BY <1>3, <1>5, LinkedKept DEF Copies
  <2>2. \A i \in 1 .. Len(v) : val2[v[i]] = val[v[i]]
    BY <1>5 DEF Walks
  <2>3. \A i \in 1 .. Len(s) : i \in 1 .. Len(v)
    <3>1. Len(s) \in 0 .. Len(v)
      BY <1>5 DEF Copies, Walks
    <3> QED
      BY <1>2, <3>1
  <2>4. \A i \in 1 .. Len(s) : val2[s[i]] = val2[v[i]]
    BY <1>3, <1>5, <2>2, <2>3 DEF Copies
  <2> HIDE DEF a, v, s
  <2> QED
    BY <1>5, <2>1, <2>4 DEF Copies
<1>6. CASE a = List!Idle /\ s = << >> /\ v = << >>
  BY <1>6 DEF CallHolds
<1>7. CASE /\ a \in List!PushOps /\ a.list \in DOMAIN h
           /\ s = <<a.item>> /\ nx[a.item] = a.at /\ v = << >>
  <2>1. nx2[a.item] = nx[a.item]
    <3>1. 1 \in 1 .. Len(s) /\ s[1] = a.item
      BY <1>7
    <3> QED
      BY <1>3, <3>1
  <2> QED
    BY <1>7, <2>1 DEF CallHolds
<1>8. CASE /\ a \in List!SizeOps \cup List!FindOps /\ s = << >>
           /\ Walks(own, val, nx, a, v)
  BY <1>4, <1>8 DEF CallHolds
<1>9. CASE /\ a \in List!CopyOps /\ a.target \notin DOMAIN h
           /\ Walks(own, val, nx, a, v) /\ Copies(val, nx, a, s, v)
  BY <1>4, <1>5, <1>9 DEF CallHolds
<1>10. \/ a = List!Idle /\ s = << >> /\ v = << >>
       \/ /\ a \in List!PushOps /\ a.list \in DOMAIN h
          /\ s = <<a.item>> /\ nx[a.item] = a.at /\ v = << >>
       \/ /\ a \in List!SizeOps \cup List!FindOps /\ s = << >>
          /\ Walks(own, val, nx, a, v)
       \/ /\ a \in List!CopyOps /\ a.target \notin DOMAIN h
          /\ Walks(own, val, nx, a, v) /\ Copies(val, nx, a, s, v)
  BY <1>1 DEF CallHolds
<1> QED
  BY <1>6, <1>7, <1>8, <1>9, <1>10

LEMMA KindsApart ==
  /\ \A a \in List!PushOps : a.kind = "push" /\ a # List!Idle
  /\ \A a \in List!SizeOps : a.kind = "size" /\ a # List!Idle
  /\ \A a \in List!FindOps : a.kind = "find" /\ a # List!Idle
  /\ \A a \in List!CopyOps : a.kind = "copy" /\ a # List!Idle
  /\ List!Idle.kind = "idle"
BY DEF List!PushOps, List!SizeOps, List!FindOps, List!CopyOps, List!Idle

LEMMA CallIs ==
  ASSUME NEW h, NEW own, NEW val, NEW nx, NEW a, NEW s, NEW v,
         CallHolds(h, own, val, nx, a, s, v)
  PROVE  /\ a = List!Idle <=> a.kind = "idle"
         /\ a.kind = "idle" => s = << >> /\ v = << >>
         /\ a.kind = "push" => /\ a \in List!PushOps /\ a.list \in DOMAIN h
                               /\ s = <<a.item>> /\ nx[a.item] = a.at
                               /\ v = << >>
         /\ a.kind = "size" => a \in List!SizeOps
         /\ a.kind = "find" => a \in List!FindOps
         /\ a.kind \in {"size", "find"} => s = << >> /\ Walks(own, val, nx, a, v)
         /\ a.kind = "copy" => /\ a \in List!CopyOps /\ a.target \notin DOMAIN h
                               /\ Walks(own, val, nx, a, v)
                               /\ Copies(val, nx, a, s, v)
         /\ a.kind \in {"idle", "push", "size", "find", "copy"}
         /\ a \in AllOps
<1>1. CASE a = List!Idle /\ s = << >> /\ v = << >>
  BY <1>1, KindsApart DEF AllOps
<1>2. CASE /\ a \in List!PushOps /\ a.list \in DOMAIN h
           /\ s = <<a.item>> /\ nx[a.item] = a.at /\ v = << >>
  BY <1>2, KindsApart DEF AllOps
<1>3. CASE /\ a \in List!SizeOps /\ s = << >> /\ Walks(own, val, nx, a, v)
  BY <1>3, KindsApart DEF AllOps
<1>4. CASE /\ a \in List!FindOps /\ s = << >> /\ Walks(own, val, nx, a, v)
  BY <1>4, KindsApart DEF AllOps
<1>5. CASE /\ a \in List!CopyOps /\ a.target \notin DOMAIN h
           /\ Walks(own, val, nx, a, v) /\ Copies(val, nx, a, s, v)
  BY <1>5, KindsApart DEF AllOps
<1>6. \/ a = List!Idle /\ s = << >> /\ v = << >>
      \/ /\ a \in List!PushOps /\ a.list \in DOMAIN h
         /\ s = <<a.item>> /\ nx[a.item] = a.at /\ v = << >>
      \/ /\ a \in List!SizeOps /\ s = << >> /\ Walks(own, val, nx, a, v)
      \/ /\ a \in List!FindOps /\ s = << >> /\ Walks(own, val, nx, a, v)
      \/ /\ a \in List!CopyOps /\ a.target \notin DOMAIN h
         /\ Walks(own, val, nx, a, v) /\ Copies(val, nx, a, s, v)
  BY DEF CallHolds
<1> HIDE DEF AllOps
<1> QED
  BY <1>1, <1>2, <1>3, <1>4, <1>5, <1>6

------------------------------------------------------------------------------
(* What the steps do to the lists, each a lemma about constants.           *)

(* The nodes of a list that nobody uses go.                                *)
NobodyUses(S, o, w, x) ==
  \A t \in Threads : o[t].kind # "idle" =>
    /\ o[t].list # x
    /\ o[t].kind \in {"size", "find", "copy"} =>
         List!ToSet(S[InList(x)]) \cap List!ToSet(w[t]) = {}

NodesGone(S, val, nx, val2, nx2, x) ==
  /\ val2 \in [DOMAIN val \ List!ToSet(S[InList(x)]) -> Values]
  /\ \A n \in DOMAIN val2 : val2[n] = val[n]
  /\ nx2 \in [Nodes -> List!Pointers]
  /\ \A n \in Nodes \ List!ToSet(S[InList(x)]) : nx2[n] = nx[n]

HeadGone(h, h2, x) ==
  /\ h2 \in [DOMAIN h \ {x} -> List!Pointers]
  /\ \A y \in DOMAIN h2 : h2[y] = h[y]

LEMMA ListFreed ==
  ASSUME NEW S, NEW own, NEW h, NEW val, NEW nx, NEW o, NEW w,
         ListsAre(S, own, h, val, nx, o, w),
         NEW x \in DOMAIN h, NEW h2, NEW val2, NEW nx2, NEW T,
         NobodyUses(S, o, w, x), NodesGone(S, val, nx, val2, nx2, x),
         HeadGone(h, h2, x),
         Changed(S, T, InList(x), << >>)
  PROVE  \E to : ListsAre(T, to, h2, val2, nx2, o, w)
<1> USE DEF NobodyUses, NodesGone, HeadGone
<1> DEFINE p == InList(x)
           to == [n \in Nodes |-> IF own[n] = p THEN Nowhere ELSE own[n]]
<1>1. x \in Lists /\ p \in Places /\ p \in ListPlaces /\ Owned(S, own, val)
      /\ S \in [Places -> Seq(Nodes)]
  BY PlacesApart DEF ListsAre, ListsHold, Owned
<1>2. Owned(T, to, val2) /\ \A n \in Nodes : n \in List!ToSet(S[p]) <=> own[n] = p
  <2>1. \A n \in Nodes : n \in List!ToSet(S[p]) <=> own[n] = p
    BY <1>1, NodesOfPlace
  <2>2. to \in [Nodes -> Places \cup {Nowhere}]
    BY <1>1 DEF Owned
  <2>3. \A n \in Nodes : to[n] = IF own[n] = p THEN Nowhere ELSE own[n]
    OBVIOUS
  <2> HIDE DEF to
  <2>4. Owned(T, to, val2)
    BY <1>1, <2>2, <2>3, OwnedFreed
  <2> QED
    BY <2>1, <2>4
<1>3. \A n \in Nodes : to[n] = IF own[n] = p THEN Nowhere ELSE own[n]
  OBVIOUS
<1> HIDE DEF to
<1>4. T[p] = << >> /\ \A q \in Places : q # p => T[q] = S[q]
  BY <1>1 DEF Changed
<1>5. \A n \in Nodes : own[n] # p => nx2[n] = nx[n] /\ to[n] = own[n]
  BY <1>2, <1>3
<1>6. \A n \in Nodes : own[n] # p /\ n \in DOMAIN val => val2[n] = val[n]
  BY <1>2
<1>7. ListsHold(T, h2, nx2)
  <2>1. ASSUME NEW y \in DOMAIN h2 PROVE Linked(nx2, h2[y], T[InList(y)])
    <3>1. y \in DOMAIN h /\ y # x /\ h2[y] = h[y] /\ y \in Lists
      BY DEF ListsAre, ListsHold
    <3>2. InList(y) # p /\ InList(y) \in Places
      BY <1>1, <3>1, PlacesApart
    <3>3. Linked(nx, h[y], S[InList(y)])
      BY <3>1 DEF ListsAre, ListsHold
    <3>4. \A i \in 1 .. Len(S[InList(y)]) :
            nx2[S[InList(y)][i]] = nx[S[InList(y)][i]]
      BY <1>1, <1>5, <3>2 DEF Owned
    <3>5. T[InList(y)] = S[InList(y)]
      BY <1>4, <3>2
    <3> QED
      BY <3>1, <3>3, <3>4, <3>5, LinkedKept
  <2>2. ASSUME NEW y \in Lists \ DOMAIN h2 PROVE T[InList(y)] = << >>
    <3>1. CASE y = x
      BY <1>4, <3>1
    <3>2. CASE y # x
      <4>1. y \in Lists \ DOMAIN h /\ InList(y) # p /\ InList(y) \in Places
        BY <1>1, <3>2, PlacesApart
      <4> QED
        BY <1>4, <4>1 DEF ListsAre, ListsHold
    <3> QED
      BY <3>1, <3>2
  <2>3. DOMAIN h2 \subseteq Lists
    BY DEF ListsAre, ListsHold
  <2> QED
    BY <2>1, <2>2, <2>3 DEF ListsHold
<1>8. ASSUME NEW t \in Threads
      PROVE  CallHolds(h2, to, val2, nx2, o[t], T[InCall(t)], w[t])
  <2>1. CallHolds(h, own, val, nx, o[t], S[InCall(t)], w[t])
    BY DEF ListsAre
  <2>2. o[t] \in List!PushOps /\ o[t].list \in DOMAIN h => o[t].list \in DOMAIN h2
    BY KindsApart
  <2>3. o[t] \in List!CopyOps /\ o[t].target \notin DOMAIN h
          => o[t].target \notin DOMAIN h2
    OBVIOUS
  <2>4. InCall(t) # p /\ InCall(t) \in Places
    BY <1>1, PlacesApart
  <2>5. \A n \in Nodes : own[n] = InCall(t) => nx2[n] = nx[n] /\ val2[n] = val[n]
    BY <1>1, <1>5, <1>6, <2>4, PlacesApart DEF Owned
  <2>6. ASSUME NEW i \in 1 .. Len(w[t]), own[w[t][i]] \in ListPlaces
        PROVE  /\ nx2[w[t][i]] = nx[w[t][i]] /\ val2[w[t][i]] = val[w[t][i]]
               /\ to[w[t][i]] \in ListPlaces
    <3>1. w[t] \in Seq(Nodes) /\ w[t] # << >> /\ w[t][i] \in Nodes
      BY DEF ListsAre
    <3>2. o[t].kind \in {"size", "find", "copy"}
      BY <2>1, <3>1, CallIs
    <3>3. w[t][i] \in List!ToSet(w[t])
      BY <3>1 DEF List!ToSet
    <3>4. own[w[t][i]] # p
      BY <1>2, <3>1, <3>2, <3>3
    <3>5. w[t][i] \in DOMAIN val
      BY <1>1, <2>6, <3>1, PlacesApart DEF Owned
    <3> QED
      BY <1>5, <1>6, <2>6, <3>1, <3>4, <3>5
  <2>7. CallHolds(h2, to, val2, nx2, o[t], S[InCall(t)], w[t])
    <3>1. ListsKept(h, h2, o[t])
      BY <2>2, <2>3 DEF ListsKept
    <3>2. NodesKept(own, val, nx, to, val2, nx2, t, w[t])
      BY <2>5, <2>6 DEF NodesKept
    <3> QED
      BY <3>1, <3>2, CallKept
  <2>8. T[InCall(t)] = S[InCall(t)]
    BY <1>4, <2>4
  <2> QED
    BY <2>7, <2>8
<1> QED
  BY <1>2, <1>7, <1>8 DEF ListsAre

(* A list is moved to where there is none yet.                             *)
NotCopiedTo(o, z) ==
  \A t \in Threads : o[t] \in List!CopyOps => o[t].target # z

HeadMoved(h, h2, x, z) ==
  /\ h2 \in [DOMAIN h \cup {z} -> List!Pointers]
  /\ h2[x] = NoPtr /\ h2[z] = h[x]
  /\ \A y \in DOMAIN h : y # x => h2[y] = h[y]

LEMMA ListMoved ==
  ASSUME NEW S, NEW own, NEW h, NEW val, NEW nx, NEW o, NEW w,
         ListsAre(S, own, h, val, nx, o, w),
         NEW x \in DOMAIN h, NEW z \in Lists \ DOMAIN h, NEW h2, NEW T,
         NotCopiedTo(o, z), HeadMoved(h, h2, x, z),
         MovedTo(S, T, InList(x), InList(z))
  PROVE  \E to : ListsAre(T, to, h2, val, nx, o, w)
<1> USE DEF NotCopiedTo, HeadMoved
<1> DEFINE p == InList(x)
           q == InList(z)
           to == [n \in Nodes |-> IF own[n] = p THEN q ELSE own[n]]
<1>1. /\ x \in Lists /\ p \in Places /\ q \in Places /\ Owned(S, own, val)
      /\ p \in ListPlaces /\ q \in ListPlaces /\ p # q
      /\ S \in [Places -> Seq(Nodes)] /\ x # z
  BY PlacesApart DEF ListsAre, ListsHold, Owned
<1>2. \A n \in Nodes : to[n] = IF own[n] = p THEN q ELSE own[n]
  OBVIOUS
<1>3. Owned(T, to, val)
  <2>1. to \in [Nodes -> Places \cup {Nowhere}]
    BY <1>1 DEF Owned
  <2> HIDE DEF to
  <2>2. OwnersMoved(own, to, p, q)
    BY <1>2, <2>1 DEF OwnersMoved
  <2>3. MovedTo(S, T, p, q)
    OBVIOUS
  <2> HIDE DEF p, q
  <2> QED
    BY <1>1, <2>2, <2>3, OwnedMoved
<1> HIDE DEF to
<1>4. /\ T[p] = << >> /\ T[q] = S[p]
      /\ \A y \in Places : y # p /\ y # q => T[y] = S[y]
  <2>1. S[q] = << >>
    BY DEF ListsAre, ListsHold
  <2>2. S[p] \in Seq(Nodes)
    BY <1>1
  <2>3. S[p] \o S[q] = S[p]
    BY <2>1, <2>2
  <2> QED
    BY <2>3 DEF MovedTo
<1>5. /\ DOMAIN h2 = DOMAIN h \cup {z} /\ h2[x] = NoPtr /\ h2[z] = h[x]
      /\ \A y \in DOMAIN h : y # x => h2[y] = h[y]
  OBVIOUS
<1>6. ListsHold(T, h2, nx)
  <2>1. ASSUME NEW y \in DOMAIN h2 PROVE Linked(nx, h2[y], T[InList(y)])
    <3>1. CASE y = x
      BY <1>4, <1>5, <3>1, NothingLinked
    <3>2. CASE y = z
      BY <1>4, <1>5, <3>2 DEF ListsAre, ListsHold
    <3>3. CASE y # x /\ y # z
      <4>1. y \in DOMAIN h /\ y \in Lists /\ h2[y] = h[y]
        BY <1>5, <3>3 DEF ListsAre, ListsHold
      <4>2. T[InList(y)] = S[InList(y)]
        BY <1>1, <1>4, <3>3, <4>1, PlacesApart
      <4> QED
        BY <4>1, <4>2 DEF ListsAre, ListsHold
    <3> QED
      BY <3>1, <3>2, <3>3
  <2>2. ASSUME NEW y \in Lists \ DOMAIN h2 PROVE T[InList(y)] = << >>
    <3>1. y # x /\ y # z /\ y \in Lists \ DOMAIN h
      BY <1>5
    <3>2. T[InList(y)] = S[InList(y)]
      BY <1>1, <1>4, <3>1, PlacesApart
    <3> QED
      BY <3>1, <3>2 DEF ListsAre, ListsHold
  <2>3. DOMAIN h2 \subseteq Lists
    BY <1>5 DEF ListsAre, ListsHold
  <2> QED
    BY <2>1, <2>2, <2>3 DEF ListsHold
<1>7. ASSUME NEW t \in Threads
      PROVE  CallHolds(h2, to, val, nx, o[t], T[InCall(t)], w[t])
  <2>1. o[t] \in List!PushOps /\ o[t].list \in DOMAIN h => o[t].list \in DOMAIN h2
    BY <1>5
  <2>2. o[t] \in List!CopyOps /\ o[t].target \notin DOMAIN h
          => o[t].target \notin DOMAIN h2
    BY <1>5
  <2>3. ASSUME NEW i \in 1 .. Len(w[t]), own[w[t][i]] \in ListPlaces
        PROVE  to[w[t][i]] \in ListPlaces
    <3>1. w[t] \in Seq(Nodes) /\ w[t][i] \in Nodes
      BY DEF ListsAre
    <3> QED
      BY <1>1, <1>2, <2>3, <3>1
  <2>4. CallHolds(h2, to, val, nx, o[t], S[InCall(t)], w[t])
    <3>1. ListsKept(h, h2, o[t])
      BY <2>1, <2>2 DEF ListsKept
    <3>2. NodesKept(own, val, nx, to, val, nx, t, w[t])
      BY <2>3 DEF NodesKept
    <3> QED
      BY <3>1, <3>2, CallKept
  <2>5. T[InCall(t)] = S[InCall(t)]
    BY <1>1, <1>4, PlacesApart
  <2> QED
    BY <2>4, <2>5
<1> QED
  BY <1>3, <1>5, <1>6, <1>7 DEF ListsAre

(* Only the nodes of thread t change.                                      *)
OthersKept(S, own, val, nx, T, to, val2, nx2, t) ==
  /\ \A p \in Places : p # InCall(t) => T[p] = S[p]
  /\ \A n \in Nodes : own[n] # Nowhere /\ own[n] # InCall(t) =>
       nx2[n] = nx[n] /\ val2[n] = val[n] /\ to[n] = own[n]

(* Nobody but t copies to where a does.                                    *)
TargetIsFree(o, t, a) ==
  a \in List!CopyOps => \A u \in Threads : o[u] \in List!CopyOps /\ u # t
                                             => o[u].target # a.target

LEMMA OtherCallsChange ==
  ASSUME NEW S, NEW own, NEW h, NEW val, NEW nx, NEW o, NEW w,
         ListsAre(S, own, h, val, nx, o, w), NEW t \in Threads,
         NEW a, NEW v \in Seq(Nodes), TargetIsFree(o, t, a),
         NEW h2, NEW own2, NEW val2, NEW nx2, NEW s,
         CallHolds(h2, own2, val2, nx2, a, s, v),
         NEW o2, Changed(o, o2, t, a), NEW w2, Changed(w, w2, t, v)
  PROVE  /\ o2 \in [Threads -> AllOps] /\ w2 \in [Threads -> Seq(Nodes)]
         /\ o2[t] = a /\ w2[t] = v
         /\ \A u \in Threads : u # t => o2[u] = o[u] /\ w2[u] = w[u]
         /\ TargetsApart(o2)
<1>1. o \in [Threads -> AllOps] /\ w \in [Threads -> Seq(Nodes)]
  BY DEF ListsAre
<1>2. o2[t] = a /\ w2[t] = v
  BY DEF Changed
<1>3. \A u \in Threads : u # t => o2[u] = o[u] /\ w2[u] = w[u]
  BY <1>1 DEF Changed
<1>4. TargetsApart(o2)
  BY <1>2, <1>3 DEF TargetsApart, ListsAre, TargetIsFree
<1>5. a \in AllOps
  BY CallIs
<1>6. o2 \in [Threads -> AllOps]
  <2>1. \A u \in Threads : o2[u] \in AllOps
    BY <1>1, <1>2, <1>3, <1>5
  <2> QED
    BY <1>1, <2>1 DEF Changed
<1>7. w2 \in [Threads -> Seq(Nodes)]
  <2>1. \A u \in Threads : w2[u] \in Seq(Nodes)
    BY <1>1, <1>2, <1>3
  <2> QED
    BY <1>1, <2>1 DEF Changed
<1> QED
  BY <1>2, <1>3, <1>4, <1>6, <1>7

(* A call begins or goes on, and may take or change nodes of its own.      *)
LEMMA CallSteps ==
  ASSUME NEW S, NEW own, NEW h, NEW val, NEW nx, NEW o, NEW w,
         ListsAre(S, own, h, val, nx, o, w),
         NEW T, NEW to, NEW val2, Owned(T, to, val2),
         NEW nx2 \in [Nodes -> List!Pointers],
         NEW t \in Threads, OthersKept(S, own, val, nx, T, to, val2, nx2, t),
         NEW a, NEW v \in Seq(Nodes), TargetIsFree(o, t, a),
         CallHolds(h, to, val2, nx2, a, T[InCall(t)], v),
         NEW o2, Changed(o, o2, t, a), NEW w2, Changed(w, w2, t, v)
  PROVE  ListsAre(T, to, h, val2, nx2, o2, w2)
<1>1. /\ o2 \in [Threads -> AllOps] /\ w2 \in [Threads -> Seq(Nodes)]
      /\ o2[t] = a /\ w2[t] = v
      /\ \A u \in Threads : u # t => o2[u] = o[u] /\ w2[u] = w[u]
      /\ TargetsApart(o2)
  BY OtherCallsChange
<1>2. /\ Owned(S, own, val) /\ ListsHold(S, h, nx)
      /\ w \in [Threads -> Seq(Nodes)]
  BY DEF ListsAre
<1>3. ASSUME NEW u \in Threads
      PROVE  CallHolds(h, to, val2, nx2, o2[u], T[InCall(u)], w2[u])
  <2>1. CASE u = t
    BY <1>1, <2>1
  <2>2. CASE u # t
    <3>1. InCall(u) # InCall(t) /\ InCall(u) \in Places
      BY <2>2, PlacesApart
    <3>2. \A n \in Nodes : own[n] = InCall(u) =>
            nx2[n] = nx[n] /\ val2[n] = val[n]
      BY <3>1, PlacesApart DEF OthersKept
    <3>3. ASSUME NEW i \in 1 .. Len(w[u]), own[w[u][i]] \in ListPlaces
          PROVE  /\ nx2[w[u][i]] = nx[w[u][i]] /\ val2[w[u][i]] = val[w[u][i]]
                 /\ to[w[u][i]] \in ListPlaces
      <4>1. w[u][i] \in Nodes
        BY <1>2
      <4>2. own[w[u][i]] # Nowhere /\ own[w[u][i]] # InCall(t)
        BY <3>3, PlacesApart
      <4> QED
        BY <3>3, <4>1, <4>2 DEF OthersKept
    <3>4. NodesKept(own, val, nx, to, val2, nx2, u, w[u])
      BY <3>2, <3>3 DEF NodesKept
    <3>5. ListsKept(h, h, o[u])
      BY DEF ListsKept
    <3>6. CallHolds(h, to, val2, nx2, o[u], S[InCall(u)], w[u])
      BY <3>4, <3>5, CallKept
    <3>7. T[InCall(u)] = S[InCall(u)]
      BY <3>1 DEF OthersKept
    <3> QED
      BY <1>1, <2>2, <3>6, <3>7
  <2> QED
    BY <2>1, <2>2
<1>4. ListsHold(T, h, nx2)
  <2>1. ASSUME NEW x \in Lists PROVE T[InList(x)] = S[InList(x)]
    BY PlacesApart DEF OthersKept
  <2>2. ASSUME NEW x \in DOMAIN h PROVE Linked(nx2, h[x], S[InList(x)])
    <3>1. x \in Lists /\ Linked(nx, h[x], S[InList(x)])
      BY <1>2 DEF ListsHold
    <3>2. InList(x) \in Places /\ InList(x) # Nowhere /\ InList(x) # InCall(t)
      BY <3>1, PlacesApart
    <3>3. \A i \in 1 .. Len(S[InList(x)]) :
            S[InList(x)][i] \in Nodes /\ own[S[InList(x)][i]] = InList(x)
      BY <1>2, <3>2 DEF Owned
    <3>4. \A i \in 1 .. Len(S[InList(x)]) :
            nx2[S[InList(x)][i]] = nx[S[InList(x)][i]]
      BY <3>2, <3>3 DEF OthersKept
    <3> QED
      BY <3>1, <3>4, LinkedKept
  <2> QED
    BY <1>2, <2>1, <2>2 DEF ListsHold
<1> QED
  BY <1>1, <1>3, <1>4 DEF ListsAre

(* A call begins, goes on or ends, and has no nodes or keeps its nodes.    *)
LEMMA CallChanges ==
  ASSUME NEW S, NEW own, NEW h, NEW val, NEW nx, NEW o, NEW w,
         ListsAre(S, own, h, val, nx, o, w),
         NEW t \in Threads, NEW a, NEW v \in Seq(Nodes),
         CallHolds(h, own, val, nx, a, S[InCall(t)], v), TargetIsFree(o, t, a),
         NEW o2, Changed(o, o2, t, a), NEW w2, Changed(w, w2, t, v)
  PROVE  ListsAre(S, own, h, val, nx, o2, w2)
<1>1. Owned(S, own, val) /\ nx \in [Nodes -> List!Pointers]
  BY DEF ListsAre
<1>2. OthersKept(S, own, val, nx, S, own, val, nx, t)
  BY DEF OthersKept
<1> QED
  BY <1>1, <1>2, CallSteps

(* In h2 the head of list x has been set, which t may be to create.        *)
HeadSet(h, h2, o, t, x) ==
  /\ \/ x \in DOMAIN h
     \/ TargetIsFree(o, t, o[t]) /\ o[t] \in List!CopyOps /\ o[t].target = x
  /\ h2 \in [DOMAIN h \cup {x} -> List!Pointers]
  /\ \A y \in DOMAIN h : y # x => h2[y] = h[y]

(* A call ends, and its nodes come before those of a list.                 *)
LEMMA CallGives ==
  ASSUME NEW S, NEW own, NEW h, NEW val, NEW nx, NEW o, NEW w,
         ListsAre(S, own, h, val, nx, o, w), NEW t \in Threads, NEW x \in Lists,
         NEW h2, HeadSet(h, h2, o, t, x), NEW T, MovedTo(S, T, InCall(t), InList(x)),
         Linked(nx, h2[x], T[InList(x)]),
         NEW o2, Changed(o, o2, t, List!Idle), NEW w2, Changed(w, w2, t, << >>)
  PROVE  \E to : ListsAre(T, to, h2, val, nx, o2, w2)
<1> USE DEF HeadSet
<1> DEFINE p == InCall(t)
           q == InList(x)
           to == [n \in Nodes |-> IF own[n] = p THEN q ELSE own[n]]
<1>1. /\ p \in Places /\ q \in Places /\ q \in ListPlaces /\ p # q
      /\ Owned(S, own, val) /\ ListsHold(S, h, nx)
      /\ w \in [Threads -> Seq(Nodes)]
  BY PlacesApart DEF ListsAre
<1>2. \A n \in Nodes : to[n] = IF own[n] = p THEN q ELSE own[n]
  OBVIOUS
<1>3. Owned(T, to, val)
  <2>1. to \in [Nodes -> Places \cup {Nowhere}]
    BY <1>1 DEF Owned
  <2> HIDE DEF to
  <2>2. OwnersMoved(own, to, p, q)
    BY <1>2, <2>1 DEF OwnersMoved
  <2>3. MovedTo(S, T, p, q)
    OBVIOUS
  <2> HIDE DEF p, q
  <2> QED
    BY <1>1, <2>2, <2>3, OwnedMoved
<1> HIDE DEF to
<1>4. T[p] = << >> /\ \A y \in Places : y # p /\ y # q => T[y] = S[y]
  BY DEF MovedTo
<1>5. CallHolds(h2, to, val, nx, List!Idle, T[p], << >>)
  BY <1>4 DEF CallHolds
<1>6. /\ o2 \in [Threads -> AllOps] /\ w2 \in [Threads -> Seq(Nodes)]
      /\ o2[t] = List!Idle /\ w2[t] = << >>
      /\ \A u \in Threads : u # t => o2[u] = o[u] /\ w2[u] = w[u]
      /\ TargetsApart(o2)
  <2>1. << >> \in Seq(Nodes) /\ TargetIsFree(o, t, List!Idle)
    BY KindsApart DEF TargetIsFree
  <2> QED
    BY <1>5, <2>1, OtherCallsChange, ZenonT(60)
<1>7. ASSUME NEW u \in Threads
      PROVE  CallHolds(h2, to, val, nx, o2[u], T[InCall(u)], w2[u])
  <2>1. CASE u = t
    BY <1>5, <1>6, <2>1
  <2>2. CASE u # t
    <3>1. ASSUME NEW i \in 1 .. Len(w[u]), own[w[u][i]] \in ListPlaces
          PROVE  to[w[u][i]] \in ListPlaces
      BY <1>1, <1>2, <3>1
    <3>2. NodesKept(own, val, nx, to, val, nx, u, w[u])
      BY <3>1 DEF NodesKept
    <3>3. ListsKept(h, h2, o[u])
      <4>1. DOMAIN h2 = DOMAIN h \cup {x}
        OBVIOUS
      <4>2. o[u] \in List!CopyOps /\ x \notin DOMAIN h => o[u].target # x
        BY <2>2 DEF TargetIsFree
      <4> QED
        BY <4>1, <4>2 DEF ListsKept
    <3>4. CallHolds(h2, to, val, nx, o[u], S[InCall(u)], w[u])
      BY <3>2, <3>3, CallKept
    <3>5. T[InCall(u)] = S[InCall(u)]
      BY <1>4, <2>2, PlacesApart
    <3> QED
      BY <1>6, <2>2, <3>4, <3>5
  <2> QED
    BY <2>1, <2>2
<1>8. ListsHold(T, h2, nx)
  <2>1. ASSUME NEW y \in Lists, y # x PROVE T[InList(y)] = S[InList(y)]
    BY <1>4, <2>1, PlacesApart
  <2>2. ASSUME NEW y \in DOMAIN h2 PROVE Linked(nx, h2[y], T[InList(y)])
    <3>1. CASE y = x
      BY <3>1
    <3>2. CASE y # x
      <4>1. y \in DOMAIN h /\ y \in Lists /\ h2[y] = h[y]
        BY <1>1, <3>2 DEF ListsHold
      <4> QED
        BY <1>1, <2>1, <3>2, <4>1 DEF ListsHold
    <3> QED
      BY <3>1, <3>2
  <2> QED
    BY <1>1, <2>1, <2>2 DEF ListsHold
<1> QED
  BY <1>3, <1>6, <1>7, <1>8 DEF ListsAre

(* A thread begins to walk over a list.                                    *)
LEMMA WalkBegun ==
  ASSUME NEW S, NEW own, NEW h, NEW val, NEW nx, NEW o, NEW w,
         ListsAre(S, own, h, val, nx, o, w),
         NEW t \in Threads, o[t] = List!Idle, NEW x \in DOMAIN h,
         NEW a \in List!SizeOps \cup List!FindOps \cup List!CopyOps,
         a.at = h[x], a.walked = 0,
         a \in List!CopyOps =>
           /\ a.target \notin DOMAIN h /\ a.first = NoPtr /\ a.last = NoPtr
           /\ \A u \in Threads : o[u] \in List!CopyOps => o[u].target # a.target,
         NEW o2, Changed(o, o2, t, a), NEW w2, Changed(w, w2, t, S[InList(x)])
  PROVE  ListsAre(S, own, h, val, nx, o2, w2)
<1> DEFINE v == S[InList(x)]
<1>1. /\ x \in Lists /\ InList(x) \in Places /\ InList(x) \in ListPlaces
      /\ InCall(t) \in Places
  BY PlacesApart DEF ListsAre, ListsHold
<1>2. v \in Seq(Nodes) /\ S[InCall(t)] = << >>
  <2>1. CallHolds(h, own, val, nx, o[t], S[InCall(t)], w[t])
    BY DEF ListsAre
  <2>2. S[InCall(t)] = << >>
    BY <2>1, CallIs
  <2> QED
    BY <1>1, <2>2 DEF ListsAre, Owned
<1>3. Walks(own, val, nx, a, v)
  <2>1. Linked(nx, h[x], v)
    BY DEF ListsAre, ListsHold
  <2>2. h[x] = NodeAfter(v, 0)
    BY <2>1 DEF Linked
  <2>3. \A i \in 1 .. Len(v) : own[v[i]] = InList(x)
    BY <1>1 DEF ListsAre, Owned
  <2>4. a.walked \in 0 .. Len(v)
    BY <1>2
  <2>5. \A i \in 1 .. a.walked : FALSE
    OBVIOUS
  <2> QED
    BY <1>1, <2>1, <2>2, <2>3, <2>4, <2>5 DEF Walks
<1>4. a \in List!CopyOps => Copies(val, nx, a, << >>, v)
  BY NothingLinked DEF Copies
<1>5. CallHolds(h, own, val, nx, a, S[InCall(t)], v)
  BY <1>2, <1>3, <1>4 DEF CallHolds
<1> HIDE DEF v
<1>6. Changed(w, w2, t, v)
  BY DEF v
<1>7. TargetIsFree(o, t, a)
  BY DEF TargetIsFree
<1> QED
  BY <1>2, <1>5, <1>6, <1>7, CallChanges

(* Nothing changes in w where nothing does.                                *)
LEMMA NothingChanges ==
  ASSUME NEW f, NEW D, NEW R, f \in [D -> R], NEW t \in D
  PROVE  Changed(f, f, t, f[t])
BY DEF Changed

(* A walk goes on.                                                         *)
LEMMA WalkGoesOn ==
  ASSUME NEW S, NEW own, NEW h, NEW val, NEW nx, NEW o, NEW w,
         ListsAre(S, own, h, val, nx, o, w),
         NEW t \in Threads, o[t].kind \in {"size", "find"}, o[t].at # NoPtr,
         o[t].kind = "find" => val[o[t].at] # o[t].wanted,
         NEW o2, Changed(o, o2, t, [o[t] EXCEPT !.at = nx[@], !.walked = @ + 1])
  PROVE  ListsAre(S, own, h, val, nx, o2, w)
<1> DEFINE a == [o[t] EXCEPT !.at = nx[@], !.walked = @ + 1]
           v == w[t]
           k == o[t].walked
<1>1. CallHolds(h, own, val, nx, o[t], S[InCall(t)], v)
  BY DEF ListsAre
<1>2. o[t].kind = "size" => o[t] \in List!SizeOps
  BY <1>1, CallIs
<1>3. o[t].kind = "find" => o[t] \in List!FindOps
  BY <1>1, CallIs
<1>4. S[InCall(t)] = << >> /\ Walks(own, val, nx, o[t], v)
  BY <1>1, CallIs
<1>5. v \in Seq(Nodes) /\ k \in 0 .. Len(v) /\ nx \in [Nodes -> List!Pointers]
  BY <1>4 DEF ListsAre, Walks
<1>6. k + 1 \in 1 .. Len(v) /\ o[t].at = v[k + 1]
  BY <1>4, <1>5 DEF Walks, NodeAfter
<1>7. nx[o[t].at] = NodeAfter(v, k + 1) /\ nx[o[t].at] \in List!Pointers
  BY <1>4, <1>5, <1>6 DEF Walks, Linked
<1>8. a.at = nx[o[t].at] /\ a.walked = k + 1
      /\ (o[t].kind = "size" => a \in List!SizeOps)
      /\ (o[t].kind = "find" => a \in List!FindOps /\ a.wanted = o[t].wanted)
  <2> DEFINE b == o[t]
             y == nx[o[t].at]
             m == k + 1
  <2>1. b \in List!SizeOps \cup List!FindOps
    BY <1>2, <1>3
  <2>2. a = [b EXCEPT !.at = y, !.walked = m]
    BY <2>1 DEF List!SizeOps, List!FindOps
  <2>3. y \in List!Pointers /\ m \in Nat
    BY <1>5, <1>7
  <2> HIDE DEF b, y, m, a
  <2>4. b.kind = "size" => a \in List!SizeOps /\ a.at = y /\ a.walked = m
    <3> SUFFICES ASSUME b.kind = "size" PROVE a \in List!SizeOps /\ a.at = y /\ a.walked = m
      OBVIOUS
    <3>1. b \in List!SizeOps
      BY <1>2 DEF b
    <3>2. a = [kind |-> "size", list |-> b.list, at |-> y, walked |-> m]
      BY <2>2, <3>1 DEF List!SizeOps
    <3> QED
      BY <2>3, <3>1, <3>2 DEF List!SizeOps
  <2>5. b.kind = "find" => a \in List!FindOps /\ a.at = y /\ a.walked = m
                           /\ a.wanted = b.wanted
    <3> SUFFICES ASSUME b.kind = "find"
                 PROVE  /\ a \in List!FindOps /\ a.at = y /\ a.walked = m
                        /\ a.wanted = b.wanted
      OBVIOUS
    <3>1. b \in List!FindOps
      BY <1>3 DEF b
    <3>2. a = [kind |-> "find", list |-> b.list, at |-> y, walked |-> m,
               wanted |-> b.wanted]
      BY <2>2, <3>1 DEF List!FindOps
    <3> QED
      BY <2>3, <3>1, <3>2 DEF List!FindOps
  <2> QED
    BY <2>4, <2>5 DEF b, y, m
<1> HIDE DEF a, v
<1>9. Walks(own, val, nx, a, v)
  <2>1. a.walked \in 0 .. Len(v) /\ a.at = NodeAfter(v, a.walked)
    BY <1>6, <1>7, <1>8
  <2>2. ASSUME a \in List!FindOps
        PROVE  \A i \in 1 .. a.walked : val[v[i]] # a.wanted
    <3>1. o[t].kind = "find"
      BY <1>8, <2>2, KindsApart
    <3>2. \A i \in 1 .. k : val[v[i]] # o[t].wanted
      BY <1>3, <1>4, <3>1 DEF Walks
    <3>3. val[v[k + 1]] # o[t].wanted
      BY <1>6, <3>1
    <3>4. \A i \in 1 .. (k + 1) : i \in 1 .. k \/ i = k + 1
      BY <1>5
    <3> QED
      BY <1>8, <3>1, <3>2, <3>3, <3>4
  <2> QED
    BY <1>4, <2>1, <2>2 DEF Walks
<1>10. CallHolds(h, own, val, nx, a, S[InCall(t)], v) /\ TargetIsFree(o, t, a)
  BY <1>4, <1>8, <1>9, KindsApart DEF CallHolds, TargetIsFree
<1>11. Changed(w, w, t, v)
  <2>1. w \in [Threads -> Seq(Nodes)]
    BY DEF ListsAre
  <2> QED
    BY <2>1, NothingChanges DEF v
<1>12. Changed(o, o2, t, a)
  BY DEF a
<1> QED
  BY <1>5, <1>10, <1>11, <1>12, CallChanges

(* A walk ends that does not copy.                                         *)
LEMMA WalkEnds ==
  ASSUME NEW S, NEW own, NEW h, NEW val, NEW nx, NEW o, NEW w,
         ListsAre(S, own, h, val, nx, o, w),
         NEW t \in Threads, o[t].kind \in {"size", "find"},
         NEW o2, Changed(o, o2, t, List!Idle), NEW w2, Changed(w, w2, t, << >>)
  PROVE  ListsAre(S, own, h, val, nx, o2, w2)
<1>1. CallHolds(h, own, val, nx, o[t], S[InCall(t)], w[t])
  BY DEF ListsAre
<1>2. S[InCall(t)] = << >>
  BY <1>1, CallIs
<1>3. CallHolds(h, own, val, nx, List!Idle, S[InCall(t)], << >>)
  BY <1>2 DEF CallHolds
<1>4. << >> \in Seq(Nodes) /\ TargetIsFree(o, t, List!Idle)
  BY KindsApart DEF TargetIsFree
<1> QED
  BY <1>3, <1>4, CallChanges

(* push takes a node that comes before the head it has seen.               *)
LEMMA PushBegins ==
  ASSUME NEW S, NEW own, NEW h, NEW val, NEW nx, NEW o, NEW w,
         ListsAre(S, own, h, val, nx, o, w),
         NEW t \in Threads, o[t] = List!Idle, NEW x \in DOMAIN h,
         NEW n \in Nodes, n \notin DOMAIN val, NEW y \in Values,
         NEW val2, val2 = List!With(val, n, y), NEW nx2, Changed(nx, nx2, n, h[x]),
         NEW T, Changed(S, T, InCall(t), Append(S[InCall(t)], n)),
         NEW a, a = [kind |-> "push", list |-> x, item |-> n, at |-> h[x]],
         NEW o2, Changed(o, o2, t, a)
  PROVE  \E to : ListsAre(T, to, h, val2, nx2, o2, w)
<1> DEFINE p == InCall(t)
           to == [own EXCEPT ![n] = p]
<1>1. /\ p \in Places /\ Owned(S, own, val) /\ nx \in [Nodes -> List!Pointers]
      /\ x \in Lists /\ h[x] \in List!Pointers /\ w \in [Threads -> Seq(Nodes)]
      /\ DOMAIN own = Nodes /\ DOMAIN S = Places
  BY PlacesApart DEF ListsAre, ListsHold, Owned
<1>2. S[p] = << >> /\ w[t] = << >>
  <2>1. CallHolds(h, own, val, nx, o[t], S[p], w[t])
    BY DEF ListsAre
  <2> QED
    BY <2>1, CallIs
<1>3. Changed(own, to, n, p)
  BY <1>1, ExceptChanges
<1> HIDE DEF to
<1>4. Owned(T, to, val2)
  BY <1>1, <1>3, OwnedAppended
<1>5. own[n] = Nowhere
  BY <1>1 DEF Owned
<1>6. \A m \in Nodes : own[m] # Nowhere =>
        m # n /\ nx2[m] = nx[m] /\ val2[m] = val[m] /\ to[m] = own[m]
  <2>1. \A m \in Nodes : m # n /\ m \in DOMAIN val => val2[m] = val[m]
    BY DEF List!With
  <2>2. \A m \in Nodes : m \in DOMAIN val <=> own[m] # Nowhere
    BY <1>1 DEF Owned
  <2> QED
    BY <1>1, <1>3, <1>5, <2>1, <2>2 DEF Changed
<1>7. OthersKept(S, own, val, nx, T, to, val2, nx2, t)
  BY <1>1, <1>6 DEF OthersKept, Changed
<1>8. nx2 \in [Nodes -> List!Pointers]
  <2>1. \A m \in Nodes : nx2[m] \in List!Pointers
    BY <1>1 DEF Changed
  <2> QED
    BY <1>1, <2>1 DEF Changed
<1>9. a \in List!PushOps /\ a.list = x /\ a.item = n /\ a.at = h[x]
  BY <1>1 DEF List!PushOps
<1>10. T[p] = <<n>> /\ nx2[n] = h[x]
  BY <1>1, <1>2 DEF Changed
<1>11. CallHolds(h, to, val2, nx2, a, T[p], << >>)
  BY <1>9, <1>10 DEF CallHolds
<1>12. TargetIsFree(o, t, a) /\ << >> \in Seq(Nodes)
  BY <1>9, KindsApart DEF TargetIsFree
<1>13. Changed(w, w, t, << >>)
  <2>1. Changed(w, w, t, w[t])
    BY <1>1, NothingChanges
  <2> QED
    BY <1>2, <2>1
<1>14. ListsAre(T, to, h, val2, nx2, o2, w)
  BY <1>4, <1>7, <1>8, <1>11, <1>12, <1>13, CallSteps
<1> QED
  BY <1>14

(* After a CAS that fails, it comes before the head that there is now.     *)
LEMMA PushRetries ==
  ASSUME NEW S, NEW own, NEW h, NEW val, NEW nx, NEW o, NEW w,
         ListsAre(S, own, h, val, nx, o, w),
         NEW t \in Threads, o[t].kind = "push",
         NEW y, y = h[o[t].list], NEW nx2, Changed(nx, nx2, o[t].item, y),
         NEW a, a = [o[t] EXCEPT !.at = y], NEW o2, Changed(o, o2, t, a)
  PROVE  ListsAre(S, own, h, val, nx2, o2, w)
<1> DEFINE p == InCall(t)
           n == o[t].item
<1>1. /\ o[t] \in List!PushOps /\ o[t].list \in DOMAIN h
      /\ S[p] = <<n>> /\ w[t] = << >>
  <2>1. CallHolds(h, own, val, nx, o[t], S[p], w[t])
    BY DEF ListsAre
  <2> QED
    BY <2>1, CallIs
<1>2. /\ p \in Places /\ Owned(S, own, val) /\ nx \in [Nodes -> List!Pointers]
      /\ y \in List!Pointers /\ w \in [Threads -> Seq(Nodes)]
  BY <1>1, PlacesApart DEF ListsAre
<1>3. n \in Nodes /\ own[n] = p
  <2>1. n \in Nodes
    BY <1>1 DEF List!PushOps
  <2>2. 1 \in 1 .. Len(S[p]) /\ S[p][1] = n
    BY <1>1
  <2>3. \A i \in 1 .. Len(S[p]) : own[S[p][i]] = p
    BY <1>2 DEF Owned
  <2> QED
    BY <2>1, <2>2, <2>3
<1>4. nx2 \in [Nodes -> List!Pointers] /\ nx2[n] = y
  <2>1. \A m \in Nodes : nx2[m] \in List!Pointers
    BY <1>2, <1>3 DEF Changed
  <2> QED
    BY <1>2, <2>1 DEF Changed
<1>5. OthersKept(S, own, val, nx, S, own, val, nx2, t)
  BY <1>2, <1>3 DEF OthersKept, Changed
<1>6. a \in List!PushOps /\ a.list = o[t].list /\ a.item = n /\ a.at = y
  BY <1>1, <1>2 DEF List!PushOps
<1>7. CallHolds(h, own, val, nx2, a, S[p], << >>)
  BY <1>1, <1>4, <1>6 DEF CallHolds
<1>8. TargetIsFree(o, t, a) /\ << >> \in Seq(Nodes)
  BY <1>6, KindsApart DEF TargetIsFree
<1>9. Changed(w, w, t, << >>)
  <2>1. Changed(w, w, t, w[t])
    BY <1>2, NothingChanges
  <2> QED
    BY <1>1, <2>1
<1> QED
  BY <1>2, <1>4, <1>5, <1>7, <1>8, <1>9, CallSteps

(* A CAS that succeeds puts the node in front of the list.                 *)
PushSucceeds(h, h2, o, t, x) ==
  /\ o[t].kind = "push" /\ x = o[t].list /\ h[x] = o[t].at
  /\ Changed(h, h2, x, o[t].item)

LEMMA PushEnds ==
  ASSUME NEW S, NEW own, NEW h, NEW val, NEW nx, NEW o, NEW w,
         ListsAre(S, own, h, val, nx, o, w),
         NEW t \in Threads, NEW x, NEW h2, PushSucceeds(h, h2, o, t, x),
         NEW T, MovedTo(S, T, InCall(t), InList(x)),
         NEW o2, Changed(o, o2, t, List!Idle), NEW w2, Changed(w, w2, t, << >>)
  PROVE  /\ \E to : ListsAre(T, to, h2, val, nx, o2, w2)
         /\ S[InCall(t)] = <<o[t].item>> /\ x \in DOMAIN h
<1> USE DEF PushSucceeds
<1> DEFINE p == InCall(t)
           n == o[t].item
           q == InList(x)
<1>1. /\ o[t] \in List!PushOps /\ x \in DOMAIN h
      /\ S[p] = <<n>> /\ nx[n] = o[t].at
  <2>1. CallHolds(h, own, val, nx, o[t], S[p], w[t])
    BY DEF ListsAre
  <2> QED
    BY <2>1, CallIs
<1>2. /\ n \in Nodes /\ x \in Lists /\ q \in Places
      /\ h \in [DOMAIN h -> List!Pointers] /\ S[q] \in Seq(Nodes)
      /\ Linked(nx, h[x], S[q])
  BY <1>1, PlacesApart DEF List!PushOps, ListsAre, ListsHold, Owned
<1>3. h2[x] = n /\ \A y \in DOMAIN h : y # x => h2[y] = h[y]
  BY <1>1 DEF Changed
<1>4. h2 \in [DOMAIN h \cup {x} -> List!Pointers]
  <2>1. DOMAIN h2 = DOMAIN h \cup {x}
    BY <1>1 DEF Changed
  <2>2. \A y \in DOMAIN h2 : h2[y] \in List!Pointers
    BY <1>2, <1>3, <2>1 DEF List!Pointers
  <2> QED
    BY <2>1, <2>2 DEF Changed
<1>5. Linked(nx, n, <<n>> \o S[q])
  <2> DEFINE c == S[q]
             d == <<n>> \o c
  <2>1. /\ c \in Seq(Nodes) /\ Len(d) = Len(c) + 1 /\ d[1] = n
        /\ \A i \in 1 .. Len(c) : d[i + 1] = c[i]
    BY <1>2
  <2>2. \A i \in 0 .. Len(c) : NodeAfter(d, i + 1) = NodeAfter(c, i)
    BY <2>1 DEF NodeAfter
  <2>3. nx[n] = NodeAfter(c, 0) /\ \A i \in 1 .. Len(c) : nx[c[i]] = NodeAfter(c, i)
    BY <1>1, <1>2 DEF Linked
  <2>4. n = NodeAfter(d, 0)
    BY <2>1 DEF NodeAfter
  <2> HIDE DEF c, d
  <2>5. ASSUME NEW i \in 1 .. Len(d) PROVE nx[d[i]] = NodeAfter(d, i)
    <3>1. CASE i = 1
      <4>1. NodeAfter(d, 0 + 1) = NodeAfter(c, 0) /\ 0 + 1 = 1
        BY <2>1, <2>2
      <4> QED
        BY <2>1, <2>3, <3>1, <4>1
    <3>2. CASE i # 1
      <4>1. i - 1 \in 1 .. Len(c) /\ i - 1 \in 0 .. Len(c) /\ (i - 1) + 1 = i
        BY <2>1, <3>2
      <4>2. d[i] = c[i - 1] /\ NodeAfter(d, i) = NodeAfter(c, i - 1)
        BY <2>1, <2>2, <4>1
      <4> QED
        BY <2>3, <4>1, <4>2
    <3> QED
      BY <3>1, <3>2
  <2>6. Linked(nx, n, d)
    BY <2>4, <2>5 DEF Linked
  <2> QED
    BY <2>6 DEF c, d
<1>6. Linked(nx, h2[x], T[q])
  BY <1>1, <1>3, <1>5 DEF MovedTo
<1>7. HeadSet(h, h2, o, t, x)
  BY <1>1, <1>3, <1>4 DEF HeadSet
<1>8. \E to : ListsAre(T, to, h2, val, nx, o2, w2)
  BY <1>2, <1>6, <1>7, CallGives
<1> QED
  BY <1>1, <1>8

(* The pointers after a node n has been linked to the last one of a copy.  *)
NodeLinked(nx, nx2, last, n) ==
  /\ nx2 \in [Nodes -> List!Pointers]
  /\ \A m \in Nodes : nx2[m] = IF m = last THEN n ELSE
                              IF m = n THEN NoPtr ELSE nx[m]

CopiedOn(b, nx, n) == [b EXCEPT !.at = nx[@], !.walked = @ + 1,
                         !.first = IF @ = NoPtr THEN n ELSE @, !.last = n]

(* A copy takes a node for what its iterator points to.                    *)
LEMMA CopyGoesOn ==
  ASSUME NEW S, NEW own, NEW h, NEW val, NEW nx, NEW o, NEW w,
         ListsAre(S, own, h, val, nx, o, w),
         NEW t \in Threads, o[t].kind = "copy", o[t].at # NoPtr,
         NEW n \in Nodes, n \notin DOMAIN val,
         NEW val2, val2 = List!With(val, n, val[o[t].at]),
         NEW nx2, NodeLinked(nx, nx2, o[t].last, n),
         NEW T, Changed(S, T, InCall(t), Append(S[InCall(t)], n)),
         NEW a, a = CopiedOn(o[t], nx, n), NEW o2, Changed(o, o2, t, a)
  PROVE  \E to : ListsAre(T, to, h, val2, nx2, o2, w)
<1> USE DEF NodeLinked, CopiedOn
<1> DEFINE p == InCall(t)
           b == o[t]
           s == S[p]
           c == Append(s, n)
           v == w[t]
           k == b.walked
           to == [own EXCEPT ![n] = p]
<1>1. /\ b \in List!CopyOps /\ b.target \notin DOMAIN h
      /\ Walks(own, val, nx, b, v) /\ Copies(val, nx, b, s, v)
  <2>1. CallHolds(h, own, val, nx, b, s, v)
    BY DEF ListsAre
  <2> QED
    BY <2>1, CallIs
<1>2. /\ p \in Places /\ Owned(S, own, val) /\ nx \in [Nodes -> List!Pointers]
      /\ w \in [Threads -> Seq(Nodes)] /\ v \in Seq(Nodes)
      /\ DOMAIN own = Nodes /\ DOMAIN S = Places /\ s \in Seq(Nodes)
  BY PlacesApart DEF ListsAre, Owned
<1>3. OneByOne(s) /\ \A i \in 1 .. Len(s) : s[i] \in Nodes /\ own[s[i]] = p
  BY <1>2 DEF Owned
<1>4. \A m \in Nodes : m \in DOMAIN val <=> own[m] # Nowhere
  BY <1>2 DEF Owned
<1>5. own[n] = Nowhere
  BY <1>4
<1>6. k \in 0 .. Len(v) /\ k + 1 \in 1 .. Len(v) /\ b.at = v[k + 1]
      /\ b.at \in Nodes /\ Len(s) = k
  BY <1>1, <1>2, SMTT(40) DEF Walks, Copies, NodeAfter
<1>7. \A i \in 1 .. Len(v) : v[i] \in Nodes /\ own[v[i]] \in ListPlaces
  BY <1>1, <1>2 DEF Walks
<1>8. val[b.at] \in Values
  <2>1. b.at \in DOMAIN val
    BY <1>4, <1>6, <1>7, PlacesApart
  <2> QED
    BY <1>2, <2>1 DEF Owned
<1>9. Changed(own, to, n, p)
  BY <1>2, ExceptChanges
<1> HIDE DEF to
<1>10. Owned(T, to, val2)
  BY <1>2, <1>8, <1>9, OwnedAppended
<1>11. b.last = IF s = << >> THEN NoPtr ELSE s[Len(s)]
  BY <1>1 DEF Copies
<1>12. \A m \in Nodes : own[m] # Nowhere =>
         m # n /\ val2[m] = val[m] /\ to[m] = own[m]
  <2>1. \A m \in Nodes : m # n /\ m \in DOMAIN val => val2[m] = val[m]
    BY DEF List!With
  <2> QED
    BY <1>2, <1>4, <1>5, <1>9, <2>1 DEF Changed
<1>13. \A m \in Nodes : own[m] # Nowhere /\ own[m] # p => nx2[m] = nx[m]
  <2>1. b.last \in Nodes => own[b.last] = p
    <3>1. CASE s = << >>
      BY <1>11, <3>1, NodesAssumption
    <3>2. CASE s # << >>
      <4>1. Len(s) \in 1 .. Len(s)
        BY <1>2, <3>2
      <4> QED
        BY <1>3, <1>11, <3>2, <4>1
    <3> QED
      BY <3>1, <3>2
  <2> QED
    BY <1>5, <2>1
<1>14. OthersKept(S, own, val, nx, T, to, val2, nx2, t)
  BY <1>2, <1>12, <1>13 DEF OthersKept, Changed
<1>15. T[p] = c
  BY DEF Changed
<1>16. nx[b.at] = NodeAfter(v, k + 1) /\ nx[b.at] \in List!Pointers
  BY <1>1, <1>2, <1>6 DEF Walks, Linked
<1> DEFINE first == IF b.first = NoPtr THEN n ELSE b.first
<1>17. /\ a \in List!CopyOps /\ a.at = NodeAfter(v, k + 1) /\ a.walked = k + 1
       /\ a.first = first /\ a.last = n /\ a.target = b.target
  <2> DEFINE y == nx[b.at]
             m == k + 1
  <2>1. y \in List!Pointers /\ m \in Nat /\ first \in List!Pointers
    BY <1>1, <1>2, <1>6, <1>16 DEF List!Pointers, List!CopyOps
  <2>2. a = [b EXCEPT !.at = y, !.walked = m, !.first = first, !.last = n]
    BY <1>1 DEF List!CopyOps
  <2> HIDE DEF y, m, first, b
  <2>3. a = [kind |-> "copy", list |-> b.list, at |-> y, walked |-> m,
             target |-> b.target, first |-> first, last |-> n]
    BY <1>1, <2>2 DEF List!CopyOps
  <2>4. n \in List!Pointers
    BY DEF List!Pointers
  <2>5. a \in List!CopyOps
    BY <1>1, <2>1, <2>3, <2>4 DEF List!CopyOps
  <2> DEFINE d == [kind |-> "copy", list |-> b.list, at |-> y, walked |-> m,
                   target |-> b.target, first |-> first, last |-> n]
  <2>6. /\ d.at = y /\ d.walked = m /\ d.first = first /\ d.last = n
        /\ d.target = b.target
    OBVIOUS
  <2>7. a = d
    BY <2>3
  <2>8. y = NodeAfter(v, k + 1) /\ m = k + 1
    BY <1>16 DEF y, m
  <2> QED
    <3> HIDE DEF d
    <3> QED
      BY <2>5, <2>6, <2>7, <2>8
<1>18. Walks(to, val2, nx2, a, v)
  <2>1. \A i \in 1 .. Len(v) : to[v[i]] \in ListPlaces /\ nx2[v[i]] = nx[v[i]]
    BY <1>2, <1>7, <1>12, <1>13, PlacesApart
  <2>2. Linked(nx2, NodeAfter(v, 0), v)
    BY <1>1, <2>1, LinkedKept DEF Walks
  <2>3. a \notin List!FindOps /\ a.walked \in 0 .. Len(v)
    BY <1>6, <1>17, KindsApart, SMTT(40)
  <2> QED
    BY <1>17, <2>1, <2>2, <2>3 DEF Walks
<1>19. /\ c \in Seq(Nodes) /\ Len(c) = k + 1 /\ c[k + 1] = n /\ c # << >>
       /\ \A i \in 1 .. k : c[i] = s[i]
  BY <1>2, <1>6
<1>20. Linked(nx2, first, c)
  <2>1. Linked(nx, b.first, s)
    BY <1>1 DEF Copies
  <2>2. first = NodeAfter(c, 0)
    <3>1. CASE k = 0
      BY <1>6, <1>19, <2>1, <3>1 DEF Linked, NodeAfter
    <3>2. CASE k # 0
      <4>1. b.first = s[1] /\ 1 \in 1 .. k /\ 0 + 1 = 1 /\ 0 < Len(c)
        BY <1>6, <1>19, <2>1, <3>2, SMTT(40) DEF Linked, NodeAfter
      <4>2. s[1] \in Nodes /\ c[1] = s[1]
        BY <1>3, <1>6, <1>19, <4>1
      <4> QED
        BY <4>1, <4>2, NodesAssumption DEF NodeAfter
    <3> QED
      BY <3>1, <3>2
  <2>3. ASSUME NEW i \in 1 .. Len(c) PROVE nx2[c[i]] = NodeAfter(c, i)
    <3>1. CASE i = k + 1
      <4>1. n # b.last
        <5>1. CASE s = << >>
          BY <1>11, <5>1, NodesAssumption
        <5>2. CASE s # << >>
          <6>1. Len(s) \in 1 .. Len(s)
            BY <1>2, <5>2
          <6> QED
            BY <1>2, <1>3, <1>5, <1>11, <5>2, <6>1, PlacesApart
        <5> QED
          BY <5>1, <5>2
      <4> QED
        BY <1>19, <3>1, <4>1 DEF NodeAfter
    <3>2. CASE i = k /\ k # 0
      <4>1. s # << >> /\ k \in 1 .. k /\ k \in 1 .. Len(s)
        BY <1>6, <3>2
      <4>2. c[i] = s[k] /\ s[k] = b.last /\ s[k] \in Nodes
        BY <1>3, <1>6, <1>11, <1>19, <3>2, <4>1
      <4> QED
        BY <1>6, <1>19, <3>2, <4>2, SMTT(40) DEF NodeAfter
    <3>3. CASE i < k
      <4>1. i \in 1 .. k /\ i + 1 \in 1 .. k /\ i \in 1 .. Len(s) /\ k \in 1 .. Len(s)
        BY <1>6, <3>3
      <4>2. s[i] \in Nodes /\ s[i] # s[k] /\ s[i] # n
        BY <1>2, <1>3, <1>5, <3>3, <4>1, PlacesApart DEF OneByOne
      <4>3. s[i] # b.last
        BY <1>6, <1>11, <4>1, <4>2, SMTT(40)
      <4>4. nx[s[i]] = s[i + 1]
        BY <1>6, <2>1, <3>3, <4>1 DEF Linked, NodeAfter
      <4> QED
        BY <1>19, <4>1, <4>2, <4>3, <4>4 DEF NodeAfter
    <3> QED
      BY <1>6, <1>19, <3>1, <3>2, <3>3, SMTT(40)
  <2> HIDE DEF c, first
  <2> QED
    BY <2>2, <2>3 DEF Linked
<1>21. \A i \in 1 .. Len(c) : val2[c[i]] = val2[v[i]]
  <2>1. ASSUME NEW i \in 1 .. k PROVE val2[c[i]] = val2[v[i]]
    <3>1. i \in 1 .. Len(s) /\ i \in 1 .. Len(v) /\ c[i] = s[i]
      BY <1>6, <1>19, SMTT(40)
    <3>2. val[s[i]] = val[v[i]]
      BY <1>1, <3>1 DEF Copies
    <3>3. val2[s[i]] = val[s[i]] /\ val2[v[i]] = val[v[i]]
      BY <1>2, <1>3, <1>7, <1>12, <3>1, PlacesApart
    <3> QED
      BY <3>1, <3>2, <3>3
  <2>2. val2[c[k + 1]] = val2[v[k + 1]]
    <3>1. val2[n] = val[b.at]
      BY DEF List!With
    <3>2. val2[v[k + 1]] = val[v[k + 1]]
      BY <1>6, <1>7, <1>12, PlacesApart
    <3> QED
      BY <1>6, <1>19, <3>1, <3>2
  <2>3. \A i \in 1 .. Len(c) : i \in 1 .. k \/ i = k + 1
    BY <1>6, <1>19, SMTT(40)
  <2> QED
    BY <2>1, <2>2, <2>3
<1> HIDE DEF c, v, b, k, first
<1>22. Copies(val2, nx2, a, c, v)
  BY <1>17, <1>19, <1>20, <1>21 DEF Copies
<1>23. CallHolds(h, to, val2, nx2, a, T[p], v)
  BY <1>1, <1>15, <1>17, <1>18, <1>22 DEF CallHolds
<1>24. TargetIsFree(o, t, a)
  BY <1>1, <1>17 DEF TargetIsFree, ListsAre, TargetsApart, b
<1>25. Changed(w, w, t, v)
  BY <1>2, NothingChanges DEF v
<1>26. ListsAre(T, to, h, val2, nx2, o2, w)
  BY <1>2, <1>10, <1>14, <1>23, <1>24, <1>25, CallSteps
<1> QED
  BY <1>26

(* A copy that has reached the end becomes the list it was made for.       *)
CopySucceeds(h, h2, o, t, x) ==
  /\ o[t].kind = "copy" /\ o[t].at = NoPtr /\ x = o[t].target
  /\ h2 = List!With(h, x, o[t].first)

LEMMA CopyEnds ==
  ASSUME NEW S, NEW own, NEW h, NEW val, NEW nx, NEW o, NEW w,
         ListsAre(S, own, h, val, nx, o, w),
         NEW t \in Threads, NEW x, NEW h2, CopySucceeds(h, h2, o, t, x),
         NEW T, MovedTo(S, T, InCall(t), InList(x)),
         NEW o2, Changed(o, o2, t, List!Idle), NEW w2, Changed(w, w2, t, << >>)
  PROVE  /\ \E to : ListsAre(T, to, h2, val, nx, o2, w2)
         /\ x \in Lists \ DOMAIN h /\ S[InList(x)] = << >>
         /\ Len(S[InCall(t)]) = Len(w[t])
         /\ \A i \in 1 .. Len(w[t]) : val[S[InCall(t)][i]] = val[w[t][i]]
<1> USE DEF CopySucceeds
<1> DEFINE p == InCall(t)
           b == o[t]
           v == w[t]
<1>1. /\ b \in List!CopyOps /\ b.target \notin DOMAIN h
      /\ Walks(own, val, nx, b, v) /\ Copies(val, nx, b, S[p], v)
  <2>1. CallHolds(h, own, val, nx, b, S[p], v)
    BY DEF ListsAre
  <2> QED
    BY <2>1, CallIs
<1>2. /\ x \in Lists \ DOMAIN h /\ S[InList(x)] = << >> /\ p \in Places
      /\ b.first \in List!Pointers /\ S[p] \in Seq(Nodes) /\ v \in Seq(Nodes)
      /\ h \in [DOMAIN h -> List!Pointers]
  BY <1>1, PlacesApart DEF List!CopyOps, ListsAre, ListsHold, Owned
<1>3. b.walked = Len(v)
  <2>1. b.walked \in 0 .. Len(v) /\ NoPtr = NodeAfter(v, b.walked)
    BY <1>1 DEF Walks
  <2>2. CASE b.walked < Len(v)
    <3>1. v[b.walked + 1] \in Nodes
      BY <1>2, <2>1, <2>2
    <3> QED
      BY <2>1, <2>2, <3>1, NodesAssumption DEF NodeAfter
  <2> QED
    BY <1>2, <2>1, <2>2
<1>4. /\ Len(S[p]) = Len(v)
      /\ \A i \in 1 .. Len(v) : val[S[p][i]] = val[v[i]]
  BY <1>1, <1>3 DEF Copies
<1>5. TargetIsFree(o, t, b)
  BY <1>1 DEF TargetIsFree, ListsAre, TargetsApart
<1>6. h2[x] = b.first /\ h2 \in [DOMAIN h \cup {x} -> List!Pointers]
      /\ \A y \in DOMAIN h : y # x => h2[y] = h[y]
  BY <1>2 DEF List!With
<1>7. HeadSet(h, h2, o, t, x)
  BY <1>1, <1>5, <1>6 DEF HeadSet
<1>8. T[InList(x)] = S[p]
  <2>1. T[InList(x)] = S[p] \o << >>
    BY <1>2 DEF MovedTo
  <2> QED
    BY <1>2, <2>1
<1>9. Linked(nx, h2[x], T[InList(x)])
  BY <1>1, <1>6, <1>8 DEF Copies
<1>10. \E to : ListsAre(T, to, h2, val, nx, o2, w2)
  BY <1>2, <1>7, <1>9, CallGives
<1> QED
  BY <1>2, <1>4, <1>10

------------------------------------------------------------------------------
(* The steps of the lists: they keep the invariant, and each of them is    *)
(* one of PushList or none.                                                *)

ListsNow(S, own) == ListsAre(S, own, head, value, next, op, path)

(* Where the nodes are need not be recorded: that they are somewhere is.   *)
ListsInv == \E S, own : ListsNow(S, own)

ItemsNow == [x \in DOMAIN head |-> List!Elements(List!Chain(head[x]))]
ViewNow == [t \in Threads |-> List!Elements(path[t])]

Els(val, c) == [i \in 1 .. Len(c) |-> val[c[i]]]

LEMMA ElsKept ==
  ASSUME NEW val, NEW val2, NEW c,
         \A i \in 1 .. Len(c) : val2[c[i]] = val[c[i]]
  PROVE  Els(val2, c) = Els(val, c)
BY DEF Els

LEMMA NodesAllocated ==
  ASSUME NEW S, NEW own, NEW h, NEW val, NEW nx, NEW o, NEW w,
         ListsAre(S, own, h, val, nx, o, w)
  PROVE  /\ \A x \in Lists : \A i \in 1 .. Len(S[InList(x)]) :
              S[InList(x)][i] \in DOMAIN val
         /\ \A t \in Threads : \A i \in 1 .. Len(w[t]) : w[t][i] \in DOMAIN val
<1>1. /\ Owned(S, own, val) /\ w \in [Threads -> Seq(Nodes)]
      /\ S \in [Places -> Seq(Nodes)]
  BY DEF ListsAre, Owned
<1>2. \A n \in Nodes : n \in DOMAIN val <=> own[n] # Nowhere
  BY <1>1 DEF Owned
<1>3. ASSUME NEW x \in Lists, NEW i \in 1 .. Len(S[InList(x)])
      PROVE  S[InList(x)][i] \in DOMAIN val
  <2>1. InList(x) \in Places /\ InList(x) # Nowhere
    BY PlacesApart
  <2>2. S[InList(x)][i] \in Nodes /\ own[S[InList(x)][i]] = InList(x)
    BY <1>1, <2>1 DEF Owned
  <2> QED
    BY <1>2, <2>1, <2>2
<1>4. ASSUME NEW t \in Threads, NEW i \in 1 .. Len(w[t])
      PROVE  w[t][i] \in DOMAIN val
  <2>1. CallHolds(h, own, val, nx, o[t], S[InCall(t)], w[t])
    BY DEF ListsAre
  <2>2. w[t] # << >> /\ w[t][i] \in Nodes
    BY <1>1
  <2>3. Walks(own, val, nx, o[t], w[t])
    BY <2>1, <2>2, CallIs
  <2>4. own[w[t][i]] \in ListPlaces
    BY <2>3 DEF Walks
  <2> QED
    BY <1>2, <2>2, <2>4, PlacesApart
<1> QED
  BY <1>3, <1>4

(* What the abstract lists are.                                            *)
ListsAreShown ==
  \A S, own : ListsNow(S, own) =>
    /\ \A x \in DOMAIN head : List!Chain(head[x]) = S[InList(x)]
    /\ \A x \in DOMAIN head : ItemsNow[x] = Els(value, S[InList(x)])
    /\ \A t \in Threads : ViewNow[t] = Els(value, path[t])

LEMMA Shown == ListsAreShown
<1> SUFFICES ASSUME NEW S, NEW own, ListsNow(S, own)
             PROVE  /\ \A x \in DOMAIN head : List!Chain(head[x]) = S[InList(x)]
                    /\ \A x \in DOMAIN head : ItemsNow[x] = Els(value, S[InList(x)])
                    /\ \A t \in Threads : ViewNow[t] = Els(value, path[t])
  BY DEF ListsAreShown
<1>1. ASSUME NEW x \in DOMAIN head PROVE List!Chain(head[x]) = S[InList(x)]
  <2>1. InList(x) \in Places /\ Owned(S, own, value)
        /\ Linked(next, head[x], S[InList(x)])
    BY PlacesApart DEF ListsNow, ListsAre, ListsHold
  <2>2. S[InList(x)] \in Seq(Nodes) /\ OneByOne(S[InList(x)])
    BY <2>1 DEF Owned
  <2> QED
    BY <2>1, <2>2, ChainIs
<1> QED
  BY <1>1 DEF ItemsNow, ViewNow, Els, List!Elements

(* The lists and the views as they are now, and as they are to be.         *)
LEMMA Before ==
  ASSUME NEW S, NEW own, ListsNow(S, own)
  PROVE  /\ DOMAIN ItemsNow = DOMAIN head /\ DOMAIN ViewNow = Threads
         /\ ItemsNow = [x \in DOMAIN ItemsNow |-> ItemsNow[x]]
         /\ ViewNow = [t \in Threads |-> ViewNow[t]]
         /\ \A x \in DOMAIN head : List!Chain(head[x]) = S[InList(x)]
         /\ \A x \in DOMAIN head : ItemsNow[x] = Els(value, S[InList(x)])
         /\ \A t \in Threads : ViewNow[t] = Els(value, path[t])
<1>1. /\ \A x \in DOMAIN head : List!Chain(head[x]) = S[InList(x)]
      /\ \A x \in DOMAIN head : ItemsNow[x] = Els(value, S[InList(x)])
      /\ \A t \in Threads : ViewNow[t] = Els(value, path[t])
  BY Shown DEF ListsAreShown
<1>2. /\ DOMAIN ItemsNow = DOMAIN head /\ DOMAIN ViewNow = Threads
      /\ ItemsNow = [x \in DOMAIN ItemsNow |-> ItemsNow[x]]
      /\ ViewNow = [t \in Threads |-> ViewNow[t]]
  BY DEF ItemsNow, ViewNow
<1> QED
  BY <1>1, <1>2

LEMMA After ==
  ASSUME NEW T, NEW to, ListsAre(T, to, head', value', next', op', path')
  PROVE  /\ ListsInv'
         /\ DOMAIN ItemsNow' = DOMAIN head' /\ DOMAIN ViewNow' = Threads
         /\ ItemsNow' = [x \in DOMAIN ItemsNow' |-> ItemsNow'[x]]
         /\ ViewNow' = [t \in Threads |-> ViewNow'[t]]
         /\ \A x \in DOMAIN head' : ItemsNow'[x] = Els(value', T[InList(x)])
         /\ \A t \in Threads : ViewNow'[t] = Els(value', path'[t])
<1>1. ListsAreShown'
  BY Shown, PTL
<1>2. /\ \A x \in DOMAIN head' : ItemsNow'[x] = Els(value', T[InList(x)])
      /\ \A t \in Threads : ViewNow'[t] = Els(value', path'[t])
  BY <1>1 DEF ListsAreShown, ListsNow
<1>3. /\ DOMAIN ItemsNow' = DOMAIN head' /\ DOMAIN ViewNow' = Threads
      /\ ItemsNow' = [x \in DOMAIN ItemsNow' |-> ItemsNow'[x]]
      /\ ViewNow' = [t \in Threads |-> ViewNow'[t]]
  BY DEF ItemsNow, ViewNow
<1>4. ListsInv'
  BY DEF ListsInv, ListsNow
<1> QED
  BY <1>2, <1>3, <1>4

(* The steps of PushList, of these lists and views.                        *)
LEMMA NoStepIsAbstract ==
  UNCHANGED <<ItemsNow, ViewNow>> => UNCHANGED List!Pushes!vars
BY DEF List!Pushes!vars, ItemsNow, ViewNow

LEMMA PushIsAbstract ==
  ASSUME NEW x \in DOMAIN head, NEW y \in Values,
         ItemsNow' = [ItemsNow EXCEPT ![x] = <<y>> \o @], UNCHANGED ViewNow
  PROVE  List!Pushes!Next
<1>1. List!Pushes!Push(x, y)
  BY DEF List!Pushes!Push, ItemsNow, ViewNow
<1>2. x \in DOMAIN ItemsNow
  BY DEF ItemsNow
<1> QED
  BY <1>1, <1>2 DEF List!Pushes!Next, ItemsNow

LEMMA MoveIsAbstract ==
  ASSUME NEW x \in DOMAIN head, NEW z \in Lists, z # x,
         ItemsNow' = [List!Pushes!WithList(z, ItemsNow[x]) EXCEPT ![x] = << >>],
         UNCHANGED ViewNow
  PROVE  List!Pushes!Next
<1>1. List!Pushes!Move(z, x)
  BY DEF List!Pushes!Move, ItemsNow, ViewNow
<1> QED
  BY <1>1 DEF List!Pushes!Next

LEMMA DestroyIsAbstract ==
  ASSUME NEW x \in DOMAIN head, ItemsNow' = List!Pushes!Without(x),
         UNCHANGED ViewNow
  PROVE  List!Pushes!Next
<1>1. List!Pushes!Destroy(x)
  BY DEF List!Pushes!Destroy, ItemsNow, ViewNow
<1> QED
  BY <1>1 DEF List!Pushes!Next

LEMMA LookIsAbstract ==
  ASSUME NEW t \in Threads, NEW x \in DOMAIN head,
         ViewNow' = [ViewNow EXCEPT ![t] = ItemsNow[x]], UNCHANGED ItemsNow
  PROVE  List!Pushes!Next
<1>1. List!Pushes!Look(t, x)
  BY DEF List!Pushes!Look, List!Pushes!Looks, ItemsNow, ViewNow
<1> QED
  BY <1>1 DEF List!Pushes!Next

LEMMA LookInsteadIsAbstract ==
  ASSUME NEW t \in Threads, NEW x \in DOMAIN head, NEW z \in Lists, z # x,
         ViewNow' = [ViewNow EXCEPT ![t] = ItemsNow[x]],
         ItemsNow' = List!Pushes!Without(z)
  PROVE  List!Pushes!Next
<1>1. List!Pushes!LookInstead(t, z, x)
  BY DEF List!Pushes!LookInstead, List!Pushes!Looks, ItemsNow, ViewNow
<1> QED
  BY <1>1 DEF List!Pushes!Next

LEMMA CopiedIsAbstract ==
  ASSUME NEW t \in Threads, NEW z \in Lists \ DOMAIN head,
         ItemsNow' = List!Pushes!WithList(z, ViewNow[t]),
         ViewNow' = [ViewNow EXCEPT ![t] = << >>]
  PROVE  List!Pushes!Next
<1>1. List!Pushes!Copied(t, z)
  BY DEF List!Pushes!Copied, ItemsNow, ViewNow
<1> QED
  BY <1>1 DEF List!Pushes!Next

LEMMA ForgetIsAbstract ==
  ASSUME NEW t \in Threads, ViewNow' = [ViewNow EXCEPT ![t] = << >>],
         UNCHANGED ItemsNow
  PROVE  List!Pushes!Next
<1>1. List!Pushes!Forget(t)
  BY DEF List!Pushes!Forget, ItemsNow, ViewNow
<1> QED
  BY <1>1 DEF List!Pushes!Next

LEMMA AbstractLists ==
  /\ \A z, q : List!Pushes!WithList(z, q)
       = [x \in DOMAIN head \cup {z} |-> IF x = z THEN q ELSE ItemsNow[x]]
  /\ \A z : List!Pushes!Without(z) = [x \in DOMAIN head \ {z} |-> ItemsNow[x]]
BY DEF List!Pushes!WithList, List!Pushes!Without, ItemsNow

(* The steps that change neither lists nor views.                          *)
LEMMA NothingShown ==
  ASSUME NEW S, NEW own, ListsNow(S, own),
         NEW T, NEW to, ListsAre(T, to, head', value', next', op', path'),
         UNCHANGED <<head, path>>,
         \A x \in Lists : T[InList(x)] = S[InList(x)],
         \A n \in DOMAIN value : value'[n] = value[n]
  PROVE  ListsInv' /\ UNCHANGED List!Pushes!vars
<1>1. /\ ListsInv'
      /\ DOMAIN ItemsNow' = DOMAIN head' /\ DOMAIN ViewNow' = Threads
      /\ ItemsNow' = [x \in DOMAIN ItemsNow' |-> ItemsNow'[x]]
      /\ ViewNow' = [t \in Threads |-> ViewNow'[t]]
      /\ \A x \in DOMAIN head' : ItemsNow'[x] = Els(value', T[InList(x)])
      /\ \A t \in Threads : ViewNow'[t] = Els(value', path'[t])
  BY After
<1>2. /\ DOMAIN ItemsNow = DOMAIN head /\ DOMAIN ViewNow = Threads
      /\ ItemsNow = [x \in DOMAIN ItemsNow |-> ItemsNow[x]]
      /\ ViewNow = [t \in Threads |-> ViewNow[t]]
      /\ \A x \in DOMAIN head : ItemsNow[x] = Els(value, S[InList(x)])
      /\ \A t \in Threads : ViewNow[t] = Els(value, path[t])
  BY Before
<1>3. ListsAre(S, own, head, value, next, op, path) /\ DOMAIN head \subseteq Lists
  BY DEF ListsNow, ListsAre, ListsHold
<1>4. /\ \A x \in Lists : \A i \in 1 .. Len(S[InList(x)]) :
           S[InList(x)][i] \in DOMAIN value
      /\ \A t \in Threads : \A i \in 1 .. Len(path[t]) : path[t][i] \in DOMAIN value
  BY <1>3, NodesAllocated
<1>5. ASSUME NEW x \in DOMAIN head PROVE ItemsNow'[x] = ItemsNow[x]
  <2>1. x \in Lists /\ x \in DOMAIN head'
    BY <1>3
  <2>2. \A i \in 1 .. Len(S[InList(x)]) :
          value'[S[InList(x)][i]] = value[S[InList(x)][i]]
    BY <1>4, <2>1
  <2>3. Els(value', S[InList(x)]) = Els(value, S[InList(x)])
    BY <2>2, ElsKept
  <2> QED
    BY <1>1, <1>2, <2>1, <2>3
<1>6. ASSUME NEW t \in Threads PROVE ViewNow'[t] = ViewNow[t]
  <2>1. \A i \in 1 .. Len(path[t]) : value'[path[t][i]] = value[path[t][i]]
    BY <1>4
  <2>2. Els(value', path[t]) = Els(value, path[t])
    BY <2>1, ElsKept
  <2> QED
    BY <1>1, <1>2, <2>2
<1>7. ItemsNow' = ItemsNow
  BY <1>1, <1>2, <1>5
<1>8. ViewNow' = ViewNow
  BY <1>1, <1>2, <1>6
<1> QED
  BY <1>1, <1>7, <1>8, NoStepIsAbstract

LEMMA CallPushStep ==
  ASSUME NEW S, NEW own, ListsNow(S, own), NEW t \in Threads,
         NEW x \in DOMAIN head, NEW y \in Values, NEW n \in Nodes,
         List!CallPush(t, x, y, n)
  PROVE  ListsInv' /\ UNCHANGED List!Pushes!vars
<1> USE DEF List!CallPush, List!Begin, List!IsIdle, List!NodesFree
<1>1. /\ ListsAre(S, own, head, value, next, op, path)
      /\ DOMAIN op = Threads /\ DOMAIN next = Nodes /\ DOMAIN S = Places
  BY DEF ListsNow, ListsAre, Owned
<1> DEFINE a == [kind |-> "push", list |-> x, item |-> n, at |-> head[x]]
           T == [S EXCEPT ![InCall(t)] = Append(S[InCall(t)], n)]
<1>2. /\ op[t] = List!Idle /\ n \notin DOMAIN value
      /\ value' = List!With(value, n, y) /\ UNCHANGED <<head, path>>
  OBVIOUS
<1>3. Changed(next, next', n, head[x])
  BY <1>1, ExceptChanges
<1>4. Changed(op, op', t, a)
  BY <1>1, ExceptChanges
<1>5. InCall(t) \in DOMAIN S
  BY <1>1, PlacesApart
<1>6. Changed(S, T, InCall(t), Append(S[InCall(t)], n))
  BY <1>5, ExceptChanges
<1>7. \A z \in Lists : T[InList(z)] = S[InList(z)]
  BY <1>1, PlacesApart
<1> HIDE DEF T
<1>8. PICK to : ListsAre(T, to, head, value', next', op', path)
  BY <1>1, <1>2, <1>3, <1>4, <1>6, PushBegins
<1>9. \A m \in DOMAIN value : value'[m] = value[m]
  BY <1>2 DEF List!With
<1> QED
  BY <1>2, <1>7, <1>8, <1>9, NothingShown

LEMMA PushRetryStep ==
  ASSUME NEW S, NEW own, ListsNow(S, own), NEW t \in Threads, List!PushRetry(t)
  PROVE  ListsInv' /\ UNCHANGED List!Pushes!vars
<1> USE DEF List!PushRetry, List!Relink
<1>1. /\ ListsAre(S, own, head, value, next, op, path)
      /\ DOMAIN op = Threads /\ DOMAIN next = Nodes
      /\ CallHolds(head, own, value, next, op[t], S[InCall(t)], path[t])
  BY DEF ListsNow, ListsAre
<1>2. op[t].kind = "push" /\ UNCHANGED <<head, value, path>>
  OBVIOUS
<1>3. op[t].item \in Nodes
  BY <1>1, <1>2, CallIs DEF List!PushOps
<1> DEFINE y == head[op[t].list]
           a == [op[t] EXCEPT !.at = y]
<1>4. Changed(next, next', op[t].item, y)
  BY <1>1, <1>3, ExceptChanges
<1>5. Changed(op, op', t, a)
  <2>1. op' = [op EXCEPT ![t] = a]
    BY <1>1
  <2> HIDE DEF a
  <2>2. Changed(op, [op EXCEPT ![t] = a], t, a)
    BY <1>1, ExceptChanges
  <2> QED
    BY <2>1, <2>2
<1>6. ListsAre(S, own, head, value, next', op', path)
  BY <1>1, <1>2, <1>4, <1>5, PushRetries
<1> QED
  BY <1>2, <1>6, NothingShown

LEMMA StepStep ==
  ASSUME NEW S, NEW own, ListsNow(S, own), NEW t \in Threads, List!Step(t)
  PROVE  ListsInv' /\ UNCHANGED List!Pushes!vars
<1> USE DEF List!Step, List!Found
<1>1. /\ ListsAre(S, own, head, value, next, op, path) /\ DOMAIN op = Threads
  BY DEF ListsNow, ListsAre
<1>2. /\ op[t].kind \in {"size", "find"} /\ op[t].at # NoPtr
      /\ op[t].kind = "find" => value[op[t].at] # op[t].wanted
      /\ UNCHANGED <<head, value, next, path>>
  OBVIOUS
<1> DEFINE a == [op[t] EXCEPT !.at = next[@], !.walked = @ + 1]
<1>3. Changed(op, op', t, a)
  <2>1. op' = [op EXCEPT ![t] = a]
    BY <1>1
  <2> HIDE DEF a
  <2>2. Changed(op, [op EXCEPT ![t] = a], t, a)
    BY <1>1, ExceptChanges
  <2> QED
    BY <2>1, <2>2
<1>4. ListsAre(S, own, head, value, next, op', path)
  BY <1>1, <1>2, <1>3, WalkGoesOn
<1> QED
  BY <1>2, <1>4, NothingShown

LEMMA CopyStepStep ==
  ASSUME NEW S, NEW own, ListsNow(S, own), NEW t \in Threads, NEW n \in Nodes,
         List!CopyStep(t, n)
  PROVE  ListsInv' /\ UNCHANGED List!Pushes!vars
<1> USE DEF List!CopyStep, List!AppendCopy, List!NodesFree
<1>1. /\ ListsAre(S, own, head, value, next, op, path)
      /\ DOMAIN op = Threads /\ next \in [Nodes -> List!Pointers]
      /\ DOMAIN S = Places
      /\ CallHolds(head, own, value, next, op[t], S[InCall(t)], path[t])
  BY DEF ListsNow, ListsAre, Owned
<1> DEFINE a == [op[t] EXCEPT !.at = next[@], !.walked = @ + 1,
                   !.first = IF @ = NoPtr THEN n ELSE @, !.last = n]
           T == [S EXCEPT ![InCall(t)] = Append(S[InCall(t)], n)]
<1>2. /\ op[t].kind = "copy" /\ op[t].at # NoPtr /\ n \notin DOMAIN value
      /\ value' = List!With(value, n, value[op[t].at]) /\ UNCHANGED <<head, path>>
  OBVIOUS
<1>3. NodeLinked(next, next', op[t].last, n)
  <2>1. next' \in [Nodes -> List!Pointers]
    BY <1>1 DEF List!Pointers
  <2> QED
    BY <2>1 DEF NodeLinked
<1>4. Changed(op, op', t, a)
  <2>1. op' = [op EXCEPT ![t] = a]
    BY <1>1
  <2> HIDE DEF a
  <2>2. Changed(op, [op EXCEPT ![t] = a], t, a)
    BY <1>1, ExceptChanges
  <2> QED
    BY <2>1, <2>2
<1>5. InCall(t) \in DOMAIN S
  BY <1>1, PlacesApart
<1>6. Changed(S, T, InCall(t), Append(S[InCall(t)], n))
  BY <1>5, ExceptChanges
<1>7. \A z \in Lists : T[InList(z)] = S[InList(z)]
  BY <1>1, PlacesApart
<1> HIDE DEF T
<1>8. PICK to : ListsAre(T, to, head, value', next', op', path)
  <2>1. a = CopiedOn(op[t], next, n)
    BY DEF CopiedOn
  <2>2. ListsAre(S, own, head, value, next, op, path)
    BY <1>1
  <2> HIDE DEF a, List!CopyStep, List!AppendCopy, List!NodesFree
  <2> QED
    BY <1>2, <1>3, <1>4, <1>6, <2>1, <2>2, CopyGoesOn
<1>9. \A m \in DOMAIN value : value'[m] = value[m]
  BY <1>2 DEF List!With
<1> QED
  BY <1>2, <1>7, <1>8, <1>9, NothingShown

(* A thread begins to look at a list, or stops to do so.                   *)
NewCopy(o, h, a) ==
  a \in List!CopyOps =>
    /\ a.target \notin DOMAIN h /\ a.first = NoPtr /\ a.last = NoPtr
    /\ \A u \in Threads : o[u] \in List!CopyOps => o[u].target # a.target

LEMMA WalkStep ==
  ASSUME NEW S, NEW own, ListsNow(S, own), NEW t \in Threads,
         NEW x \in DOMAIN head,
         NEW a \in List!SizeOps \cup List!FindOps \cup List!CopyOps,
         a.at = head[x], a.walked = 0, NewCopy(op, head, a),
         List!Walk(t, x, a), UNCHANGED <<head, value, next>>
  PROVE  ListsInv' /\ List!Pushes!Next
<1>1. /\ ListsAre(S, own, head, value, next, op, path)
      /\ DOMAIN op = Threads /\ DOMAIN path = Threads
  BY DEF ListsNow, ListsAre
<1>2. /\ DOMAIN ItemsNow = DOMAIN head /\ DOMAIN ViewNow = Threads
      /\ ItemsNow = [y \in DOMAIN ItemsNow |-> ItemsNow[y]]
      /\ ViewNow = [u \in Threads |-> ViewNow[u]]
      /\ \A y \in DOMAIN head : List!Chain(head[y]) = S[InList(y)]
      /\ \A y \in DOMAIN head : ItemsNow[y] = Els(value, S[InList(y)])
      /\ \A u \in Threads : ViewNow[u] = Els(value, path[u])
  BY Before
<1>3. op[t] = List!Idle /\ Changed(op, op', t, a)
  BY <1>1, ExceptChanges DEF List!Walk, List!Begin, List!IsIdle
<1>4. Changed(path, path', t, S[InList(x)])
  BY <1>1, <1>2, ExceptChanges DEF List!Walk
<1>5. ListsAre(S, own, head, value, next, op', path')
  BY <1>1, <1>3, <1>4, WalkBegun DEF NewCopy
<1>6. /\ ListsInv'
      /\ DOMAIN ItemsNow' = DOMAIN head' /\ DOMAIN ViewNow' = Threads
      /\ ItemsNow' = [y \in DOMAIN ItemsNow' |-> ItemsNow'[y]]
      /\ ViewNow' = [u \in Threads |-> ViewNow'[u]]
      /\ \A y \in DOMAIN head' : ItemsNow'[y] = Els(value', S[InList(y)])
      /\ \A u \in Threads : ViewNow'[u] = Els(value', path'[u])
  BY <1>5, After
<1>7. ItemsNow' = ItemsNow
  BY <1>2, <1>6
<1>8. ViewNow' = [ViewNow EXCEPT ![t] = ItemsNow[x]]
  <2>1. ViewNow'[t] = ItemsNow[x]
    BY <1>2, <1>4, <1>6 DEF Changed
  <2>2. \A u \in Threads : u # t => ViewNow'[u] = ViewNow[u]
    BY <1>1, <1>2, <1>4, <1>6 DEF Changed
  <2> QED
    BY <1>2, <1>6, <2>1, <2>2
<1> QED
  BY <1>6, <1>7, <1>8, LookIsAbstract

LEMMA CallStep ==
  ASSUME NEW S, NEW own, ListsNow(S, own), NEW t \in Threads,
         NEW x \in DOMAIN head,
         \/ List!CallSize(t, x)
         \/ \E y \in Values : List!CallFind(t, x, y)
         \/ \E z \in Lists : List!CallCopy(t, z, x)
  PROVE  ListsInv' /\ List!Pushes!Next
<1>1. /\ ListsAre(S, own, head, value, next, op, path)
      /\ x \in Lists /\ head[x] \in List!Pointers
  BY DEF ListsNow, ListsAre, ListsHold
<1>2. CASE List!CallSize(t, x)
  <2> DEFINE a == [kind |-> "size", list |-> x, at |-> head[x], walked |-> 0]
  <2>1. List!Walk(t, x, a) /\ UNCHANGED <<head, value, next>>
    BY <1>2 DEF List!CallSize
  <2>2. a \in List!SizeOps /\ a.at = head[x] /\ a.walked = 0
    BY <1>1 DEF List!SizeOps
  <2>3. NewCopy(op, head, a)
    BY <2>2, KindsApart DEF NewCopy
  <2> HIDE DEF a
  <2> QED
    BY <2>1, <2>2, <2>3, WalkStep
<1>3. ASSUME NEW y \in Values, List!CallFind(t, x, y)
      PROVE  ListsInv' /\ List!Pushes!Next
  <2> DEFINE a == [kind |-> "find", list |-> x, at |-> head[x], walked |-> 0,
                   wanted |-> y]
  <2>1. List!Walk(t, x, a) /\ UNCHANGED <<head, value, next>>
    BY <1>3 DEF List!CallFind
  <2>2. a \in List!FindOps /\ a.at = head[x] /\ a.walked = 0
    BY <1>1 DEF List!FindOps
  <2>3. NewCopy(op, head, a)
    BY <2>2, KindsApart DEF NewCopy
  <2> HIDE DEF a
  <2> QED
    BY <2>1, <2>2, <2>3, WalkStep
<1>4. ASSUME NEW z \in Lists, List!CallCopy(t, z, x)
      PROVE  ListsInv' /\ List!Pushes!Next
  <2> DEFINE a == List!Copy(z, x)
  <2>1. List!Walk(t, x, a) /\ UNCHANGED <<head, value, next>> /\ List!IsNew(z)
    BY <1>4 DEF List!CallCopy
  <2>2. /\ a \in List!CopyOps /\ a.at = head[x] /\ a.walked = 0 /\ a.target = z
        /\ a.first = NoPtr /\ a.last = NoPtr
    BY <1>1 DEF List!CopyOps, List!Copy, List!Pointers
  <2>3. NewCopy(op, head, a)
    BY <2>1, <2>2, KindsApart DEF NewCopy, List!IsNew, List!Target
  <2> HIDE DEF a
  <2> QED
    BY <2>1, <2>2, <2>3, WalkStep
<1> QED
  BY <1>2, <1>3, <1>4

LEMMA WalkReturnStep ==
  ASSUME NEW S, NEW own, ListsNow(S, own), NEW t \in Threads, List!WalkReturn(t)
  PROVE  ListsInv' /\ List!Pushes!Next
<1>1. /\ ListsAre(S, own, head, value, next, op, path)
      /\ DOMAIN op = Threads /\ DOMAIN path = Threads
  BY DEF ListsNow, ListsAre
<1>2. op[t].kind \in {"size", "find"} /\ UNCHANGED <<head, value, next>>
  BY DEF List!WalkReturn
<1>3. Changed(op, op', t, List!Idle)
  BY <1>1, ExceptChanges DEF List!WalkReturn, List!Return
<1>4. Changed(path, path', t, << >>)
  BY <1>1, ExceptChanges DEF List!WalkReturn, List!Return
<1>5. ListsAre(S, own, head, value, next, op', path')
  BY <1>1, <1>2, <1>3, <1>4, WalkEnds
<1>6. /\ DOMAIN ItemsNow = DOMAIN head /\ DOMAIN ViewNow = Threads
      /\ ItemsNow = [y \in DOMAIN ItemsNow |-> ItemsNow[y]]
      /\ ViewNow = [u \in Threads |-> ViewNow[u]]
      /\ \A y \in DOMAIN head : ItemsNow[y] = Els(value, S[InList(y)])
      /\ \A u \in Threads : ViewNow[u] = Els(value, path[u])
  BY Before
<1>7. /\ ListsInv'
      /\ DOMAIN ItemsNow' = DOMAIN head' /\ DOMAIN ViewNow' = Threads
      /\ ItemsNow' = [y \in DOMAIN ItemsNow' |-> ItemsNow'[y]]
      /\ ViewNow' = [u \in Threads |-> ViewNow'[u]]
      /\ \A y \in DOMAIN head' : ItemsNow'[y] = Els(value', S[InList(y)])
      /\ \A u \in Threads : ViewNow'[u] = Els(value', path'[u])
  BY <1>2, <1>5, After
<1>8. ItemsNow' = ItemsNow
  BY <1>2, <1>6, <1>7
<1>9. ViewNow' = [ViewNow EXCEPT ![t] = << >>]
  <2>1. ViewNow'[t] = << >>
    BY <1>4, <1>7 DEF Changed, Els
  <2>2. \A u \in Threads : u # t => ViewNow'[u] = ViewNow[u]
    BY <1>1, <1>2, <1>4, <1>6, <1>7 DEF Changed
  <2> QED
    BY <1>6, <1>7, <2>1, <2>2
<1> QED
  BY <1>7, <1>8, <1>9, ForgetIsAbstract

(* Moving the nodes of one place in front of those of another.             *)
Gives(S, p, q) == [S EXCEPT ![q] = S[p] \o S[q], ![p] = << >>]

LEMMA GivesMoves ==
  ASSUME NEW S \in [Places -> Seq(Nodes)],
         NEW p \in Places, NEW q \in Places, p # q
  PROVE  MovedTo(S, Gives(S, p, q), p, q)
<1>1. S[p] \o S[q] \in Seq(Nodes) /\ << >> \in Seq(Nodes)
  OBVIOUS
<1> DEFINE c == S[p] \o S[q]
<1> HIDE DEF c
<1>2. MovedTo(S, [S EXCEPT ![q] = c, ![p] = << >>], p, q)
  BY <1>1 DEF MovedTo, c
<1> QED
  BY <1>2 DEF Gives, c

(* A push takes effect at its CAS.                                         *)
LEMMA PushCasStep ==
  ASSUME NEW S, NEW own, ListsNow(S, own), NEW t \in Threads, List!PushCas(t)
  PROVE  ListsInv' /\ List!Pushes!Next
<1>0. PICK x, n : x = op[t].list /\ n = op[t].item
  OBVIOUS
<1> DEFINE T == Gives(S, InCall(t), InList(x))
<1>1. /\ ListsAre(S, own, head, value, next, op, path)
      /\ DOMAIN op = Threads /\ DOMAIN path = Threads
      /\ S \in [Places -> Seq(Nodes)] /\ DOMAIN head \subseteq Lists
      /\ value \in [DOMAIN value -> Values]
      /\ CallHolds(head, own, value, next, op[t], S[InCall(t)], path[t])
  BY DEF ListsNow, ListsAre, ListsHold, Owned
<1>2. op[t].kind = "push" /\ head[x] = op[t].at /\ UNCHANGED <<value, next>>
  BY <1>0 DEF List!PushCas, List!NextPublished
<1>3. /\ op[t] \in List!PushOps /\ x \in DOMAIN head /\ S[InCall(t)] = <<n>>
      /\ path[t] = << >> /\ n \in Nodes /\ x \in Lists
  BY <1>0, <1>1, <1>2, CallIs DEF List!PushOps
<1>4. Changed(op, op', t, List!Idle) /\ Changed(path, path', t, << >>)
  BY <1>1, ExceptChanges DEF List!PushCas, List!Return
<1>5. Changed(head, head', x, n)
  BY <1>0, <1>3, ExceptChanges DEF List!PushCas
<1>6. InCall(t) \in Places /\ InList(x) \in Places /\ InCall(t) # InList(x)
  BY <1>3, PlacesApart
<1>7. MovedTo(S, T, InCall(t), InList(x))
  BY <1>1, <1>6, GivesMoves
<1>8. /\ T[InList(x)] = <<n>> \o S[InList(x)]
      /\ \A y \in Lists : y # x => T[InList(y)] = S[InList(y)]
      /\ S[InList(x)] \in Seq(Nodes)
  BY <1>1, <1>3, <1>6, <1>7, PlacesApart DEF MovedTo
<1> HIDE DEF T
<1>9. \E to : ListsAre(T, to, head', value, next, op', path')
  <2>1. PushSucceeds(head, head', op, t, x)
    BY <1>0, <1>2, <1>5 DEF PushSucceeds
  <2> QED
    BY <1>1, <1>4, <1>7, <2>1, PushEnds
<1>10. PICK to : ListsAre(T, to, head', value', next', op', path')
  BY <1>2, <1>9
<1>11. /\ DOMAIN ItemsNow = DOMAIN head /\ DOMAIN ViewNow = Threads
       /\ ItemsNow = [y \in DOMAIN ItemsNow |-> ItemsNow[y]]
       /\ ViewNow = [u \in Threads |-> ViewNow[u]]
       /\ \A y \in DOMAIN head : ItemsNow[y] = Els(value, S[InList(y)])
       /\ \A u \in Threads : ViewNow[u] = Els(value, path[u])
  BY Before
<1>12. /\ ListsInv'
       /\ DOMAIN ItemsNow' = DOMAIN head' /\ DOMAIN ViewNow' = Threads
       /\ ItemsNow' = [y \in DOMAIN ItemsNow' |-> ItemsNow'[y]]
       /\ ViewNow' = [u \in Threads |-> ViewNow'[u]]
       /\ \A y \in DOMAIN head' : ItemsNow'[y] = Els(value', T[InList(y)])
       /\ \A u \in Threads : ViewNow'[u] = Els(value', path'[u])
  BY <1>10, After
<1>13. value[n] \in Values
  <2>1. /\ \A y \in Lists : \A i \in 1 .. Len(T[InList(y)]) :
             T[InList(y)][i] \in DOMAIN value'
    BY <1>10, NodesAllocated
  <2>2. Len(T[InList(x)]) = 1 + Len(S[InList(x)]) /\ T[InList(x)][1] = n
    BY <1>8
  <2>3. 1 \in 1 .. Len(T[InList(x)])
    BY <1>8, <2>2
  <2>4. n \in DOMAIN value
    BY <1>2, <1>3, <2>1, <2>2, <2>3
  <2> QED
    BY <1>1, <2>4
<1>14. Els(value, <<n>> \o S[InList(x)]) = <<value[n]>> \o Els(value, S[InList(x)])
  BY <1>8 DEF Els
<1>15. ItemsNow' = [ItemsNow EXCEPT ![x] = <<value[n]>> \o @]
  <2>1. DOMAIN head' = DOMAIN head
    BY <1>5 DEF Changed
  <2>2. ItemsNow'[x] = <<value[n]>> \o ItemsNow[x]
    BY <1>2, <1>3, <1>8, <1>11, <1>12, <1>14, <2>1
  <2>3. \A y \in DOMAIN head : y # x => ItemsNow'[y] = ItemsNow[y]
    BY <1>1, <1>2, <1>8, <1>11, <1>12, <2>1
  <2> QED
    BY <1>11, <1>12, <2>1, <2>2, <2>3
<1>16. ViewNow' = ViewNow
  <2>1. \A u \in Threads : path'[u] = path[u]
    BY <1>1, <1>3, <1>4 DEF Changed
  <2> QED
    BY <1>2, <1>11, <1>12, <2>1
<1> QED
  BY <1>3, <1>12, <1>13, <1>15, <1>16, PushIsAbstract

(* A copy becomes a list when it has got to the end of its source.         *)
LEMMA CopyReturnStep ==
  ASSUME NEW S, NEW own, ListsNow(S, own), NEW t \in Threads, List!CopyReturn(t)
  PROVE  ListsInv' /\ List!Pushes!Next
<1>0. PICK x : x = op[t].target
  OBVIOUS
<1> DEFINE T == Gives(S, InCall(t), InList(x))
<1>1. /\ ListsAre(S, own, head, value, next, op, path)
      /\ DOMAIN op = Threads /\ DOMAIN path = Threads
      /\ S \in [Places -> Seq(Nodes)] /\ DOMAIN head \subseteq Lists
      /\ path \in [Threads -> Seq(Nodes)]
      /\ CallHolds(head, own, value, next, op[t], S[InCall(t)], path[t])
  BY DEF ListsNow, ListsAre, ListsHold, Owned
<1>2. /\ op[t].kind = "copy" /\ op[t].at = NoPtr /\ UNCHANGED <<value, next>>
      /\ head' = List!With(head, x, op[t].first)
  BY <1>0 DEF List!CopyReturn
<1>3. x \in Lists
  BY <1>0, <1>1, <1>2, CallIs DEF List!CopyOps
<1>4. Changed(op, op', t, List!Idle) /\ Changed(path, path', t, << >>)
  BY <1>1, ExceptChanges DEF List!CopyReturn, List!Return
<1>5. InCall(t) \in Places /\ InList(x) \in Places /\ InCall(t) # InList(x)
  BY <1>3, PlacesApart
<1>6. MovedTo(S, T, InCall(t), InList(x))
  BY <1>1, <1>5, GivesMoves
<1>7. \A y \in Lists : y # x => T[InList(y)] = S[InList(y)]
  BY <1>1, <1>3, <1>5, <1>6, PlacesApart DEF MovedTo
<1> HIDE DEF T
<1>8. /\ \E to : ListsAre(T, to, head', value, next, op', path')
      /\ x \in Lists \ DOMAIN head /\ S[InList(x)] = << >>
      /\ Len(S[InCall(t)]) = Len(path[t])
      /\ \A i \in 1 .. Len(path[t]) : value[S[InCall(t)][i]] = value[path[t][i]]
  <2>1. CopySucceeds(head, head', op, t, x)
    BY <1>0, <1>2 DEF CopySucceeds
  <2> QED
    BY <1>1, <1>4, <1>6, <2>1, CopyEnds
<1>9. PICK to : ListsAre(T, to, head', value', next', op', path')
  BY <1>2, <1>8
<1>10. /\ DOMAIN ItemsNow = DOMAIN head /\ DOMAIN ViewNow = Threads
       /\ ItemsNow = [y \in DOMAIN ItemsNow |-> ItemsNow[y]]
       /\ ViewNow = [u \in Threads |-> ViewNow[u]]
       /\ \A y \in DOMAIN head : ItemsNow[y] = Els(value, S[InList(y)])
       /\ \A u \in Threads : ViewNow[u] = Els(value, path[u])
  BY Before
<1>11. /\ ListsInv'
       /\ DOMAIN ItemsNow' = DOMAIN head' /\ DOMAIN ViewNow' = Threads
       /\ ItemsNow' = [y \in DOMAIN ItemsNow' |-> ItemsNow'[y]]
       /\ ViewNow' = [u \in Threads |-> ViewNow'[u]]
       /\ \A y \in DOMAIN head' : ItemsNow'[y] = Els(value', T[InList(y)])
       /\ \A u \in Threads : ViewNow'[u] = Els(value', path'[u])
  BY <1>9, After
<1>12. T[InList(x)] = S[InCall(t)]
  <2>1. T[InList(x)] = S[InCall(t)] \o << >> /\ S[InCall(t)] \in Seq(Nodes)
    BY <1>1, <1>5, <1>6, <1>8 DEF MovedTo
  <2> QED
    BY <2>1
<1>13. Els(value, S[InCall(t)]) = Els(value, path[t])
  BY <1>8 DEF Els
<1>14. DOMAIN head' = DOMAIN head \cup {x}
  BY <1>2 DEF List!With
<1>15. ItemsNow' = List!Pushes!WithList(x, ViewNow[t])
  <2>1. ItemsNow'[x] = ViewNow[t]
    BY <1>2, <1>10, <1>11, <1>12, <1>13, <1>14
  <2>2. \A y \in DOMAIN head : y # x => ItemsNow'[y] = ItemsNow[y]
    BY <1>1, <1>2, <1>7, <1>10, <1>11, <1>14
  <2>3. ItemsNow' = [y \in DOMAIN head \cup {x} |->
                       IF y = x THEN ViewNow[t] ELSE ItemsNow[y]]
    BY <1>11, <1>14, <2>1, <2>2
  <2> QED
    BY <2>3, AbstractLists
<1>16. ViewNow' = [ViewNow EXCEPT ![t] = << >>]
  <2>1. ViewNow'[t] = << >>
    BY <1>4, <1>11 DEF Changed, Els
  <2>2. \A u \in Threads : u # t => ViewNow'[u] = ViewNow[u]
    BY <1>1, <1>2, <1>4, <1>10, <1>11 DEF Changed
  <2> QED
    BY <1>10, <1>11, <2>1, <2>2
<1> QED
  BY <1>8, <1>11, <1>15, <1>16, CopiedIsAbstract

(* A step of which only the elements of nodes that go are lost.            *)
LEMMA ElementsStay ==
  ASSUME NEW T, NEW to, ListsAre(T, to, head', value', next', op', path'),
         \A m \in DOMAIN value' : value'[m] = value[m]
  PROVE  /\ \A y \in Lists : Els(value', T[InList(y)]) = Els(value, T[InList(y)])
         /\ \A u \in Threads : Els(value', path'[u]) = Els(value, path'[u])
<1>1. /\ \A y \in Lists : \A i \in 1 .. Len(T[InList(y)]) :
           T[InList(y)][i] \in DOMAIN value'
      /\ \A u \in Threads : \A i \in 1 .. Len(path'[u]) :
           path'[u][i] \in DOMAIN value'
  BY NodesAllocated
<1>2. ASSUME NEW y \in Lists
      PROVE  Els(value', T[InList(y)]) = Els(value, T[InList(y)])
  <2>1. \A i \in 1 .. Len(T[InList(y)]) :
          value'[T[InList(y)][i]] = value[T[InList(y)][i]]
    BY <1>1
  <2> QED
    BY <2>1, ElsKept
<1>3. ASSUME NEW u \in Threads
      PROVE  Els(value', path'[u]) = Els(value, path'[u])
  <2>1. \A i \in 1 .. Len(path'[u]) : value'[path'[u][i]] = value[path'[u][i]]
    BY <1>1
  <2> QED
    BY <2>1, ElsKept
<1> QED
  BY <1>2, <1>3

(* What moving the lists shows, if the source's nodes are then T's at z.   *)
LEMMA MovedIsShown ==
  ASSUME NEW S, NEW own, ListsNow(S, own), NEW x \in DOMAIN head,
         NEW z \in Lists, z # x, head' = List!Moved(z, x), UNCHANGED path,
         NEW T, NEW to, ListsAre(T, to, head', value', next', op', path'),
         \A m \in DOMAIN value' : value'[m] = value[m],
         T[InList(x)] = << >>, T[InList(z)] = S[InList(x)],
         \A y \in DOMAIN head : y # x /\ y # z => T[InList(y)] = S[InList(y)]
  PROVE  ListsInv' /\ List!Pushes!Next
<1>1. /\ DOMAIN ItemsNow = DOMAIN head /\ DOMAIN ViewNow = Threads
      /\ ItemsNow = [y \in DOMAIN ItemsNow |-> ItemsNow[y]]
      /\ ViewNow = [u \in Threads |-> ViewNow[u]]
      /\ \A y \in DOMAIN head : ItemsNow[y] = Els(value, S[InList(y)])
      /\ \A u \in Threads : ViewNow[u] = Els(value, path[u])
  BY Before
<1>2. /\ ListsInv'
      /\ DOMAIN ItemsNow' = DOMAIN head' /\ DOMAIN ViewNow' = Threads
      /\ ItemsNow' = [y \in DOMAIN ItemsNow' |-> ItemsNow'[y]]
      /\ ViewNow' = [u \in Threads |-> ViewNow'[u]]
      /\ \A y \in DOMAIN head' : ItemsNow'[y] = Els(value', T[InList(y)])
      /\ \A u \in Threads : ViewNow'[u] = Els(value', path'[u])
  BY After
<1>3. /\ \A y \in Lists : Els(value', T[InList(y)]) = Els(value, T[InList(y)])
      /\ \A u \in Threads : Els(value', path'[u]) = Els(value, path'[u])
  BY ElementsStay
<1>4. DOMAIN head \subseteq Lists
  BY DEF ListsNow, ListsAre, ListsHold
<1>5. DOMAIN head' = DOMAIN head \cup {z}
  BY DEF List!Moved, List!With
<1>6. ItemsNow'[x] = << >>
  <2>1. ItemsNow'[x] = Els(value', T[InList(x)])
    BY <1>2, <1>5
  <2>2. Els(value', << >>) = << >>
    BY DEF Els
  <2> QED
    BY <2>1, <2>2
<1>7. ItemsNow'[z] = ItemsNow[x]
  BY <1>1, <1>2, <1>3, <1>5
<1>8. \A y \in DOMAIN head : y # x /\ y # z => ItemsNow'[y] = ItemsNow[y]
  BY <1>1, <1>2, <1>3, <1>4, <1>5
<1>9. ItemsNow' = [List!Pushes!WithList(z, ItemsNow[x]) EXCEPT ![x] = << >>]
  <2> DEFINE f == [y \in DOMAIN head \cup {z} |->
                     IF y = z THEN ItemsNow[x] ELSE ItemsNow[y]]
  <2>1. ItemsNow' = [f EXCEPT ![x] = << >>]
    BY <1>2, <1>5, <1>6, <1>7, <1>8
  <2> QED
    BY <2>1, AbstractLists
<1>10. ViewNow' = ViewNow
  BY <1>1, <1>2, <1>3
<1> QED
  BY <1>2, <1>9, <1>10, MoveIsAbstract

LEMMA HeadIsMoved ==
  ASSUME NEW h, NEW x \in DOMAIN h, NEW z, z # x, z \notin DOMAIN h,
         NEW h2, h2 = [List!With(h, z, h[x]) EXCEPT ![x] = NoPtr],
         h \in [DOMAIN h -> List!Pointers]
  PROVE  HeadMoved(h, h2, x, z)
BY DEF HeadMoved, List!With, List!Pointers

(* A list is moved to where there is none.                                 *)
LEMMA MoveStep ==
  ASSUME NEW S, NEW own, ListsNow(S, own), NEW x \in DOMAIN head,
         NEW z \in Lists, List!Move(z, x)
  PROVE  ListsInv' /\ List!Pushes!Next
<1> DEFINE T == Gives(S, InList(x), InList(z))
<1>1. /\ ListsAre(S, own, head, value, next, op, path)
      /\ S \in [Places -> Seq(Nodes)] /\ DOMAIN head \subseteq Lists
      /\ head \in [DOMAIN head -> List!Pointers]
      /\ \A y \in Lists \ DOMAIN head : S[InList(y)] = << >>
  BY DEF ListsNow, ListsAre, ListsHold, Owned
<1>2. /\ z \notin DOMAIN head /\ head' = List!Moved(z, x) /\ z # x
      /\ UNCHANGED <<value, next, op, path>>
  BY DEF List!Move, List!IsNew
<1>3. InList(x) \in Places /\ InList(z) \in Places /\ InList(x) # InList(z)
  BY <1>1, <1>2, PlacesApart
<1>4. MovedTo(S, T, InList(x), InList(z))
  BY <1>1, <1>3, GivesMoves
<1>5. /\ T[InList(x)] = << >> /\ T[InList(z)] = S[InList(x)]
      /\ \A y \in DOMAIN head : y # x /\ y # z => T[InList(y)] = S[InList(y)]
  <2>1. T[InList(z)] = S[InList(x)] \o << >> /\ S[InList(x)] \in Seq(Nodes)
    BY <1>1, <1>2, <1>3, <1>4 DEF MovedTo
  <2>2. T[InList(z)] = S[InList(x)]
    BY <2>1
  <2>3. \A y \in DOMAIN head : y # x /\ y # z =>
          InList(y) \in Places /\ InList(y) # InList(x) /\ InList(y) # InList(z)
    BY <1>1, PlacesApart
  <2> QED
    BY <1>4, <2>2, <2>3 DEF MovedTo
<1> HIDE DEF T
<1>6. NotCopiedTo(op, z)
  BY <1>2, KindsApart DEF NotCopiedTo, List!Move, List!IsNew, List!Target
<1>7. HeadMoved(head, head', x, z)
  BY <1>1, <1>2, HeadIsMoved DEF List!Moved
<1>8. PICK to : ListsAre(T, to, head', value, next, op, path)
  BY <1>1, <1>2, <1>4, <1>6, <1>7, ListMoved
<1>9. ListsAre(T, to, head', value', next', op', path')
  BY <1>2, <1>8
<1>10. \A m \in DOMAIN value' : value'[m] = value[m]
  BY <1>2
<1> QED
  BY <1>2, <1>5, <1>9, <1>10, MovedIsShown

(* A list without its nodes, and the heads without that of a list.         *)
Emptied(S, x) == [S EXCEPT ![InList(x)] = << >>]
Rest(h, x) == [y \in DOMAIN h \ {x} |-> h[y]]

LEMMA RestIs ==
  ASSUME NEW h, NEW x, h \in [DOMAIN h -> List!Pointers]
  PROVE  HeadGone(h, Rest(h, x), x)
BY DEF HeadGone, Rest

LEMMA DestructedIs ==
  ASSUME NEW S, NEW own, ListsNow(S, own), NEW x \in DOMAIN head,
         List!Destructed(x)
  PROVE  /\ \E to :
              ListsAre(Emptied(S, x), to, Rest(head, x), value', next', op, path)
         /\ \A m \in DOMAIN value' : value'[m] = value[m]
         /\ Emptied(S, x)[InList(x)] = << >>
         /\ \A y \in Lists : y # x => Emptied(S, x)[InList(y)] = S[InList(y)]
         /\ NotCopiedTo(op, x)
<1> DEFINE T == Emptied(S, x)
           gone == List!ToSet(S[InList(x)])
<1>1. /\ ListsAre(S, own, head, value, next, op, path)
      /\ S \in [Places -> Seq(Nodes)] /\ DOMAIN head \subseteq Lists
      /\ head \in [DOMAIN head -> List!Pointers] /\ DOMAIN value \subseteq Nodes
      /\ value \in [DOMAIN value -> Values] /\ next \in [Nodes -> List!Pointers]
      /\ \A t \in Threads :
           CallHolds(head, own, value, next, op[t], S[InCall(t)], path[t])
  BY DEF ListsNow, ListsAre, ListsHold, Owned
<1>2. List!NodesOf(x) = gone
  <2>1. List!Chain(head[x]) = S[InList(x)]
    BY Before
  <2> QED
    BY <2>1 DEF List!NodesOf
<1>3. x \in Lists /\ InList(x) \in Places
  BY <1>1, PlacesApart
<1>4. Changed(S, T, InList(x), << >>)
  BY <1>1, <1>3, ExceptChanges DEF Emptied
<1>5. NobodyUses(S, op, path, x)
  <2>1. ASSUME NEW t \in Threads, op[t].kind # "idle"
        PROVE  /\ op[t].list # x
               /\ op[t].kind \in {"size", "find", "copy"} =>
                    gone \cap List!ToSet(path[t]) = {}
    <3>1. op[t] # List!Idle
      BY <1>1, <2>1, CallIs
    <3> QED
      BY <1>2, <3>1 DEF List!Destructed, List!Quiet, List!IsIdle, List!Walking
  <2> QED
    BY <2>1 DEF NobodyUses
<1>6. NodesGone(S, value, next, value', next', x)
  <2>1. value' = [m \in DOMAIN value \ gone |-> value[m]]
    BY <1>2 DEF List!Destructed, List!Kept
  <2>2. next' = [m \in Nodes |-> IF m \in gone THEN NoPtr ELSE next[m]]
    BY <1>2 DEF List!Destructed
  <2>3. value' \in [DOMAIN value \ gone -> Values]
    BY <1>1, <2>1
  <2>4. next' \in [Nodes -> List!Pointers]
    BY <1>1, <2>2 DEF List!Pointers
  <2> QED
    BY <2>1, <2>2, <2>3, <2>4 DEF NodesGone
<1>7. HeadGone(head, Rest(head, x), x)
  BY <1>1, RestIs
<1>8. \E to : ListsAre(T, to, Rest(head, x), value', next', op, path)
  <2> HIDE DEF T
  <2> QED
    BY <1>1, <1>4, <1>5, <1>6, <1>7, ListFreed
<1>9. NotCopiedTo(op, x)
  BY <1>1, CallIs, KindsApart DEF NotCopiedTo
<1>10. \A y \in Lists : y # x => T[InList(y)] = S[InList(y)]
  BY <1>1, <1>3, PlacesApart DEF Emptied
<1> QED
  BY <1>1, <1>3, <1>4, <1>6, <1>8, <1>9, <1>10 DEF Changed, NodesGone

(* A list is destroyed.                                                    *)
LEMMA DestroyStep ==
  ASSUME NEW S, NEW own, ListsNow(S, own), NEW x \in DOMAIN head,
         List!Destroy(x)
  PROVE  ListsInv' /\ List!Pushes!Next
<1> DEFINE T == Emptied(S, x)
<1>1. List!Destructed(x) /\ head' = Rest(head, x) /\ UNCHANGED <<op, path>>
  BY DEF List!Destroy, Rest
<1>2. /\ \E to : ListsAre(T, to, Rest(head, x), value', next', op, path)
      /\ \A m \in DOMAIN value' : value'[m] = value[m]
      /\ \A y \in Lists : y # x => T[InList(y)] = S[InList(y)]
  BY <1>1, DestructedIs
<1> HIDE DEF T
<1>3. PICK to : ListsAre(T, to, head', value', next', op', path')
  BY <1>1, <1>2
<1>4. /\ DOMAIN ItemsNow = DOMAIN head /\ DOMAIN ViewNow = Threads
      /\ ItemsNow = [y \in DOMAIN ItemsNow |-> ItemsNow[y]]
      /\ ViewNow = [u \in Threads |-> ViewNow[u]]
      /\ \A y \in DOMAIN head : ItemsNow[y] = Els(value, S[InList(y)])
      /\ \A u \in Threads : ViewNow[u] = Els(value, path[u])
  BY Before
<1>5. /\ ListsInv'
      /\ DOMAIN ItemsNow' = DOMAIN head' /\ DOMAIN ViewNow' = Threads
      /\ ItemsNow' = [y \in DOMAIN ItemsNow' |-> ItemsNow'[y]]
      /\ ViewNow' = [u \in Threads |-> ViewNow'[u]]
      /\ \A y \in DOMAIN head' : ItemsNow'[y] = Els(value', T[InList(y)])
      /\ \A u \in Threads : ViewNow'[u] = Els(value', path'[u])
  BY <1>3, After
<1>6. /\ \A y \in Lists : Els(value', T[InList(y)]) = Els(value, T[InList(y)])
      /\ \A u \in Threads : Els(value', path'[u]) = Els(value, path'[u])
  BY <1>2, <1>3, ElementsStay
<1>7. DOMAIN head \subseteq Lists
  BY DEF ListsNow, ListsAre, ListsHold
<1>8. DOMAIN head' = DOMAIN head \ {x}
  BY <1>1 DEF Rest
<1>9. ItemsNow' = List!Pushes!Without(x)
  <2>1. \A y \in DOMAIN head' : ItemsNow'[y] = ItemsNow[y]
    BY <1>2, <1>4, <1>5, <1>6, <1>7, <1>8
  <2>2. ItemsNow' = [y \in DOMAIN head \ {x} |-> ItemsNow[y]]
    BY <1>5, <1>8, <2>1
  <2> QED
    BY <2>2, AbstractLists
<1>10. ViewNow' = ViewNow
  BY <1>1, <1>4, <1>5, <1>6
<1> QED
  BY <1>5, <1>9, <1>10, DestroyIsAbstract

(* A list is moved to where one has been.                                  *)
LEMMA MoveAssignStep ==
  ASSUME NEW S, NEW own, ListsNow(S, own), NEW x \in DOMAIN head, NEW z,
         List!MoveAssign(z, x)
  PROVE  ListsInv' /\ List!Pushes!Next
<1> DEFINE T1 == Emptied(S, z)
           h1 == Rest(head, z)
           T == Gives(T1, InList(x), InList(z))
<1>1. /\ z \in DOMAIN head /\ z # x /\ List!Destructed(z)
      /\ head' = List!Moved(z, x) /\ UNCHANGED <<op, path>>
  BY DEF List!MoveAssign
<1>2. /\ \E to : ListsAre(T1, to, h1, value', next', op, path)
      /\ \A m \in DOMAIN value' : value'[m] = value[m]
      /\ T1[InList(z)] = << >>
      /\ \A y \in Lists : y # z => T1[InList(y)] = S[InList(y)]
      /\ NotCopiedTo(op, z)
  BY <1>1, DestructedIs
<1>3. /\ DOMAIN head \subseteq Lists /\ x \in Lists /\ z \in Lists
      /\ head \in [DOMAIN head -> List!Pointers]
  BY <1>1 DEF ListsNow, ListsAre, ListsHold
<1>4. /\ DOMAIN h1 = DOMAIN head \ {z} /\ x \in DOMAIN h1
      /\ z \in Lists \ DOMAIN h1
  BY <1>1, <1>3 DEF Rest
<1>5. HeadMoved(h1, head', x, z)
  <2>1. head' \in [DOMAIN h1 \cup {z} -> List!Pointers]
    BY <1>1, <1>3 DEF List!Moved, List!With, List!Pointers, Rest
  <2>2. head'[x] = NoPtr /\ head'[z] = h1[x]
    BY <1>1, <1>3 DEF List!Moved, List!With, Rest
  <2>3. \A y \in DOMAIN h1 : y # x => head'[y] = h1[y]
    BY <1>1, <1>3 DEF List!Moved, List!With, Rest
  <2> HIDE DEF h1
  <2> QED
    BY <2>1, <2>2, <2>3 DEF HeadMoved
<1> HIDE DEF T1, h1
<1>6. PICK own1 : ListsAre(T1, own1, h1, value', next', op, path)
  BY <1>2
<1>7. T1 \in [Places -> Seq(Nodes)]
  BY <1>6 DEF ListsAre, Owned
<1>8. InList(x) \in Places /\ InList(z) \in Places /\ InList(x) # InList(z)
  BY <1>1, <1>3, PlacesApart
<1>9. MovedTo(T1, T, InList(x), InList(z))
  BY <1>7, <1>8, GivesMoves
<1>10. /\ T[InList(x)] = << >> /\ T[InList(z)] = S[InList(x)]
       /\ \A y \in DOMAIN head : y # x /\ y # z => T[InList(y)] = S[InList(y)]
  <2>1. T[InList(z)] = T1[InList(x)] \o << >> /\ T1[InList(x)] \in Seq(Nodes)
    BY <1>2, <1>7, <1>8, <1>9 DEF MovedTo
  <2>2. T[InList(z)] = S[InList(x)]
    BY <1>1, <1>2, <1>3, <2>1
  <2>3. \A y \in DOMAIN head : y # x /\ y # z =>
          /\ y \in Lists /\ InList(y) \in Places
          /\ InList(y) # InList(x) /\ InList(y) # InList(z)
    BY <1>3, PlacesApart
  <2> QED
    BY <1>2, <1>9, <2>2, <2>3 DEF MovedTo
<1> HIDE DEF T
<1>11. PICK to : ListsAre(T, to, head', value', next', op, path)
  BY <1>2, <1>4, <1>5, <1>6, <1>9, ListMoved
<1>12. ListsAre(T, to, head', value', next', op', path')
  BY <1>1, <1>11
<1> QED
  BY <1>1, <1>2, <1>3, <1>10, <1>12, MovedIsShown

(* A list is destroyed, and a copy begins that is to take its place.       *)
LEMMA CopyAssignStep ==
  ASSUME NEW S, NEW own, ListsNow(S, own), NEW t \in Threads,
         NEW x \in DOMAIN head, NEW z, List!CopyAssign(t, z, x)
  PROVE  ListsInv' /\ List!Pushes!Next
<1> DEFINE T == Emptied(S, z)
           h1 == Rest(head, z)
           a == List!Copy(z, x)
<1>1. /\ z \in DOMAIN head /\ z # x /\ List!Destructed(z) /\ head' = h1
      /\ List!Walk(t, x, a)
  BY DEF List!CopyAssign, Rest
<1>2. /\ \E to : ListsAre(T, to, h1, value', next', op, path)
      /\ \A m \in DOMAIN value' : value'[m] = value[m]
      /\ \A y \in Lists : y # z => T[InList(y)] = S[InList(y)]
      /\ NotCopiedTo(op, z)
  BY <1>1, DestructedIs
<1>3. /\ DOMAIN head \subseteq Lists /\ x \in Lists /\ z \in Lists
      /\ head[x] \in List!Pointers /\ DOMAIN op = Threads /\ DOMAIN path = Threads
  BY <1>1 DEF ListsNow, ListsAre, ListsHold
<1>4. /\ DOMAIN h1 = DOMAIN head \ {z} /\ x \in DOMAIN h1 /\ h1[x] = head[x]
      /\ z \notin DOMAIN h1
  BY <1>1 DEF Rest
<1>5. /\ DOMAIN ItemsNow = DOMAIN head /\ DOMAIN ViewNow = Threads
      /\ ItemsNow = [y \in DOMAIN ItemsNow |-> ItemsNow[y]]
      /\ ViewNow = [u \in Threads |-> ViewNow[u]]
      /\ \A y \in DOMAIN head : List!Chain(head[y]) = S[InList(y)]
      /\ \A y \in DOMAIN head : ItemsNow[y] = Els(value, S[InList(y)])
      /\ \A u \in Threads : ViewNow[u] = Els(value, path[u])
  BY Before
<1>6. T[InList(x)] = S[InList(x)]
  BY <1>1, <1>2, <1>3
<1>7. op[t] = List!Idle /\ Changed(op, op', t, a)
  BY <1>1, <1>3, ExceptChanges DEF List!Walk, List!Begin, List!IsIdle
<1>8. Changed(path, path', t, T[InList(x)])
  BY <1>1, <1>3, <1>5, <1>6, ExceptChanges DEF List!Walk
<1>9. /\ a \in List!SizeOps \cup List!FindOps \cup List!CopyOps
      /\ a.at = h1[x] /\ a.walked = 0 /\ a.target = z
      /\ a.first = NoPtr /\ a.last = NoPtr
  BY <1>3, <1>4 DEF List!CopyOps, List!Copy, List!Pointers
<1> HIDE DEF T, h1, a
<1>10. NewCopy(op, h1, a)
  BY <1>2, <1>4, <1>9 DEF NewCopy, NotCopiedTo
<1>11. PICK to : ListsAre(T, to, h1, value', next', op, path)
  BY <1>2
<1>12. ListsAre(T, to, h1, value', next', op', path')
  BY <1>4, <1>7, <1>8, <1>9, <1>10, <1>11, WalkBegun DEF NewCopy
<1>13. ListsAre(T, to, head', value', next', op', path')
  BY <1>1, <1>12
<1>14. /\ ListsInv'
       /\ DOMAIN ItemsNow' = DOMAIN head' /\ DOMAIN ViewNow' = Threads
       /\ ItemsNow' = [y \in DOMAIN ItemsNow' |-> ItemsNow'[y]]
       /\ ViewNow' = [u \in Threads |-> ViewNow'[u]]
       /\ \A y \in DOMAIN head' : ItemsNow'[y] = Els(value', T[InList(y)])
       /\ \A u \in Threads : ViewNow'[u] = Els(value', path'[u])
  BY <1>13, After
<1>15. /\ \A y \in Lists : Els(value', T[InList(y)]) = Els(value, T[InList(y)])
       /\ \A u \in Threads : Els(value', path'[u]) = Els(value, path'[u])
  BY <1>2, <1>13, ElementsStay
<1>16. ItemsNow' = List!Pushes!Without(z)
  <2>1. \A y \in DOMAIN head' : ItemsNow'[y] = ItemsNow[y]
    BY <1>1, <1>2, <1>3, <1>4, <1>5, <1>14, <1>15
  <2>2. ItemsNow' = [y \in DOMAIN head \ {z} |-> ItemsNow[y]]
    BY <1>1, <1>4, <1>14, <2>1
  <2> QED
    BY <2>2, AbstractLists
<1>17. ViewNow' = [ViewNow EXCEPT ![t] = ItemsNow[x]]
  <2>1. ViewNow'[t] = ItemsNow[x]
    BY <1>5, <1>6, <1>8, <1>14, <1>15 DEF Changed
  <2>2. \A u \in Threads : u # t => ViewNow'[u] = ViewNow[u]
    BY <1>3, <1>5, <1>8, <1>14, <1>15 DEF Changed
  <2> QED
    BY <1>5, <1>14, <2>1, <2>2
<1> QED
  BY <1>1, <1>3, <1>14, <1>16, <1>17, LookInsteadIsAbstract

(* Every step of the lists.                                                *)
LEMMA NextListsInv ==
  ListsInv /\ List!Next
    => ListsInv' /\ (List!Pushes!Next \/ UNCHANGED List!Pushes!vars)
<1> SUFFICES ASSUME ListsInv, List!Next
             PROVE  ListsInv' /\ (List!Pushes!Next \/ UNCHANGED List!Pushes!vars)
  OBVIOUS
<1>1. PICK S, own : ListsNow(S, own)
  BY DEF ListsInv
<1>2. ASSUME NEW t \in Threads, List!PushCas(t)
      PROVE  ListsInv' /\ List!Pushes!Next
  BY <1>1, <1>2, PushCasStep
<1>3. ASSUME NEW t \in Threads, List!PushRetry(t)
      PROVE  ListsInv' /\ UNCHANGED List!Pushes!vars
  BY <1>1, <1>3, PushRetryStep
<1>4. ASSUME NEW t \in Threads, List!Step(t)
      PROVE  ListsInv' /\ UNCHANGED List!Pushes!vars
  BY <1>1, <1>4, StepStep
<1>5. ASSUME NEW t \in Threads, List!WalkReturn(t)
      PROVE  ListsInv' /\ List!Pushes!Next
  BY <1>1, <1>5, WalkReturnStep
<1>6. ASSUME NEW t \in Threads, List!CopyReturn(t)
      PROVE  ListsInv' /\ List!Pushes!Next
  BY <1>1, <1>6, CopyReturnStep
<1>7. ASSUME NEW t \in Threads, NEW n \in Nodes, List!CopyStep(t, n)
      PROVE  ListsInv' /\ UNCHANGED List!Pushes!vars
  BY <1>1, <1>7, CopyStepStep
<1>8. ASSUME NEW t \in Threads, NEW x \in DOMAIN head, List!Calls(t, x)
      PROVE  ListsInv' /\ (List!Pushes!Next \/ UNCHANGED List!Pushes!vars)
  <2>1. CASE \/ List!CallSize(t, x)
             \/ \E y \in Values : List!CallFind(t, x, y)
             \/ \E z \in Lists : List!CallCopy(t, z, x)
    BY <1>1, <2>1, CallStep
  <2>2. ASSUME NEW y \in Values, NEW n \in Nodes, List!CallPush(t, x, y, n)
        PROVE  ListsInv' /\ UNCHANGED List!Pushes!vars
    BY <1>1, <2>2, CallPushStep
  <2>3. ASSUME NEW z \in Lists, List!CopyAssign(t, z, x)
        PROVE  ListsInv' /\ List!Pushes!Next
    BY <1>1, <2>3, CopyAssignStep
  <2> QED
    BY <1>8, <2>1, <2>2, <2>3 DEF List!Calls
<1>9. ASSUME NEW x \in DOMAIN head, List!Destroy(x)
      PROVE  ListsInv' /\ List!Pushes!Next
  BY <1>1, <1>9, DestroyStep
<1>10. ASSUME NEW x \in DOMAIN head, NEW z \in Lists, List!Move(z, x)
       PROVE  ListsInv' /\ List!Pushes!Next
  BY <1>1, <1>10, MoveStep
<1>11. ASSUME NEW x \in DOMAIN head, NEW z \in Lists, List!MoveAssign(z, x)
       PROVE  ListsInv' /\ List!Pushes!Next
  BY <1>1, <1>11, MoveAssignStep
<1> QED
  BY <1>2, <1>3, <1>4, <1>5, <1>6, <1>7, <1>8, <1>9, <1>10, <1>11 DEF List!Next

(* Where the nodes of lists and calls are.                                 *)
LEMMA WhereNodesAre ==
  ASSUME NEW S, NEW own, ListsNow(S, own)
  PROVE  /\ \A x \in DOMAIN head : List!Chain(head[x]) = S[InList(x)]
         /\ \A t \in Threads : List!Building(t) = S[InCall(t)]
<1>1. \A x \in DOMAIN head : List!Chain(head[x]) = S[InList(x)]
  BY Before
<1>2. ASSUME NEW t \in Threads PROVE List!Building(t) = S[InCall(t)]
  <2>1. CallHolds(head, own, value, next, op[t], S[InCall(t)], path[t])
    BY DEF ListsNow, ListsAre
  <2>2. CASE op[t].kind = "copy"
    <3>1. Copies(value, next, op[t], S[InCall(t)], path[t])
      BY <2>1, <2>2, CallIs
    <3>2. S[InCall(t)] \in Seq(Nodes) /\ OneByOne(S[InCall(t)])
      BY PlacesApart DEF ListsNow, ListsAre, Owned
    <3>3. Linked(next, op[t].first, S[InCall(t)])
      BY <3>1 DEF Copies
    <3>4. List!Chain(op[t].first) = S[InCall(t)]
      BY <3>2, <3>3, ChainIs
    <3> QED
      BY <2>2, <3>4 DEF List!Building
  <2>3. CASE op[t].kind = "push"
    BY <2>1, <2>3, CallIs DEF List!Building
  <2>4. CASE op[t].kind \notin {"copy", "push"}
    <3>1. S[InCall(t)] = << >>
      BY <2>1, <2>4, CallIs
    <3> QED
      BY <2>4, <3>1 DEF List!Building
  <2> QED
    BY <2>2, <2>3, <2>4
<1> QED
  BY <1>1, <1>2

LEMMA OwnersAreSingle ==
  ASSUME NEW S, NEW own, ListsNow(S, own)
  PROVE  List!NodesHaveOneOwner
<1>1. /\ Owned(S, own, value) /\ ListsHold(S, head, next)
      /\ S \in [Places -> Seq(Nodes)] /\ DOMAIN head \subseteq Lists
      /\ \A x \in Lists \ DOMAIN head : S[InList(x)] = << >>
  BY DEF ListsNow, ListsAre, ListsHold, Owned
<1>2. /\ \A x \in DOMAIN head : List!Chain(head[x]) = S[InList(x)]
      /\ \A t \in Threads : List!Building(t) = S[InCall(t)]
  BY WhereNodesAre
<1>3. ASSUME NEW p \in Places, NEW n \in Nodes, NEW i \in 1 .. Len(S[p]),
             S[p][i] = n
      PROVE  own[n] = p /\ \A j \in 1 .. Len(S[p]) : S[p][j] = n => j = i
  BY <1>1, <1>3 DEF Owned, OneByOne
<1>4. ASSUME NEW n \in Nodes
      PROVE  IF n \in DOMAIN value
             THEN \/ /\ List!InCalls(n) = {}
                     /\ \E x \in List!InLists(n) : List!InLists(n) = {x}
                  \/ /\ List!InLists(n) = {}
                     /\ \E x \in List!InCalls(n) : List!InCalls(n) = {x}
             ELSE List!InLists(n) = {} /\ List!InCalls(n) = {}
  <2> DEFINE At(p) == {i \in 1 .. Len(S[p]) : S[p][i] = n}
  <2>1. ASSUME NEW p \in Places, own[n] # p PROVE At(p) = {}
    BY <1>3, <2>1
  <2>2. ASSUME NEW p \in Places, NEW i \in At(p) PROVE At(p) = {i}
    BY <1>3
  <2>3. ASSUME NEW c \in Seq(Nodes)
        PROVE  List!Indices(c, n) = {i \in 1 .. Len(c) : c[i] = n}
    BY DEF List!Indices
  <2>4. \A x \in DOMAIN head : List!Indices(List!Chain(head[x]), n) = At(InList(x))
    BY <1>1, <1>2, <2>3, PlacesApart
  <2>5. \A t \in Threads : List!Indices(List!Building(t), n) = At(InCall(t))
    BY <1>1, <1>2, <2>3, PlacesApart
  <2>6. n \in DOMAIN value =>
          own[n] \in Places /\ \E i : i \in At(own[n])
    BY <1>1 DEF Owned
  <2>7. n \notin DOMAIN value => own[n] = Nowhere
    BY <1>1 DEF Owned
  <2> HIDE DEF At
  <2>8. \A z : z \in List!InLists(n) <=>
          \E x \in DOMAIN head : \E i \in At(InList(x)) : z = <<x, i>>
    BY <2>4 DEF List!InLists
  <2>9. \A z : z \in List!InCalls(n) <=>
          \E t \in Threads : \E i \in At(InCall(t)) : z = <<t, i>>
    BY <2>5 DEF List!InCalls
  <2>10. (\A x \in Lists : own[n] # InList(x)) => List!InLists(n) = {}
    BY <1>1, <2>1, <2>8, PlacesApart
  <2>11. (\A t \in Threads : own[n] # InCall(t)) => List!InCalls(n) = {}
    BY <2>1, <2>9, PlacesApart
  <2>12. CASE n \notin DOMAIN value
    BY <2>7, <2>10, <2>11, <2>12, PlacesApart
  <2>13. CASE \E x \in Lists : own[n] = InList(x) /\ n \in DOMAIN value
    <3>1. PICK x \in Lists : own[n] = InList(x)
      BY <2>13
    <3>2. PICK i : i \in At(InList(x))
      BY <2>6, <2>13, <3>1
    <3>3. x \in DOMAIN head
      <4>1. At(InList(x)) # {} => S[InList(x)] # << >>
        BY DEF At
      <4> QED
        BY <1>1, <3>2, <4>1
    <3>4. At(InList(x)) = {i}
      BY <2>2, <3>2, PlacesApart
    <3>5. \A y \in DOMAIN head : y # x => At(InList(y)) = {}
      BY <1>1, <2>1, <3>1, PlacesApart
    <3>6. List!InLists(n) = {<<x, i>>}
      BY <2>8, <3>3, <3>4, <3>5
    <3>7. List!InCalls(n) = {}
      BY <2>11, <3>1, PlacesApart
    <3> QED
      BY <2>13, <3>6, <3>7
  <2>14. CASE \E t \in Threads : own[n] = InCall(t) /\ n \in DOMAIN value
    <3>1. PICK t \in Threads : own[n] = InCall(t)
      BY <2>14
    <3>2. PICK i : i \in At(InCall(t))
      BY <2>6, <2>14, <3>1
    <3>4. At(InCall(t)) = {i}
      BY <2>2, <3>2, PlacesApart
    <3>5. \A u \in Threads : u # t => At(InCall(u)) = {}
      BY <2>1, <3>1, PlacesApart
    <3>6. List!InCalls(n) = {<<t, i>>}
      BY <2>9, <3>4, <3>5
    <3>7. List!InLists(n) = {}
      BY <2>10, <3>1, PlacesApart
    <3> QED
      BY <2>14, <3>6, <3>7
  <2> QED
    BY <2>6, <2>12, <2>13, <2>14 DEF Places, ListPlaces
<1> QED
  BY <1>4 DEF List!NodesHaveOneOwner

LEMMA ListsInvImplies == ListsInv => List!StateInv
<1> SUFFICES ASSUME NEW S, NEW own, ListsNow(S, own)
             PROVE  List!StateInv
  BY DEF ListsInv
<1>1. /\ ListsAre(S, own, head, value, next, op, path) /\ DOMAIN head \subseteq Lists
      /\ head \in [DOMAIN head -> List!Pointers]
      /\ DOMAIN value \subseteq Nodes /\ value \in [DOMAIN value -> Values]
      /\ next \in [Nodes -> List!Pointers] /\ op \in [Threads -> AllOps]
      /\ path \in [Threads -> Seq(Nodes)]
      /\ \A t \in Threads :
           CallHolds(head, own, value, next, op[t], S[InCall(t)], path[t])
  BY DEF ListsNow, ListsAre, ListsHold, Owned
<1>2. List!Range(head) \subseteq List!Pointers /\ List!Range(value) \subseteq Values
  BY <1>1 DEF List!Range
<1>3. List!TypeOK
  BY <1>1, <1>2 DEF List!TypeOK, AllOps
<1>4. ASSUME NEW t \in Threads, List!Walking(t)
      PROVE  /\ op[t].walked <= Len(path[t])
             /\ op[t].at = IF op[t].walked = Len(path[t]) THEN NoPtr
                           ELSE path[t][op[t].walked + 1]
             /\ op[t].kind = "find" => \A i \in 1 .. op[t].walked :
                                          value[path[t][i]] # op[t].wanted
  <2>1. Walks(own, value, next, op[t], path[t])
    BY <1>1, <1>4, CallIs DEF List!Walking
  <2>2. op[t].kind = "find" => op[t] \in List!FindOps
    BY <1>1, CallIs
  <2>3. path[t] \in Seq(Nodes)
    BY <1>1
  <2> QED
    BY <2>1, <2>2, <2>3 DEF Walks, NodeAfter
<1> QED
  BY <1>3, <1>4, OwnersAreSingle DEF List!StateInv, List!WalksSeeSnapshots

LEMMA InitListsInv == PartInit => ListsInv /\ List!Pushes!Init
<1> SUFFICES ASSUME List!Init PROVE ListsInv /\ List!Pushes!Init
  BY DEF PartInit
<1> DEFINE S == [p \in Places |-> << >>]
           own == [n \in Nodes |-> Nowhere]
<1>1. Owned(S, own, value)
  <2>1. S \in [Places -> Seq(Nodes)]
    OBVIOUS
  <2>2. DOMAIN value = {} /\ value \in [DOMAIN value -> Values]
    BY DEF List!Init
  <2>3. \A p \in Places : S[p] = << >>
    OBVIOUS
  <2>4. own \in [Nodes -> Places \cup {Nowhere}] /\ \A n \in Nodes : own[n] = Nowhere
    OBVIOUS
  <2> HIDE DEF S, own
  <2> QED
    BY <2>1, <2>2, <2>3, <2>4 DEF Owned, OneByOne
<1>2. ListsHold(S, head, next)
  BY NothingLinked, PlacesApart DEF ListsHold, List!Init
<1>3. \A t \in Threads :
        CallHolds(head, own, value, next, op[t], S[InCall(t)], path[t])
  BY PlacesApart DEF CallHolds, List!Init
<1>4. TargetsApart(op)
  BY KindsApart DEF TargetsApart, List!Init
<1>5. /\ next \in [Nodes -> List!Pointers] /\ head \in [DOMAIN head -> List!Pointers]
      /\ op \in [Threads -> AllOps] /\ path \in [Threads -> Seq(Nodes)]
  BY DEF List!Init, List!Pointers, AllOps
<1> HIDE DEF S, own
<1>6. ListsNow(S, own)
  BY <1>1, <1>2, <1>3, <1>4, <1>5 DEF ListsNow, ListsAre
<1>7. ListsInv
  BY <1>6 DEF ListsInv
<1>8. ItemsNow = [x \in Lists |-> << >>]
  <2>1. \A x \in DOMAIN head : ItemsNow[x] = Els(value, S[InList(x)])
    BY <1>6, Before
  <2>2. DOMAIN head = Lists
    BY DEF List!Init
  <2>3. \A x \in Lists : ItemsNow[x] = << >>
    <3>1. Els(value, << >>) = << >>
      BY DEF Els
    <3>2. \A x \in Lists : S[InList(x)] = << >>
      BY PlacesApart DEF S
    <3> QED
      BY <2>1, <2>2, <3>1, <3>2
  <2> QED
    BY <2>2, <2>3 DEF ItemsNow
<1>9. ViewNow = [t \in Threads |-> << >>]
  BY DEF ViewNow, List!Init, List!Elements
<1> QED
  BY <1>7, <1>8, <1>9 DEF List!Pushes!Init, ItemsNow, ViewNow

LEMMA ListsInvKept == ListsInv /\ UNCHANGED listVars => ListsInv'
BY DEF ListsInv, ListsNow, listVars

LEMMA ListsNotShown == UNCHANGED listVars => UNCHANGED List!Pushes!vars
BY DEF listVars, List!Pushes!vars, List!Elements, List!Chain

LEMMA ListParts ==
  [PartNext]_allVars => List!Next \/ UNCHANGED listVars
BY DEF PartNext, BufferNext, ListNext, DelayedNext, ZipfNext, MarksNext, allVars

LEMMA ListsInvariant == PartSpec => []ListsInv
<1>1. ListsInv /\ [PartNext]_allVars => ListsInv'
  BY NextListsInv, ListsInvKept, ListParts
<1> QED
  BY <1>1, InitListsInv, PTL DEF PartSpec

(* The nodes of concurrent lists: each allocated one is in one list or     *)
(* with one thread, and walks go over the list that they began with.       *)
THEOREM ListsAreConsistent == PartSpec => []ListStateInv
<1>1. ListsInv => ListStateInv
  BY ListsInvImplies DEF ListStateInv
<1> QED
  BY <1>1, ListsInvariant, PTL

(* Every step of the concurrent lists is one of PushList's, or none.       *)
THEOREM ListsArePushLists == PartSpec => ListImplementsPushList
<1>1. ListsInv /\ [PartNext]_allVars
        => [part = "list" => List!Pushes!Next]_(List!Pushes!vars)
  BY NextListsInv, ListsNotShown, ListParts
<1> QED
  BY <1>1, InitListsInv, ListsInvariant, PTL
     DEF PartSpec, ListImplementsPushList
==============================================================================
